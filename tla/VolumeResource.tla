--------------------------- MODULE VolumeResource ----------------------------
(***************************************************************************)
(* iaas_volume under repeated applies: Create with its wait and optional   *)
(* attach, Update as a sequence of confirmed operations, Delete with its   *)
(* settle, detach, delete loop, and Terraform's planning around them,      *)
(* while other people attach, detach, resize and delete the volume.        *)
(*                                                                         *)
(* A confirmed operation is what VolumeOp describes in detail, taken in    *)
(* three steps: the request with its answer (and the read after a refusal),*)
(* the wait for another operation, and the wait for its own.  An operation *)
(* a call gave up on goes on, and a request whose answer was lost may      *)
(* arrive much later.  One volume exists at a time: what a lost answer to  *)
(* the create leaves behind is a matter of ResourceLifecycle.              *)
(***************************************************************************)
EXTENDS Integers, Sequences

CONSTANTS
    Instances,      \* attachment targets
    NoInstance,     \* detached; a null instance_id
    Plans,          \* volume plans
    Absent,         \* the block is not in the configuration
    MaxFailures,    \* bound: failed requests, operations and waits
    MaxOthers,      \* bound: operations of other people
    MaxEdits,       \* bound: edits of the configuration
    MaxEvents       \* bound: all of these together

ASSUME TargetsAssumption == NoInstance \notin Instances
ASSUME BoundsAssumption ==
    /\ MaxFailures \in Nat /\ MaxOthers \in Nat /\ MaxEdits \in Nat
    /\ MaxEvents \in Nat

VARIABLES
    vol,        \* the platform's volume
    op,         \* the operation the node works on, or NoOp
    late,       \* given-up requests that may still arrive
    state,      \* Terraform's state of the block
    want,       \* the configuration, or Absent
    doing,      \* the method that runs
    pc,         \* where it is
    todo,       \* the confirmed operations it has left, the current one first
    attempt,    \* Delete: how often it was refused as attached
    seen,       \* the operation the call waits for before it asks again
    verdict,    \* of the last apply; "none" if it failed or was overtaken
    quiet,      \* history: nothing has disturbed this destroy
    attaches,   \* history: attaches by others since it began
    fails, others, edits

platform == <<vol, op, late>>
counts   == <<fails, others, edits>>
history  == <<quiet, attaches>>
vars == <<platform, state, want, doing, pc, todo, attempt, seen, verdict,
          history, counts>>

Targets == Instances \cup {NoInstance}
Ops == [action : {"attach"}, target : Instances]
        \cup [action : {"detach", "delete"}, target : {NoInstance}]
        \cup [action : {"resize"}, target : Plans]
NoOp == [action |-> "none", target |-> NoInstance]
Detach == [action |-> "detach", target |-> NoInstance]
Delete == [action |-> "delete", target |-> NoInstance]
Configs == [inst : Targets, plan : Plans]
NoVolume == [exists |-> FALSE, status |-> "pending", inst |-> NoInstance,
             plan |-> CHOOSE p \in Plans : TRUE]
NoState  == [known |-> FALSE, inst |-> NoInstance,
             plan |-> CHOOSE p \in Plans : TRUE, tainted |-> FALSE]

TypeOK ==
    /\ vol \in [exists : BOOLEAN, status : {"pending", "available", "failed"},
                inst : Targets, plan : Plans]
    /\ op \in Ops \cup {NoOp}
    /\ late \subseteq Ops
    /\ state \in [known : BOOLEAN, inst : Targets, plan : Plans,
                  tainted : BOOLEAN]
    /\ want \in Configs \cup {Absent}
    /\ doing \in {"none", "create", "update", "delete"}
    /\ pc \in {"idle", "plan", "create", "provision", "settle", "ask", "busy",
               "confirm", "reread"}
    /\ todo \in Seq(Ops) /\ Len(todo) <= 3
    /\ pc \in {"ask", "busy", "confirm"} => todo # <<>>
    /\ attempt \in 0..2
    /\ seen \in {o.action : o \in Ops} \cup {"none"}
    /\ verdict \in {"none", "running", "ok"}
    /\ quiet \in BOOLEAN /\ attaches \in 0..(MaxOthers + MaxFailures)
    /\ fails \in 0..MaxFailures /\ others \in 0..MaxOthers
    /\ edits \in 0..MaxEdits

Room == fails + others + edits < MaxEvents

\* A request, a node, a read or the one deadline of the method fails.
Failing == /\ Room /\ fails < MaxFailures /\ fails' = fails + 1
           /\ UNCHANGED <<others, edits>>

-----------------------------------------------------------------------------
(* The platform's side of an operation (outside this repository).          *)

Applied(o) ==
    IF o.action = "delete" THEN NoVolume
    ELSE IF o.action = "resize" THEN [vol EXCEPT !.plan = o.target]
    ELSE [vol EXCEPT !.inst = o.target]

\* What the volume's own state rules out; a volume that is not available
\* takes no attachment.
RuledOut(o) ==
    \/ o.action = "attach"
       /\ (vol.inst # NoInstance \/ vol.status # "available")
    \/ o.action = "delete" /\ vol.inst # NoInstance
    \/ o.action = "detach" /\ vol.inst = NoInstance

Admissible(o) == vol.exists /\ op = NoOp /\ ~RuledOut(o)

\* Mutant: a volume that is idle and detached counts as deleted.
DesiredIdle(o) ==
    \/ o.action \in {"attach", "detach"} /\ vol.inst = o.target
    \/ o.action = "resize" /\ vol.plan = o.target
    \/ o.action = "delete" /\ vol.inst = NoInstance

\* The state each call waits to see; of a delete only a 404 is the end.
Desired(o) ==
    \/ o.action \in {"attach", "detach"} /\ vol.inst = o.target
    \/ o.action = "resize" /\ vol.plan = o.target

-----------------------------------------------------------------------------
(* Returning to Terraform.                                                 *)

Return(s, v) ==
    /\ state' = s
    /\ doing' = "none" /\ pc' = "idle"
    /\ todo' = <<>>
    /\ attempt' = 0
    /\ seen' = "none"
    /\ verdict' = v
    /\ quiet' = TRUE /\ attaches' = 0

Ok == IF verdict = "running" THEN "ok" ELSE verdict

\* The state a read of the volume gives.
Shown == [known |-> TRUE, inst |-> vol.inst, plan |-> vol.plan,
          tainted |-> FALSE]
AsWanted(s) == s.inst = want.inst /\ s.plan = want.plan

\* Terraform rejects a result other than planned, and taints it in a create.
HandOver ==
    Return([Shown EXCEPT !.tainted = doing = "create" /\ ~AsWanted(Shown)],
           IF AsWanted(Shown) THEN Ok ELSE "none")

\* The volume is gone: the block is done, or the replacement begins.
Deleted ==
    \/ want = Absent /\ Return(NoState, Ok)
    \/ /\ want # Absent
       /\ state' = NoState
       /\ doing' = "create" /\ pc' = "create"
       /\ todo' = <<>> /\ attempt' = 0 /\ seen' = "none"
       /\ quiet' = TRUE /\ attaches' = 0
       /\ UNCHANGED verdict

\* What a failed method leaves: a create that waited, and a destroy, what was
\* recorded; else what setStateFromAPI reads, or that when the read fails.
Left ==
    {state} \cup
    {s \in {Shown} : vol.exists /\ doing # "delete" /\ pc # "provision"}

GiveUp ==
    \E s \in Left :
       Return([s EXCEPT !.known = TRUE,
                        !.tainted = state.tainted \/ doing = "create"], "none")

-----------------------------------------------------------------------------
(* Read and plan.                                                          *)

\* Read before every plan: a 404 removes the volume from the state.
Refresh ==
    /\ pc = "idle"
    /\ state' = IF state.known /\ vol.exists
                THEN [Shown EXCEPT !.tainted = state.tainted] ELSE NoState
    /\ pc' = "plan"
    /\ verdict' = "running"
    /\ UNCHANGED <<platform, want, doing, todo, attempt, seen, history,
                   counts>>

\* Mutant: the new target is attached before the old one is detached.
UpdateStepsAttachFirst ==
    (IF want.plan # state.plan
       THEN <<[action |-> "resize", target |-> want.plan]>> ELSE <<>>)
    \o (IF want.inst \notin {state.inst, NoInstance}
          THEN <<[action |-> "attach", target |-> want.inst]>> ELSE <<>>)
    \o (IF want.inst # state.inst /\ state.inst # NoInstance
          THEN <<Detach>> ELSE <<>>)

\* The operations of an update, in the order they are sent.
UpdateSteps ==
    (IF want.plan # state.plan
       THEN <<[action |-> "resize", target |-> want.plan]>> ELSE <<>>)
    \o (IF want.inst # state.inst /\ state.inst # NoInstance
          THEN <<Detach>> ELSE <<>>)
    \o (IF want.inst \notin {state.inst, NoInstance}
          THEN <<[action |-> "attach", target |-> want.inst]>> ELSE <<>>)

Start(d, p, steps) ==
    /\ doing' = d /\ pc' = p
    /\ todo' = steps
    /\ quiet' = TRUE
    /\ UNCHANGED <<state, attempt, seen, verdict, attaches>>

Plan ==
    /\ pc = "plan"
    /\ \/ /\ ~state.known /\ want # Absent
          /\ Start("create", "create", <<>>)
       \/ /\ state.known /\ (want = Absent \/ state.tainted)
          /\ Start("delete", "settle", <<>>)
       \/ /\ state.known /\ want # Absent /\ ~state.tainted /\ ~AsWanted(state)
          /\ Start("update", "ask", UpdateSteps)
       \/ /\ IF state.known
               THEN want # Absent /\ ~state.tainted /\ AsWanted(state)
               ELSE want = Absent
          /\ Return(state, Ok)
    /\ UNCHANGED <<platform, want, counts>>

-----------------------------------------------------------------------------
(* A confirmed operation: the call works on the first of `todo`.           *)

Current == todo[1]

Go(p, s) ==
    /\ pc' = p
    /\ seen' = s
    /\ UNCHANGED <<state, doing, todo, attempt, verdict, history>>

Succeeded ==
    \/ /\ Len(todo) > 1
       /\ todo' = Tail(todo)
       /\ pc' = "ask" /\ seen' = "none"
       /\ UNCHANGED <<state, doing, attempt, verdict, history>>
    \/ Len(todo) = 1 /\ doing = "create" /\ HandOver
    \/ Len(todo) = 1 /\ doing = "update" /\ Go("reread", "none")
    \/ Len(todo) = 1 /\ doing = "delete" /\ Deleted

\* The volume reads 404: the end of a delete, an error for the rest.
Gone == IF Current.action = "delete" THEN Succeeded ELSE GiveUp

Steady == UNCHANGED <<platform, want, counts>>

\* The request is accepted and the node at work.
AskAccepted ==
    /\ pc = "ask" /\ Admissible(Current)
    /\ op' = Current
    /\ Go("confirm", "none")
    /\ UNCHANGED <<vol, late, want, counts>>

\* Attach and detach on a stopped instance need no node command.  (An answer
\* lost after that is this step and a failure of the call.)
AskApplied ==
    /\ pc = "ask" /\ Admissible(Current)
    /\ Current.action \in {"attach", "detach"}
    /\ vol' = Applied(Current)
    /\ Go("confirm", "none")
    /\ UNCHANGED <<op, late, want, counts>>

AskBusy ==
    /\ pc = "ask" /\ vol.exists /\ op # NoOp
    /\ Go("busy", op.action)
    /\ Steady

\* Mutant: a delete refused as attached starts over for ever.
AskedEnoughNever == FALSE

\* Delete looks at the volume again twice.
AskedEnough == attempt = 2

\* Refused as the volume is: that may be what was asked for, and a delete
\* refused as attached starts over.
AskRefused ==
    /\ pc = "ask" /\ vol.exists /\ op = NoOp /\ RuledOut(Current)
    /\ \/ Desired(Current) /\ Succeeded
       \/ /\ Current = Delete /\ ~AskedEnough
          /\ pc' = "settle"
          /\ attempt' = attempt + 1
          /\ todo' = <<>> /\ seen' = "none"
          /\ UNCHANGED <<state, doing, verdict, history>>
       \/ ~Desired(Current) /\ (Current = Delete => AskedEnough) /\ GiveUp
    /\ Steady

\* A 404 is reported as a refusal, also of a delete.
AskMissing ==
    /\ pc = "ask" /\ ~vol.exists
    /\ GiveUp
    /\ Steady

\* The answer is lost: the operation may be recorded, still travel or never
\* arrive; one read decides whether the call goes on.
AskLost ==
    /\ pc = "ask" /\ Failing
    /\ \/ Admissible(Current) /\ op' = Current /\ UNCHANGED late
       \/ late' = late \cup {Current} /\ UNCHANGED op
       \/ UNCHANGED <<op, late>>
    /\ \/ vol.exists /\ op'.action = Current.action /\ Go("confirm", "none")
       \/ vol.exists /\ op'.action # Current.action /\ Desired(Current)
          /\ Succeeded
       \/ ~vol.exists /\ Gone
       \/ GiveUp
    /\ UNCHANGED <<vol, want>>

\* Another operation was in the way.  One of the same action that ended without
\* the change is the answer.
Busy ==
    /\ pc = "busy" /\ (~vol.exists \/ op = NoOp)
    /\ \/ ~vol.exists /\ Gone
       \/ vol.exists /\ Desired(Current) /\ Succeeded
       \/ /\ vol.exists /\ ~Desired(Current)
          /\ IF seen = Current.action THEN GiveUp ELSE Go("ask", "none")
    /\ Steady

\* The operation is over; a state other than requested is a node failure.
Confirm ==
    /\ pc = "confirm" /\ (~vol.exists \/ op.action # Current.action)
    /\ \/ ~vol.exists /\ Gone
       \/ vol.exists /\ Desired(Current) /\ Succeeded
       \/ vol.exists /\ ~Desired(Current) /\ GiveUp
    /\ Steady

-----------------------------------------------------------------------------
(* Create, Update and Delete around them.                                  *)

\* The POST; its id is in the state before anything else.
Create ==
    /\ pc = "create"
    /\ vol' = [exists |-> TRUE, status |-> "pending", inst |-> NoInstance,
               plan |-> want.plan]
    /\ Go("provision", "none")
    /\ UNCHANGED <<op, late, want, counts>>

CreateFails ==
    /\ pc = "create" /\ Failing
    /\ Return(NoState, "none")
    /\ UNCHANGED <<platform, want>>

\* The volume is available: it is attached, or read and handed over.
Provision ==
    /\ pc = "provision" /\ vol.exists /\ vol.status = "available"
    /\ IF want.inst = NoInstance THEN HandOver
       ELSE /\ todo' = <<[action |-> "attach", target |-> want.inst]>>
            /\ pc' = "ask"
            /\ UNCHANGED <<state, doing, attempt, seen, verdict, history>>
    /\ Steady

\* The volume failed; a 404 outlasts the errors the wait tolerates.
ProvisionEnds ==
    /\ pc = "provision" /\ (~vol.exists \/ vol.status = "failed")
    /\ GiveUp
    /\ Steady

\* The read that ends an update.
Reread ==
    /\ pc = "reread"
    /\ IF vol.exists THEN HandOver ELSE Return(state, "none")
    /\ Steady

\* Mutant: Delete decides without waiting for pending work.
SettleHasty ==
    /\ pc = "settle"
    /\ \/ ~vol.exists /\ Deleted
       \/ /\ vol.exists
          /\ todo' = IF vol.inst = NoInstance THEN <<Delete>>
                     ELSE <<Detach, Delete>>
          /\ pc' = "ask"
          /\ UNCHANGED <<state, doing, attempt, seen, verdict, history>>
    /\ Steady

\* Delete decides whether to detach from a volume without pending work.
Settle ==
    /\ pc = "settle" /\ (~vol.exists \/ op = NoOp)
    /\ \/ ~vol.exists /\ Deleted
       \/ /\ vol.exists
          /\ todo' = IF vol.inst = NoInstance THEN <<Delete>>
                     ELSE <<Detach, Delete>>
          /\ pc' = "ask"
          /\ UNCHANGED <<state, doing, attempt, seen, verdict, history>>
    /\ Steady

\* A read, the request or the deadline fails; the operation goes on.
MethodFails ==
    /\ pc \in {"provision", "settle", "ask", "busy", "confirm"} /\ Failing
    /\ GiveUp
    /\ UNCHANGED <<platform, want>>

RereadFails ==
    /\ pc = "reread" /\ Failing
    /\ Return(state, "none")
    /\ UNCHANGED <<platform, want>>

-----------------------------------------------------------------------------
(* The platform, other people and the practitioner.                        *)

\* What happens behind Terraform between its read and its answer voids "ok".
Overtaken == verdict' = IF pc \in {"idle", "plan"} THEN "none" ELSE verdict

OpDone ==
    /\ op # NoOp
    /\ vol' = Applied(op)
    /\ op' = NoOp
    /\ Overtaken
    /\ UNCHANGED <<late, state, want, doing, pc, todo, attempt, seen, history,
                   counts>>

OpFails ==
    /\ op # NoOp /\ Failing
    /\ op' = NoOp
    /\ quiet' = FALSE
    /\ UNCHANGED <<vol, late, state, want, doing, pc, todo, attempt, seen,
                   verdict, attaches>>

Provisioned ==
    /\ vol.exists /\ vol.status = "pending"
    /\ \/ vol' = [vol EXCEPT !.status = "available"] /\ UNCHANGED counts
       \/ vol' = [vol EXCEPT !.status = "failed"] /\ Failing
    /\ UNCHANGED <<op, late, state, want, doing, pc, todo, attempt, seen,
                   verdict, history>>

\* An operation the running method did not send begins.
Intrudes(o) ==
    /\ Admissible(o)
    /\ op' = o
    /\ attaches' = IF doing = "delete" /\ o.action = "attach"
                   THEN attaches + 1 ELSE attaches

LateArrives(o) ==
    /\ o \in late
    /\ late' = late \ {o}
    /\ \/ Intrudes(o)
       \/ ~Admissible(o) /\ UNCHANGED <<op, attaches>>
    /\ quiet' = FALSE
    /\ UNCHANGED <<vol, state, want, doing, pc, todo, attempt, seen, verdict,
                   counts>>

SomebodyElse(o) ==
    /\ Room /\ others < MaxOthers /\ others' = others + 1
    /\ Intrudes(o)
    /\ quiet' = FALSE
    /\ UNCHANGED <<vol, late, state, want, doing, pc, todo, attempt, seen,
                   verdict, fails, edits>>

Edit ==
    /\ pc = "idle" /\ Room /\ edits < MaxEdits
    /\ edits' = edits + 1
    /\ want' \in (Configs \cup {Absent}) \ {want}
    /\ verdict' = "none"
    /\ UNCHANGED <<platform, state, doing, pc, todo, attempt, seen, history,
                   fails, others>>

-----------------------------------------------------------------------------
Init ==
    /\ vol = NoVolume /\ op = NoOp /\ late = {}
    /\ state = NoState
    /\ want \in Configs
    /\ doing = "none" /\ pc = "idle"
    /\ todo = <<>> /\ attempt = 0 /\ seen = "none"
    /\ verdict = "none"
    /\ quiet = TRUE /\ attaches = 0
    /\ fails = 0 /\ others = 0 /\ edits = 0

Asks == \/ AskAccepted \/ AskApplied \/ AskBusy \/ AskRefused \/ AskMissing
        \/ AskLost \/ Busy \/ Confirm

Method == \/ Asks
          \/ Create \/ CreateFails \/ Provision \/ ProvisionEnds \/ Reread
          \/ Settle \/ MethodFails \/ RereadFails

Next ==
    \/ Refresh \/ Plan \/ Method
    \/ OpDone \/ OpFails \/ Provisioned
    \/ \E o \in Ops : LateArrives(o) \/ SomebodyElse(o)
    \/ Edit

Spec == Init /\ [][Next]_vars

\* Terraform is run again until nothing is left to do, a running method goes
\* on, and the platform ends the work it has begun; a late request may stay
\* away for good.
FairSpec ==
    /\ Spec
    /\ WF_vars(Refresh) /\ WF_vars(Plan) /\ WF_vars(Method)
    /\ WF_vars(OpDone) /\ WF_vars(Provisioned)

-----------------------------------------------------------------------------
(* Properties.                                                             *)

\* An apply without an error leaves the volume of the configured plan, usable
\* and attached as configured, and Terraform's state saying so; a destroy
\* without an error leaves no volume, and nothing to pay for.
OkMeansDone ==
    verdict = "ok" =>
       IF want = Absent THEN ~vol.exists /\ state = NoState
       ELSE /\ vol.exists /\ vol.status = "available" /\ AsWanted(vol)
            /\ AsWanted(state) /\ state.known /\ ~state.tainted

\* A destroy fails only for a failure, or because somebody else was at work
\* during it: what an earlier apply left pending does not make it fail.  As
\* attached it is refused only when others attached the volume three times.
RefusedAsAttached ==
    pc = "ask" /\ Current = Delete /\ op = NoOp /\ vol.inst # NoInstance
DestroyGivesUp == doing = "delete" /\ doing' = "none" /\ state'.known
DestroyHolds ==
    [][DestroyGivesUp =>
          \/ fails' # fails
          \/ ~quiet /\ (RefusedAsAttached => attaches > 2)]_vars

\* Once failures, others and edits end, repeated applies settle on the
\* configuration, whatever operations were left pending on the way.
Settled ==
    /\ verdict \in {"ok", "running"}
    /\ IF want = Absent THEN ~vol.exists
       ELSE state.known /\ ~state.tainted /\ vol.exists /\ AsWanted(vol)
Converges == <>[]Settled
=============================================================================
