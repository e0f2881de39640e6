------------------------- MODULE ResourceLifecycle --------------------------
(***************************************************************************)
(* One block of a plain resource under repeated applies: Create, Read,     *)
(* Update and Delete as internal/resources writes them, for any of the     *)
(* profiles of ResourceProfiles, with Terraform's planning around them.    *)
(*                                                                         *)
(* Create gathers its response step by step; whatever is in it when a      *)
(* request fails is what Terraform keeps, tainted.  A failed Update or     *)
(* Delete leaves the prior state.  Every request may be refused, or be     *)
(* carried out while its answer is lost, and then be sent again by the     *)
(* client.  Other people change and delete the object.                     *)
(***************************************************************************)
EXTENDS Integers, Sequences

CONSTANTS
    Profiles,       \* the resources' profiles
    Absent,         \* the block is not in the configuration
    MaxObjects,     \* objects that can exist together
    MaxFailures,    \* bound: failed requests and waits
    MaxDrifts,      \* bound: changes and deletions by others
    MaxEdits,       \* bound: edits of the configuration
    MaxEvents       \* bound: all of these together

ASSUME BoundsAssumption ==
    /\ MaxFailures \in Nat /\ MaxDrifts \in Nat /\ MaxEdits \in Nat
    /\ MaxEvents \in Nat /\ MaxObjects \in Nat \ {0}

\* What holds of the resources and a failing Create relies on: only a resource
\* that saves its id at once waits, a stage always has its id saved, and who
\* records an unclear answer asks once.  What a keyed create relies on, whose
\* answer may be an old one: the object is read before Create ends, and no part
\* of it is sent by other requests.  A part a job turns over is shown by reads,
\* and is none of a keyed create's.
ASSUME ProfilesAssumption ==
    \A p \in Profiles :
       /\ p.track # "first" => ~p.deploy /\ ~p.wait
       /\ p.stage => p.track \in {"first", "guarded"}
       /\ p.track = "asked" => ~p.locate /\ p.by.create = "once"
       /\ p.by.create = "keyed" => p.read \in {"must", "may"} /\ ~p.stage
       /\ p.later => ~p.blind /\ p.by.create # "keyed"
       /\ p.stub \in BOOLEAN

ASSUME AbsentAssumption == Absent \notin [{"main", "extra"} -> {0, 1}]

VARIABLES
    profile,    \* the resource's profile
    forgot,     \* history: Terraform lost sight of an object
    remembered, \* the platform's answers to keyed creates, by their body
    obj,        \* the platform's objects: life, ready, started, config, and
                \* due: a job that turns the staged part over is under way
    state,      \* Terraform's state of the block: id, config, tainted, and
                \* stub: it lacks what Read and Delete need next to the id
    want,       \* the configuration, or Absent
    pc,         \* where the apply is
    id,         \* Create: the object it made, 0 before
    saved,      \* Create: the response holds that id
    left,       \* Update: the parts it has not sent yet
    verdict,    \* of the last apply; "none" if it failed or was disturbed
    fails, drifts, edits

vars == <<profile, forgot, remembered, obj, state, want, pc, id, saved, left,
          verdict, fails, drifts, edits>>

Ids == 1..MaxObjects
Parts == {"main", "extra"}      \* "extra" is what a stage sets
Configs == [Parts -> {0, 1}]
Default == [p \in Parts |-> 0]
Positions == {"idle", "plan", "create", "locate", "deploy", "wait", "stage",
              "readBack", "respond", "patch", "patchRead", "delete",
              "deleteWait"}

Objects == [life : {"none", "live", "dying"}, ready : BOOLEAN,
            started : BOOLEAN, config : Configs, due : BOOLEAN]
Blank   == [life |-> "none", ready |-> FALSE, started |-> FALSE,
            config |-> Default, due |-> FALSE]
States  == [id : Ids \cup {0}, config : Configs, tainted : BOOLEAN,
            stub : BOOLEAN]
NoState == [id |-> 0, config |-> Default, tainted |-> FALSE, stub |-> FALSE]

TypeOK ==
    /\ profile \in Profiles
    /\ forgot \in BOOLEAN
    /\ remembered \in [Configs -> Ids \cup {0}]
    /\ obj \in [Ids -> Objects]
    /\ state \in States
    /\ state.id = 0 => state = NoState
    /\ want \in Configs \cup {Absent}
    /\ pc \in Positions
    /\ id \in Ids \cup {0}
    /\ saved \in BOOLEAN
    /\ left \subseteq Parts
    /\ verdict \in {"none", "running", "ok"}
    /\ fails \in 0..MaxFailures /\ drifts \in 0..MaxDrifts
    /\ edits \in 0..MaxEdits

\* The objects Terraform knows.
Tracked == {state.id, id}

-----------------------------------------------------------------------------
(* Returning to Terraform.                                                 *)

Return(s, v) ==
    /\ state' = s
    /\ pc' = "idle"
    /\ id' = 0
    /\ saved' = FALSE
    /\ left' = {}
    /\ verdict' = v

Ok == IF verdict = "running" THEN "ok" ELSE verdict

\* What a plan finds to change.
Changed == {p \in Parts : state.config[p] # want[p]}

\* Mutant: a create that failed early still leaves a resource to replace.
TaintedAlways(i) == [id |-> i, config |-> Default, tainted |-> TRUE,
                     stub |-> profile.stub]

\* What Terraform keeps of a failed Create: a tainted resource, or nothing.
Tainted(i) ==
    IF i = 0 THEN NoState
    ELSE [id |-> i, config |-> Default, tainted |-> TRUE, stub |-> profile.stub]

\* Mutant: the id is written to the response with the final state only.
SavesAtOnceNever == FALSE

\* Is the id in the response as soon as Create knows it?
SavesAtOnce == profile.track \in {"first", "asked"}

\* The id in the response of a Create that fails now.
Kept ==
    IF saved \/ (profile.track = "guarded" /\ pc = "stage") THEN id ELSE 0

\* An object whose id was not in the response is forgotten.
FailCreate ==
    /\ Return(Tainted(Kept), "none")
    /\ forgot' = (forgot \/ id # Kept)

FailChange == Return(state, "none")

\* The parts of a sequence that went through before it failed are recorded.
Recorded == IF profile.change = "inOrder" THEN Changed \ left ELSE {}

FailPatch ==
    Return([state EXCEPT !.config =
              [p \in Parts |-> IF p \in Recorded THEN want[p]
                               ELSE state.config[p]]],
           "none")

\* Something else may still go wrong, or change.
Room == fails + drifts + edits < MaxEvents

\* An answer that never comes, a refusal, or an expired wait.
Failing == Room /\ fails < MaxFailures /\ fails' = fails + 1

-----------------------------------------------------------------------------
(* Reads.                                                                  *)

Exists(i) == obj[i].life # "none"
Live(i)   == obj[i].life = "live"

\* The state a read gives, on top of what was there.
Read(i, prior) ==
    [p \in Parts |-> IF p = "extra" /\ profile.blind THEN prior[p]
                     ELSE obj[i].config[p]]

\* The client refuses a read or a delete without the parent's id, and neither
\* is ever sent: every apply and every destroy ends here.
RefreshRefused ==
    /\ pc = "idle" /\ state.stub
    /\ verdict' = "none"
    /\ UNCHANGED <<profile, forgot, remembered, obj, state, want, pc, id, saved,
                   left, fails, drifts, edits>>

\* Mutant: a 404 is an error like any other.
RefreshKeepsMissing ==
    /\ pc = "idle" /\ ~state.stub
    /\ state' = IF state.id = 0 \/ ~Exists(state.id) THEN state
                ELSE [state EXCEPT !.config = Read(state.id, state.config)]
    /\ pc' = "plan"
    /\ verdict' = "running"
    /\ UNCHANGED <<profile, forgot, remembered, obj, want, id, saved, left,
                   fails, drifts, edits>>

\* Read before every plan: a 404 removes the resource from the state.  (A
\* refresh that fails ends the apply and changes nothing.)
Refresh ==
    /\ pc = "idle" /\ ~state.stub
    /\ state' = IF state.id = 0 \/ ~Exists(state.id) THEN NoState
                ELSE [state EXCEPT !.config = Read(state.id, state.config)]
    /\ pc' = "plan"
    /\ verdict' = "running"
    /\ UNCHANGED <<profile, forgot, remembered, obj, want, id, saved, left,
                   fails, drifts, edits>>

\* The object is searched for in a list fetched page by page, and moves to an
\* earlier page when somebody deletes another row meanwhile.
RefreshMisses ==
    /\ pc = "idle" /\ ~state.stub /\ profile.by.pages /\ state.id # 0
    /\ Room /\ drifts < MaxDrifts /\ drifts' = drifts + 1
    /\ state' = NoState
    /\ forgot' = TRUE
    /\ pc' = "plan"
    /\ verdict' = "none"
    /\ UNCHANGED <<profile, remembered, obj, want, id, saved, left, fails,
                   edits>>

-----------------------------------------------------------------------------
(* The plan (Terraform).                                                   *)

Replaces ==
    state.tainted \/ (profile.change = "replace" /\ state.config # want)

Plan ==
    /\ pc = "plan"
    /\ \/ /\ state.id = 0 /\ want # Absent
          /\ pc' = "create"
          /\ UNCHANGED <<state, id, saved, left, verdict>>
       \/ /\ state.id # 0 /\ (want = Absent \/ Replaces)
          /\ pc' = "delete"
          /\ UNCHANGED <<state, id, saved, left, verdict>>
       \/ /\ state.id # 0 /\ want # Absent /\ ~Replaces /\ Changed # {}
          /\ pc' = "patch"
          /\ left' = Changed
          /\ UNCHANGED <<state, id, saved, verdict>>
       \/ /\ IF state.id = 0 THEN want = Absent
             ELSE want # Absent /\ ~Replaces /\ Changed = {}
          /\ Return(state, Ok)
    /\ UNCHANGED <<profile, forgot, remembered, obj, want, fails, drifts,
                   edits>>

-----------------------------------------------------------------------------
(* Create.                                                                 *)

\* The steps a Create takes after each other, as far as the profile has them; a
\* part left at its default is not staged.
AfterStage  == IF profile.read # "none" THEN "readBack" ELSE "respond"
\* Mutant: the requests of the stage are forgotten.
AfterWaitUnstaged == AfterStage
AfterWait   == IF profile.stage /\ want["extra"] # Default["extra"]
               THEN "stage" ELSE AfterStage
AfterDeploy == IF profile.wait THEN "wait" ELSE AfterWait
AfterLocate == IF profile.deploy THEN "deploy" ELSE AfterDeploy
AfterCreate == IF profile.locate THEN "locate" ELSE AfterLocate

GoOn(p) == /\ pc' = p
           /\ UNCHANGED <<state, id, left, verdict>>

Keyed == profile.by.create = "keyed"

\* An id nothing has had that is still spoken of.
Free == {i \in Ids : ~Exists(i) /\ \A c \in Configs : remembered[c] # i}

\* The object a create is about: the one it names itself, or a new one.
Target(i) ==
    IF profile.by.create = "same" /\ \E j \in Ids : Exists(j)
    THEN Exists(i) ELSE Free # {} /\ i = CHOOSE j \in Free : TRUE

\* What the create sends: a staged part is not in it.
Body == IF profile.stage THEN [want EXCEPT !["extra"] = Default["extra"]]
        ELSE want

\* The platform carries the create out and answers with object i, or, to a key
\* it remembers, with the object it answered then.
CarriedOut(i) ==
    \/ /\ ~(Keyed /\ remembered[Body] # 0) /\ Target(i)
       /\ obj' = [obj EXCEPT ![i] =
                    [life |-> "live", ready |-> ~profile.wait,
                     started |-> ~profile.deploy, config |-> Body,
                     due |-> FALSE]]
       /\ remembered' = IF Keyed THEN [remembered EXCEPT ![Body] = i]
                        ELSE remembered
    \/ /\ Keyed /\ remembered[Body] # 0 /\ i = remembered[Body]
       /\ UNCHANGED <<obj, remembered>>

\* The create is carried out and answered.
Create ==
    /\ pc = "create"
    /\ \E i \in Ids : CarriedOut(i) /\ id' = i
    /\ saved' = (SavesAtOnce /\ ~profile.locate)
    /\ pc' = AfterCreate
    /\ UNCHANGED <<profile, forgot, state, want, left, verdict, fails, drifts,
                   edits>>

\* The list shows the new object.
Locate ==
    /\ pc = "locate" /\ Exists(id)
    /\ saved' = SavesAtOnce
    /\ GoOn(AfterLocate)
    /\ UNCHANGED <<profile, forgot, remembered, obj, want, fails, drifts,
                   edits>>

Deploy ==
    /\ pc = "deploy" /\ Live(id)
    /\ obj' = [obj EXCEPT ![id].started = TRUE]
    /\ GoOn(AfterDeploy)
    /\ UNCHANGED <<profile, forgot, remembered, want, saved, fails, drifts,
                   edits>>

Wait ==
    /\ pc = "wait" /\ Live(id) /\ obj[id].ready
    /\ GoOn(AfterWait)
    /\ UNCHANGED <<profile, forgot, remembered, obj, want, saved, fails,
                   drifts, edits>>

\* What a request for the parts ps makes of object o: at once, or, of a staged
\* part that is turned over by a job, later.
Told(o, ps) ==
    [o EXCEPT !.config = [p \in Parts |->
                            IF p \in ps /\ ~(p = "extra" /\ profile.later)
                              THEN want[p] ELSE @[p]],
              !.due = IF profile.later /\ "extra" \in ps
                        THEN o.config["extra"] # want["extra"] ELSE @]

Changing(i, ps) == obj' = [obj EXCEPT ![i] = Told(obj[i], ps)]

Stage ==
    /\ pc = "stage" /\ Live(id)
    /\ Changing(id, {"extra"})
    /\ GoOn(AfterStage)
    /\ UNCHANGED <<profile, forgot, remembered, want, saved, fails, drifts,
                   edits>>

\* Create ends with the configuration c; Terraform rejects another than planned.
HandOver(c) ==
    Return([id |-> id, config |-> c, tainted |-> c # want, stub |-> FALSE],
           IF c = want THEN Ok ELSE "none")

\* What is recorded after a read: where a job turns the part over, the plan.
Trusting(c, told) ==
    [p \in Parts |-> IF p = "extra" /\ profile.later /\ told THEN want[p]
                     ELSE c[p]]

ReadBack ==
    /\ pc = "readBack" /\ Exists(id)
    /\ HandOver(Trusting(Read(id, want), TRUE))
    /\ UNCHANGED <<profile, forgot, remembered, obj, want, fails, drifts,
                   edits>>

\* No read, or a failed one that need not succeed: the answer is the state.
Respond ==
    /\ pc = "respond"
    /\ HandOver(want)
    /\ UNCHANGED <<profile, forgot, remembered, obj, want, fails, drifts,
                   edits>>

\* A request fails without effect, or the object has gone meanwhile.
CreateFails ==
    /\ \/ pc \in {"create", "locate", "deploy", "wait", "stage"} /\ Failing
       \/ pc \in {"deploy", "wait", "stage"} /\ ~Live(id) /\ UNCHANGED fails
       \/ pc = "locate" /\ ~Exists(id) /\ UNCHANGED fails
    /\ FailCreate
    /\ UNCHANGED <<profile, remembered, obj, want, drifts, edits>>

\* The create is carried out and its answer lost: the client sends it again,
\* which makes a second object unless a key or a name of its own prevents it,
\* or Create fails.
CreateUnheard ==
    /\ pc = "create" /\ Failing
    /\ \E i \in Ids :
          /\ CarriedOut(i)
          /\ \/ /\ profile.by.create # "once"
                /\ UNCHANGED <<state, pc, id, saved, left, verdict>>
             \/ Return(Tainted(IF profile.track = "asked" THEN i ELSE 0),
                       "none")
    /\ forgot' = (forgot \/ profile.track # "asked")
    /\ UNCHANGED <<profile, want, drifts, edits>>

\* An unclear answer is recorded although nothing was made.
CreateDoubted ==
    /\ pc = "create" /\ profile.track = "asked" /\ Failing
    /\ \E i \in Free : Return(Tainted(i), "none")
    /\ UNCHANGED <<profile, forgot, remembered, obj, want, drifts, edits>>

\* A later request is carried out and its answer lost.
CreateLost ==
    /\ pc \in {"deploy", "stage"} /\ Live(id) /\ Failing
    /\ IF pc = "deploy" THEN obj' = [obj EXCEPT ![id].started = TRUE]
       ELSE Changing(id, {"extra"})
    /\ FailCreate
    /\ UNCHANGED <<profile, remembered, want, drifts, edits>>

\* The last read fails, or shows no object.
ReadBackFails ==
    /\ pc = "readBack"
    /\ Failing \/ (~Exists(id) /\ UNCHANGED fails)
    /\ IF profile.read = "must" THEN FailCreate
       ELSE /\ pc' = "respond"
            /\ UNCHANGED <<forgot, state, id, saved, left, verdict>>
    /\ UNCHANGED <<profile, remembered, obj, want, drifts, edits>>

-----------------------------------------------------------------------------
(* Update.                                                                 *)

\* The parts one request of the update carries.
Batches ==
    CASE profile.change = "one" -> {left}
      [] profile.change = "each" -> {{p} : p \in left}
      [] profile.change = "inOrder" ->
            IF "main" \in left THEN {{"main"}, left} ELSE {left}

Patch ==
    /\ pc = "patch" /\ Live(state.id)
    /\ \E ps \in Batches :
          /\ Changing(state.id, ps)
          /\ left' = left \ ps
    /\ pc' = IF left' # {} THEN "patch" ELSE "patchRead"
    /\ UNCHANGED <<profile, forgot, remembered, state, want, id, saved,
                   verdict, fails, drifts, edits>>

PatchFails ==
    /\ pc = "patch"
    /\ Failing \/ (~Live(state.id) /\ UNCHANGED fails)
    /\ FailPatch
    /\ UNCHANGED <<profile, forgot, remembered, obj, want, drifts, edits>>

\* Carried out, and its answer lost: sent again, or given up.
PatchLost ==
    /\ pc = "patch" /\ Live(state.id) /\ Failing
    /\ \E ps \in Batches : Changing(state.id, ps)
    /\ \/ FailPatch
       \/ /\ profile.by.update # "once"
          /\ UNCHANGED <<state, pc, id, saved, left, verdict>>
    /\ UNCHANGED <<profile, forgot, remembered, want, drifts, edits>>

\* The new state: from a read, or from the answer to the update.
PatchRead ==
    /\ pc = "patchRead"
    /\ profile.reread => Exists(state.id)
    /\ LET c == IF profile.reread
                  THEN Trusting(Read(state.id, want), "extra" \in Changed)
                ELSE want
       IN  Return([state EXCEPT !.config = c],
                  IF c = want THEN Ok ELSE "none")
    /\ UNCHANGED <<profile, forgot, remembered, obj, want, fails, drifts,
                   edits>>

PatchReadFails ==
    /\ pc = "patchRead" /\ profile.reread
    /\ Failing \/ (~Exists(state.id) /\ UNCHANGED fails)
    /\ FailChange
    /\ UNCHANGED <<profile, forgot, remembered, obj, want, drifts, edits>>

-----------------------------------------------------------------------------
(* Delete, and the create that follows it in a replacement.                *)

\* The platform takes an object down: at once, or over a while.
Removing(i) ==
    obj' = [obj EXCEPT ![i] = IF profile.gone
                              THEN [@ EXCEPT !.life = "dying"] ELSE Blank]

Deleted ==
    IF want = Absent THEN Return(NoState, Ok)
    ELSE /\ state' = NoState
         /\ pc' = "create"
         /\ UNCHANGED <<id, saved, left, verdict>>

\* Mutant: the answer to the DELETE is taken for the end of it.
DeleteHasty ==
    /\ pc = "delete" /\ Exists(state.id)
    /\ Removing(state.id)
    /\ Deleted
    /\ UNCHANGED <<profile, forgot, remembered, want, fails, drifts, edits>>

Delete ==
    /\ pc = "delete" /\ Exists(state.id)
    /\ Removing(state.id)
    /\ IF profile.gone
         THEN /\ pc' = "deleteWait"
              /\ UNCHANGED <<state, id, saved, left, verdict>>
         ELSE Deleted
    /\ UNCHANGED <<profile, forgot, remembered, want, fails, drifts, edits>>

\* The DELETE is answered 404.
DeleteMissing ==
    /\ pc = "delete" /\ ~Exists(state.id)
    /\ IF profile.absent THEN Deleted ELSE FailChange
    /\ UNCHANGED <<profile, forgot, remembered, obj, want, fails, drifts,
                   edits>>

DeleteDone ==
    /\ pc = "deleteWait" /\ ~Exists(state.id)
    /\ Deleted
    /\ UNCHANGED <<profile, forgot, remembered, obj, want, fails, drifts,
                   edits>>

\* The request or the wait fails, without effect or with.
DeleteFails ==
    /\ pc \in {"delete", "deleteWait"} /\ Failing
    /\ FailChange
    /\ UNCHANGED <<profile, forgot, remembered, obj, want, drifts, edits>>

\* Carried out, and its answer lost: sent again, or given up.
DeleteLost ==
    /\ pc = "delete" /\ Exists(state.id) /\ Failing
    /\ Removing(state.id)
    /\ \/ FailChange
       \/ /\ profile.by.delete = "replayed"
          /\ UNCHANGED <<state, pc, id, saved, left, verdict>>
    /\ UNCHANGED <<profile, forgot, remembered, want, drifts, edits>>

-----------------------------------------------------------------------------
(* The platform, other people and the practitioner.                        *)

PlatformReady(i) ==
    /\ Live(i) /\ obj[i].started /\ ~obj[i].ready
    /\ obj' = [obj EXCEPT ![i].ready = TRUE]
    /\ UNCHANGED <<profile, forgot, remembered, state, want, pc, id, saved,
                   left, verdict, fails, drifts, edits>>

\* The job ends, or fails and leaves the part as it is.
Toggled(i) ==
    /\ profile.later /\ Live(i) /\ obj[i].due
    /\ \/ /\ obj' = [obj EXCEPT ![i].config["extra"] = 1 - @, ![i].due = FALSE]
          /\ UNCHANGED fails
       \/ /\ obj' = [obj EXCEPT ![i].due = FALSE]
          /\ Failing
    /\ verdict' = IF want # Absent /\ obj'[i].config["extra"] = want["extra"]
                  THEN verdict ELSE "none"
    /\ UNCHANGED <<profile, forgot, remembered, state, want, pc, id, saved,
                   left, drifts, edits>>

PlatformGone(i) ==
    /\ obj[i].life = "dying"
    /\ obj' = [obj EXCEPT ![i] = Blank]
    /\ verdict' = IF pc = "deleteWait" THEN verdict ELSE "none"
    /\ UNCHANGED <<profile, forgot, remembered, state, want, pc, id, saved,
                   left, fails, drifts, edits>>

\* A day passes: the answers to keyed creates are forgotten.
KeysExpire ==
    /\ pc = "idle" /\ remembered # [c \in Configs |-> 0]
    /\ remembered' = [c \in Configs |-> 0]
    /\ verdict' = IF verdict = "ok" THEN "none" ELSE verdict
    /\ UNCHANGED <<profile, forgot, obj, state, want, pc, id, saved, left,
                   fails, drifts, edits>>

\* Somebody removes or changes the object.
Drift(i) ==
    /\ i \in Tracked /\ Live(i)
    /\ Room /\ drifts < MaxDrifts /\ drifts' = drifts + 1
    /\ \/ Removing(i)
       \/ \E p \in Parts : obj' = [obj EXCEPT ![i].config[p] = 1 - @,
                                               ![i].due = @ /\ p # "extra"]
    /\ verdict' = "none"
    /\ UNCHANGED <<profile, forgot, remembered, state, want, pc, id, saved,
                   left, fails, edits>>

Edit ==
    /\ pc = "idle" /\ Room /\ edits < MaxEdits
    /\ edits' = edits + 1
    /\ want' \in (Configs \cup {Absent}) \ {want}
    /\ verdict' = "none"
    /\ UNCHANGED <<profile, forgot, remembered, obj, state, pc, id, saved,
                   left, fails, drifts>>

\* An object Terraform does not know, and can use, is imported and read.
Import(i) ==
    /\ pc = "idle" /\ state.id = 0 /\ want # Absent /\ Exists(i) /\ obj[i].ready
    /\ profile.import
    /\ state' = [id |-> i, config |-> Read(i, Default), tainted |-> FALSE,
                  stub |-> FALSE]
    /\ verdict' = "none"
    /\ UNCHANGED <<profile, forgot, remembered, obj, want, pc, id, saved, left,
                   fails, drifts, edits>>

-----------------------------------------------------------------------------
Init ==
    /\ profile \in Profiles
    /\ forgot = FALSE
    /\ remembered = [c \in Configs |-> 0]
    /\ obj = [i \in Ids |-> Blank]
    /\ state = NoState
    /\ want \in Configs
    /\ pc = "idle"
    /\ id = 0
    /\ saved = FALSE
    /\ left = {}
    /\ verdict = "none"
    /\ fails = 0 /\ drifts = 0 /\ edits = 0

Provider ==
    \/ Create \/ Locate \/ Deploy \/ Wait \/ Stage \/ ReadBack \/ Respond
    \/ Patch \/ PatchRead
    \/ Delete \/ DeleteMissing \/ DeleteDone

Failures ==
    \/ CreateFails \/ CreateUnheard \/ CreateDoubted \/ CreateLost
    \/ ReadBackFails
    \/ PatchFails \/ PatchLost \/ PatchReadFails
    \/ DeleteFails \/ DeleteLost

Platform == \E i \in Ids : PlatformReady(i) \/ PlatformGone(i) \/ Toggled(i)

Next ==
    \/ Refresh \/ RefreshRefused \/ RefreshMisses \/ Plan
    \/ Provider \/ Failures
    \/ Platform \/ KeysExpire \/ Edit
    \/ \E i \in Ids : Drift(i) \/ Import(i)

Spec == Init /\ [][Next]_vars

\* Terraform is run again until nothing is left to do; a running apply goes
\* on or gives up; the platform finishes what it started, and days pass.
FairSpec ==
    /\ Spec
    /\ WF_vars(Refresh) /\ WF_vars(Plan)
    /\ WF_vars(Provider \/ Failures)
    /\ WF_vars(Platform) /\ SF_vars(KeysExpire)

-----------------------------------------------------------------------------
(* Properties.                                                             *)

Untracked == {i \in Ids : Live(i)} \ Tracked

\* Terraform loses sight of an object only where the answer to its create is
\* lost, where its id is still looked for, where the read that ends Create
\* failed before the id was saved, or where a list of pages missed it: never by
\* a failed wait or stage, by an update, or by a destroy.
LostOnTheWay ==
    Untracked' \ Untracked # {} =>
       \/ pc = "create" /\ profile.track # "asked"
       \/ pc = "locate"
       \/ pc = "readBack" /\ profile.track # "first"
       \/ pc = "idle" /\ profile.by.pages
NotLost == [][LostOnTheWay]_vars

\* A read shows all there is to the block, or nobody disturbed the parts no
\* read shows.
Plain == ~profile.blind \/ (fails = 0 /\ drifts = 0)

\* A create without a read that must succeed takes a remembered answer for a
\* new object, when that object is gone or the read of it fails.
Revenant ==
    /\ Keyed /\ profile.read = "may" /\ state.id = remembered[want]
    /\ ~Exists(state.id) \/ fails > 0

\* The staged part is turned over by a job that is still under way, and the
\* answer to the request, or the value the job will change, was taken for it.
OnItsWay(i) == profile.later /\ obj[i].due

\* An apply without an error leaves the object as configured, usable, and known
\* as it is to Terraform, but for a remembered answer and, of a part turned over
\* by a job, until that job has ended; a destroy leaves nothing.
OkMeansDone ==
    verdict = "ok" /\ Plain =>
       IF want = Absent
         THEN state = NoState /\ (forgot \/ \A i \in Ids : ~Exists(i))
         ELSE /\ state.config = want /\ ~state.tainted
              /\ \/ Revenant
                 \/ /\ Exists(state.id) /\ obj[state.id].ready
                    /\ \A p \in Parts :
                          \/ obj[state.id].config[p] = want[p]
                          \/ p = "extra" /\ OnItsWay(state.id)

\* Where a name or an address is freed only by the end of the teardown, the
\* replacement is not asked for before.
GoneBeforeNext ==
    pc = "create" /\ profile.gone /\ ~forgot =>
       \A i \in Ids : ~Exists(i)

\* Once failures, drift and edits end, repeated applies settle: the object is
\* as configured and the plan is empty.  Not claimed where a forgotten object may
\* still hold the name, and of a state that has the id only (stub), which no
\* apply and no destroy gets past until it is repaired by hand.
Settled ==
    /\ verdict \in {"ok", "running"}
    /\ IF want = Absent THEN state = NoState
       ELSE /\ state.id # 0 /\ ~state.tainted /\ state.config = want
            /\ Plain => obj[state.id].config = want
Converges == <>[](forgot \/ state.stub \/ Settled)

-----------------------------------------------------------------------------
(* What a comment in the source says, where the code does otherwise.       *)

\* "a partial failure after the group exists still leaves a resource Terraform
\* can clean up on the next apply": past the answer to the create, no step
\* loses sight of an object.
PartialFailureKept == [][pc # "create" => Untracked' \subseteq Untracked]_vars
=============================================================================
