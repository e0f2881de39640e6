----------------------- MODULE ResourceLifecycleProofs -----------------------
(***************************************************************************)
(* For every set of profiles that keeps ProfilesAssumption, and for all    *)
(* bounds: types, when a created object can be forgotten, that a           *)
(* replacement never meets its predecessor (IInv), and what an apply that  *)
(* reports success has done (DoneInv).                                     *)
(***************************************************************************)
EXTENDS ResourceLifecycle, TLAPS

Making == {"locate", "deploy", "wait", "stage", "readBack", "respond"}

\* What a running apply knows of its object at each position.
Phase ==
    /\ pc \in Making \cup {"create"} => want # Absent /\ state.id = 0
    /\ pc \in {"patch", "patchRead"} => want # Absent /\ state.id # 0
    /\ pc \in {"delete", "deleteWait"} => state.id # 0
    /\ pc \in Making => id # 0
    /\ pc \notin Making => id = 0 /\ ~saved

\* Past the search for the id, it is saved at once or can still be saved.
Saving ==
    /\ /\ pc \in Making \ {"locate"}
       /\ profile.track \in {"first", "asked"}
       => saved
    /\ pc \in {"deploy", "wait"} => profile.track = "first"
    /\ pc = "stage" => profile.track \in {"first", "guarded"}
    /\ pc = "locate" => profile.locate
    /\ pc = "readBack" => profile.read # "none"

\* Until one is forgotten, every object is the block's or the running Create's.
Known == ~forgot => \A i \in Ids : Exists(i) => i \in Tracked

IInv == TypeOK /\ Phase /\ Saving /\ Known

\* The data an object or a state is made of.
LEMMA Data ==
    /\ Default \in Configs
    /\ Blank \in Objects
    /\ NoState \in States
    /\ NoState.id = 0
    /\ \A c, d \in Configs :
          [c EXCEPT !["extra"] = d["extra"]] \in Configs
  BY BoundsAssumption
  DEF Default, Configs, Parts, Blank, Objects, NoState, States, Ids

LEMMA ReadTyped ==
  ASSUME obj \in [Ids -> Objects], NEW i \in Ids, NEW c \in Configs
  PROVE  Read(i, c) \in Configs
  <1>1. obj[i].config \in Configs
    BY DEF Objects
  <1> QED BY <1>1 DEF Read, Configs, Parts

LEMMA TrustingTyped ==
  ASSUME want \in Configs, NEW c \in Configs, NEW told
  PROVE  Trusting(c, told) \in Configs
  BY DEF Trusting, Configs

\* What a failed Create leaves in the state.
LEMMA TaintedTyped ==
  ASSUME TypeOK, NEW i \in Ids \cup {0}
  PROVE  /\ Tainted(i) \in States
         /\ Tainted(i).id = i
         /\ i = 0 => Tainted(i) = NoState
  BY Data, ProfilesAssumption DEF TypeOK, Tainted, States

LEMMA InitIInv == Init => IInv
  <1> SUFFICES ASSUME Init PROVE IInv
    OBVIOUS
  <1>1. obj \in [Ids -> Objects]
    BY Data DEF Init
  <1>2. state \in States
    BY Data DEF Init
  <1>3. 0 \in 0..MaxFailures /\ 0 \in 0..MaxDrifts /\ 0 \in 0..MaxEdits
    BY BoundsAssumption
  <1>4. TypeOK
    BY <1>1, <1>2, <1>3 DEF Init, TypeOK, Positions
  <1>5. Phase /\ Saving
    BY DEF Init, Phase, Saving, Making
  <1>6. Known
    BY DEF Init, Known, Exists, Blank
  <1> QED BY <1>4, <1>5, <1>6 DEF IInv

-----------------------------------------------------------------------------
(* What every step has in common.                                          *)

Verdicts == {"none", "running", "ok"}

\* A failed request takes one failure from the bound.
LEMMA Counted ==
  ASSUME TypeOK, Failing \/ UNCHANGED fails
  PROVE  fails' \in 0..MaxFailures
  BY BoundsAssumption DEF TypeOK, Failing

\* A return to Terraform leaves nothing of the apply behind.
LEMMA Returned ==
  ASSUME TypeOK, NEW s \in States, s.id = 0 => s = NoState,
         NEW v \in Verdicts, Return(s, v),
         obj' \in [Ids -> Objects], fails' \in 0..MaxFailures,
         forgot' \in BOOLEAN, remembered' = remembered,
         UNCHANGED <<profile, want, drifts, edits>>
  PROVE  TypeOK' /\ Phase' /\ Saving'
  <1>1. TypeOK'
    BY DEF TypeOK, Return, States, Verdicts, Positions
  <1>2. Phase' /\ Saving'
    BY DEF Phase, Saving, Making, Return
  <1> QED BY <1>1, <1>2

\* Nothing is lost by a step that makes nothing unknown and lets go of nothing.
LEMMA Keeps ==
  ASSUME \A i \in Ids : Live(i)' => Live(i) \/ i \in Tracked',
         \A i \in Ids : i \in Tracked /\ Live(i)' => i \in Tracked'
  PROVE  LostOnTheWay
  BY DEF LostOnTheWay, Untracked

LEMMA KeepsKnown ==
  ASSUME Known, forgot' = forgot,
         \A i \in Ids : Exists(i)' => Exists(i) \/ i \in Tracked',
         \A i \in Ids : i \in Tracked /\ Exists(i)' => i \in Tracked'
  PROVE  Known'
  BY DEF Known

\* The same, for a step that changes what exists only by removals.
LEMMA Holding ==
  ASSUME Known, forgot' = forgot,
         obj \in [Ids -> Objects], obj' \in [Ids -> Objects],
         \A i \in Ids : \/ obj'[i].life = obj[i].life
                        \/ i \in Tracked'
                        \/ obj'[i].life = "none"
                        \/ obj'[i].life = "dying" /\ obj[i].life = "live",
         \A i \in Ids : i \in Tracked => i \in Tracked' \/ obj'[i].life = "none"
  PROVE  Known' /\ LostOnTheWay
  <1>1. \A i \in Ids : Live(i)' => Live(i) \/ i \in Tracked'
    BY DEF Live
  <1>2. \A i \in Ids : i \in Tracked /\ Live(i)' => i \in Tracked'
    BY DEF Live
  <1>3. \A i \in Ids : Exists(i)' => Exists(i) \/ i \in Tracked'
    BY DEF Exists
  <1>4. \A i \in Ids : i \in Tracked /\ Exists(i)' => i \in Tracked'
    BY DEF Exists
  <1> QED BY <1>1, <1>2, <1>3, <1>4, Keeps, KeepsKnown

-----------------------------------------------------------------------------
(* One lemma per action.                                                   *)

LEMMA RefreshStep == IInv /\ Refresh => IInv' /\ LostOnTheWay
  <1> SUFFICES ASSUME IInv, Refresh PROVE IInv' /\ LostOnTheWay
    OBVIOUS
  <1> USE DEF IInv
  <1>1. CASE state.id = 0 \/ ~Exists(state.id)
    <2>1. state' = NoState /\ UNCHANGED <<obj, id>>
      BY <1>1 DEF Refresh
    <2>2. TypeOK'
      BY <2>1, Data DEF Refresh, TypeOK, Positions
    <2>3. Phase' /\ Saving'
      BY DEF Refresh, Phase, Saving, Making
    <2>4. \A i \in Ids :
             i \in Tracked => i \in Tracked' \/ obj'[i].life = "none"
      BY <2>1, <1>1 DEF Tracked, Exists, TypeOK, Ids
    <2> QED BY <2>1, <2>2, <2>3, <2>4, Holding DEF Refresh, TypeOK
  <1>2. CASE state.id # 0 /\ Exists(state.id)
    <2>1. /\ state' = [state EXCEPT !.config = Read(state.id, state.config)]
          /\ UNCHANGED <<obj, id>>
      BY <1>2 DEF Refresh
    <2>2. state.id \in Ids /\ state.config \in Configs
      BY <1>2 DEF TypeOK, States
    <2>3. Read(state.id, state.config) \in Configs
      BY <2>2, ReadTyped DEF TypeOK
    <2>4. state' \in States /\ state'.id = state.id
      BY <2>1, <2>3 DEF TypeOK, States
    <2>5. TypeOK'
      BY <2>4, <1>2 DEF Refresh, TypeOK, Positions
    <2>6. Phase' /\ Saving'
      BY DEF Refresh, Phase, Saving, Making
    <2>7. Tracked' = Tracked
      BY <2>1, <2>4 DEF Tracked
    <2> QED BY <2>1, <2>5, <2>6, <2>7, Holding DEF Refresh, TypeOK
  <1> QED BY <1>1, <1>2

LEMMA RefreshRefusedStep == IInv /\ RefreshRefused => IInv' /\ LostOnTheWay
  <1> SUFFICES ASSUME IInv, RefreshRefused PROVE IInv' /\ LostOnTheWay
    OBVIOUS
  <1> USE DEF IInv
  <1>1. TypeOK'
    BY DEF RefreshRefused, TypeOK
  <1>2. Phase' /\ Saving'
    BY DEF RefreshRefused, Phase, Saving, Making
  <1>3. Tracked' = Tracked
    BY DEF RefreshRefused, Tracked
  <1> QED BY <1>1, <1>2, <1>3, Holding DEF RefreshRefused, TypeOK

\* A list of pages that misses the object makes Terraform forget it.
LEMMA RefreshMissesStep == IInv /\ RefreshMisses => IInv' /\ LostOnTheWay
  <1> SUFFICES ASSUME IInv, RefreshMisses PROVE IInv' /\ LostOnTheWay
    OBVIOUS
  <1> USE DEF IInv
  <1>1. drifts' \in 0..MaxDrifts
    BY BoundsAssumption DEF RefreshMisses, TypeOK
  <1>2. TypeOK'
    BY <1>1, Data DEF RefreshMisses, TypeOK, Positions
  <1>3. Phase' /\ Saving'
    BY DEF RefreshMisses, Phase, Saving, Making
  <1>4. forgot' /\ LostOnTheWay
    BY DEF RefreshMisses, LostOnTheWay
  <1> QED BY <1>2, <1>3, <1>4 DEF Known

LEMMA PlanStep == IInv /\ Plan => IInv' /\ LostOnTheWay
  <1> SUFFICES ASSUME IInv, Plan PROVE IInv' /\ LostOnTheWay
    OBVIOUS
  <1> USE DEF IInv
  <1>1. id = 0 /\ ~saved
    BY DEF Plan, Phase, Making
  <1>2. UNCHANGED <<obj, state, profile, forgot, id>>
    BY <1>1 DEF Plan, Return
  <1>3. Changed \subseteq Parts
    BY DEF Changed
  <1>4. TypeOK'
    BY <1>1, <1>3 DEF Plan, TypeOK, Positions, Return, Ok
  <1>5. Phase' /\ Saving'
    BY <1>1 DEF Plan, Phase, Saving, Making, Return
  <1>6. Tracked' = Tracked
    BY <1>2 DEF Tracked
  <1> QED BY <1>2, <1>4, <1>5, <1>6, Holding DEF TypeOK

\* The step after p keeps what Saving says, once the id is saved as it says.
LEMMA Afters ==
  ASSUME profile \in Profiles
  PROVE  /\ AfterStage \in {"readBack", "respond"}
         /\ AfterStage = "readBack" => profile.read # "none"
         /\ AfterWait \in {"stage", AfterStage}
         /\ AfterWait = "stage" => profile.track \in {"first", "guarded"}
         /\ AfterDeploy \in {"wait", AfterWait}
         /\ AfterDeploy = "wait" => profile.track = "first"
         /\ AfterLocate \in {"deploy", AfterDeploy}
         /\ AfterLocate = "deploy" => profile.track = "first"
         /\ AfterCreate \in {"locate", AfterLocate}
         /\ AfterCreate = "locate" <=> profile.locate
  BY ProfilesAssumption
  DEF AfterStage, AfterWait, AfterDeploy, AfterLocate, AfterCreate

\* What the platform does with a create: it makes or finds object i.
LEMMA Carried ==
  ASSUME TypeOK, want \in Configs, NEW i \in Ids, CarriedOut(i)
  PROVE  /\ obj' \in [Ids -> Objects]
         /\ \A k \in Ids \ {i} : obj'[k] = obj[k]
         /\ remembered' \in [Configs -> Ids \cup {0}]
  <1>1. CASE UNCHANGED <<obj, remembered>>
    BY <1>1 DEF TypeOK
  <1>2. CASE ~(Keyed /\ remembered[Body] # 0) /\ Target(i)
    <2> DEFINE new == [life |-> "live", ready |-> ~profile.wait,
                       started |-> ~profile.deploy, config |-> Body,
                       due |-> FALSE]
    <2>1. Body \in Configs
      BY Data DEF Body
    <2>2. \/ UNCHANGED <<obj, remembered>>
          \/ /\ obj' = [obj EXCEPT ![i] = new]
             /\ remembered' = IF Keyed THEN [remembered EXCEPT ![Body] = i]
                              ELSE remembered
      BY DEF CarriedOut
    <2>3. new \in Objects
      BY <2>1 DEF Objects
    <2> HIDE DEF new
    <2>4. [remembered EXCEPT ![Body] = i] \in [Configs -> Ids \cup {0}]
      BY <2>1 DEF TypeOK
    <2>5. [obj EXCEPT ![i] = new] \in [Ids -> Objects]
      BY <2>3 DEF TypeOK
    <2>6. \A k \in Ids \ {i} : [obj EXCEPT ![i] = new][k] = obj[k]
      BY DEF TypeOK
    <2> QED BY <1>1, <2>2, <2>4, <2>5, <2>6 DEF TypeOK
  <1> QED BY <1>1, <1>2 DEF CarriedOut

LEMMA CreateStep == IInv /\ Create => IInv' /\ LostOnTheWay
  <1> SUFFICES ASSUME IInv, Create PROVE IInv' /\ LostOnTheWay
    OBVIOUS
  <1> USE DEF IInv
  <1>1. PICK i \in Ids : CarriedOut(i) /\ id' = i
    BY DEF Create
  <1>2. want \in Configs /\ want # Absent /\ state.id = 0 /\ id = 0
    BY DEF Create, Phase, TypeOK, Making
  <1>3. /\ obj' \in [Ids -> Objects]
        /\ \A k \in Ids \ {i} : obj'[k] = obj[k]
        /\ remembered' \in [Configs -> Ids \cup {0}]
    BY <1>1, <1>2, Carried
  <1>4. /\ pc' = AfterCreate
        /\ saved' = (SavesAtOnce /\ ~profile.locate)
        /\ UNCHANGED <<profile, forgot, state, want, left, verdict, fails,
                       drifts, edits>>
    BY DEF Create
  <1>5. pc' \in Making
    BY <1>4, Afters DEF TypeOK, Making
  <1>6. saved' \in BOOLEAN
    BY <1>4 DEF SavesAtOnce
  <1>7. TypeOK'
    BY <1>1, <1>3, <1>4, <1>5, <1>6 DEF TypeOK, Positions, Making
  <1>8. Phase'
    BY <1>1, <1>2, <1>4, <1>5 DEF Phase, Ids, Making
  <1>9. Saving'
    BY <1>4, <1>5, Afters DEF Saving, Making, TypeOK, SavesAtOnce
  <1>10. \A k \in Ids : k \notin Tracked
    BY <1>2 DEF Tracked, Ids
  <1>11. \A k \in Ids : obj'[k].life = obj[k].life \/ k \in Tracked'
    BY <1>1, <1>3 DEF Tracked
  <1> QED BY <1>3, <1>4, <1>7, <1>8, <1>9, <1>10, <1>11, Holding DEF TypeOK

\* The answer to a create is lost: what it made is forgotten, or recorded.
LEMMA CreateUnheardStep == IInv /\ CreateUnheard => IInv' /\ LostOnTheWay
  <1> SUFFICES ASSUME IInv, CreateUnheard PROVE IInv' /\ LostOnTheWay
    OBVIOUS
  <1> USE DEF IInv
  <1> DEFINE asked == profile.track = "asked"
             kept(i) == IF asked THEN i ELSE 0
  <1>1. PICK i \in Ids :
          /\ CarriedOut(i)
          /\ \/ /\ profile.by.create # "once"
                /\ UNCHANGED <<state, pc, id, saved, left, verdict>>
             \/ Return(Tainted(kept(i)), "none")
    BY DEF CreateUnheard
  <1>2. /\ pc = "create" /\ Failing /\ forgot' = (forgot \/ ~asked)
        /\ UNCHANGED <<profile, want, drifts, edits>>
    BY DEF CreateUnheard
  <1>3. want \in Configs /\ state.id = 0 /\ id = 0
    BY <1>2 DEF Phase, TypeOK, Making
  <1>4. /\ obj' \in [Ids -> Objects]
        /\ \A k \in Ids \ {i} : obj'[k] = obj[k]
        /\ remembered' \in [Configs -> Ids \cup {0}]
    BY <1>1, <1>3, Carried
  <1>5. fails' \in 0..MaxFailures /\ forgot' \in BOOLEAN
    BY <1>2, Counted DEF TypeOK
  <1>6. kept(i) \in Ids \cup {0}
    OBVIOUS
  <1>7. asked => profile.by.create = "once"
    BY ProfilesAssumption DEF TypeOK
  <1> HIDE DEF kept
  <1>8. TypeOK' /\ Phase' /\ Saving'
    <2>1. CASE UNCHANGED <<state, pc, id, saved, left, verdict>>
      <3>1. TypeOK'
        BY <1>2, <1>4, <1>5, <2>1 DEF TypeOK
      <3>2. Phase' /\ Saving'
        BY <1>2, <2>1 DEF Phase, Saving, Making
      <3> QED BY <3>1, <3>2
    <2>2. CASE Return(Tainted(kept(i)), "none")
      <3>1. /\ Tainted(kept(i)) \in States
            /\ Tainted(kept(i)).id = 0 => Tainted(kept(i)) = NoState
        BY <1>6, TaintedTyped, Data
      <3>2. TypeOK'
        BY <1>2, <1>4, <1>5, <2>2, <3>1 DEF TypeOK, Return, Positions
      <3>3. Phase' /\ Saving'
        BY <2>2 DEF Phase, Saving, Making, Return
      <3> QED BY <3>2, <3>3
    <2> QED BY <1>1, <2>1, <2>2
  <1>9. CASE ~asked
    <2>1. forgot' /\ LostOnTheWay
      BY <1>2, <1>9 DEF LostOnTheWay
    <2> QED BY <1>8, <2>1 DEF Known
  <1>10. CASE asked
    <2>1. Return(Tainted(kept(i)), "none") /\ forgot' = forgot
      BY <1>1, <1>2, <1>7, <1>10 DEF TypeOK
    <2>2. kept(i) = i
      BY <1>10 DEF kept
    <2>3. state'.id = i
      BY <2>1, <2>2 DEF Return, Tainted, Ids
    <2>4. \A k \in Ids : k \notin Tracked
      BY <1>3 DEF Tracked, Ids
    <2>5. \A k \in Ids : obj'[k].life = obj[k].life \/ k \in Tracked'
      BY <1>4, <2>3 DEF Tracked
    <2> QED BY <1>4, <1>8, <2>1, <2>4, <2>5, Holding DEF TypeOK
  <1> QED BY <1>9, <1>10

LEMMA CreateDoubtedStep == IInv /\ CreateDoubted => IInv' /\ LostOnTheWay
  <1> SUFFICES ASSUME IInv, CreateDoubted PROVE IInv' /\ LostOnTheWay
    OBVIOUS
  <1> USE DEF IInv
  <1>1. PICK i \in Ids : Return(Tainted(i), "none")
    BY DEF CreateDoubted, Free
  <1>i. i \in Ids \cup {0}
    OBVIOUS
  <1>2. /\ pc = "create" /\ Failing
        /\ UNCHANGED <<profile, forgot, remembered, obj, want, drifts, edits>>
    BY DEF CreateDoubted
  <1>3. fails' \in 0..MaxFailures
    BY <1>2, Counted
  <1>4. Tainted(i) \in States /\ (Tainted(i).id = 0 => Tainted(i) = NoState)
    BY <1>i, TaintedTyped
  <1>5. TypeOK' /\ Phase' /\ Saving'
    BY <1>1, <1>2, <1>3, <1>4, Returned DEF Verdicts, TypeOK
  <1>6. state.id = 0 /\ id = 0
    BY <1>2 DEF Phase, Making
  <1>7. \A k \in Ids : k \notin Tracked
    BY <1>6 DEF Tracked, Ids
  <1> QED BY <1>2, <1>5, <1>7, Holding DEF TypeOK

\* What the steps of Create that only go on have in common.
LEMMA GoingOn ==
  ASSUME IInv, NEW p \in {AfterLocate, AfterDeploy, AfterWait, AfterStage},
         GoOn(p), pc \in Making, obj' \in [Ids -> Objects],
         \A i \in Ids : obj'[i].life = obj[i].life,
         saved' \in BOOLEAN, profile.track \in {"first", "asked"} => saved',
         UNCHANGED <<profile, forgot, remembered, want, fails, drifts, edits>>
  PROVE  IInv' /\ LostOnTheWay
  <1> USE DEF IInv
  <1>1. pc' \in Making \ {"locate"}
    BY Afters DEF GoOn, Making, TypeOK
  <1>2. TypeOK'
    BY <1>1 DEF GoOn, TypeOK, Positions, Making
  <1>3. Phase'
    BY <1>1 DEF GoOn, Phase, Making
  <1>4. Saving'
    BY <1>1, Afters DEF GoOn, Saving, Making, TypeOK
  <1>5. Tracked' = Tracked
    BY DEF GoOn, Tracked
  <1> QED BY <1>2, <1>3, <1>4, <1>5, Holding DEF TypeOK

LEMMA LocateStep == IInv /\ Locate => IInv' /\ LostOnTheWay
  <1> SUFFICES ASSUME IInv, Locate PROVE IInv' /\ LostOnTheWay
    OBVIOUS
  <1>1. GoOn(AfterLocate) /\ pc \in Making
    BY DEF Locate, Making
  <1>2. UNCHANGED <<obj, profile, forgot, remembered, want, fails, drifts,
                    edits>>
    BY DEF Locate
  <1>3. saved' = (profile.track \in {"first", "asked"})
    BY DEF Locate, SavesAtOnce
  <1>4. saved' \in BOOLEAN
    BY <1>3
  <1>5. profile.track \in {"first", "asked"} => saved'
    BY <1>3
  <1> QED BY <1>1, <1>2, <1>4, <1>5, GoingOn DEF IInv, TypeOK

LEMMA DeployStep == IInv /\ Deploy => IInv' /\ LostOnTheWay
  <1> SUFFICES ASSUME IInv, Deploy PROVE IInv' /\ LostOnTheWay
    OBVIOUS
  <1>1. GoOn(AfterDeploy) /\ pc \in Making
    BY DEF Deploy, Making
  <1>2. /\ saved' \in BOOLEAN
        /\ profile.track \in {"first", "asked"} => saved'
        /\ UNCHANGED <<profile, forgot, remembered, want, fails, drifts, edits>>
    BY DEF Deploy, IInv, Saving, TypeOK, Making
  <1>3. obj' = [obj EXCEPT ![id].started = TRUE]
    BY DEF Deploy
  <1>4. /\ obj' \in [Ids -> Objects]
        /\ \A i \in Ids : obj'[i].life = obj[i].life
    BY <1>3 DEF IInv, TypeOK, Objects
  <1> QED BY <1>1, <1>2, <1>4, GoingOn

LEMMA WaitStep == IInv /\ Wait => IInv' /\ LostOnTheWay
  <1> SUFFICES ASSUME IInv, Wait PROVE IInv' /\ LostOnTheWay
    OBVIOUS
  <1>1. GoOn(AfterWait) /\ pc \in Making
    BY DEF Wait, Making
  <1>2. /\ saved' \in BOOLEAN
        /\ profile.track \in {"first", "asked"} => saved'
        /\ UNCHANGED <<obj, profile, forgot, remembered, want, fails, drifts,
                       edits>>
    BY DEF Wait, IInv, Saving, TypeOK, Making
  <1> QED BY <1>1, <1>2, GoingOn DEF IInv, TypeOK

\* What a request for some parts does to the objects.
LEMMA ChangingTyped ==
  ASSUME TypeOK, want \in Configs, NEW i \in Ids, NEW ps, Changing(i, ps)
  PROVE  /\ obj' \in [Ids -> Objects]
         /\ \A k \in Ids : obj'[k].life = obj[k].life
  <1>1. obj[i] \in Objects
    BY DEF TypeOK
  <1>2. PICK c : c = [p \in Parts |->
                        IF p \in ps /\ ~(p = "extra" /\ profile.later)
                          THEN want[p] ELSE obj[i].config[p]]
    OBVIOUS
  <1>3. PICK d : d = IF profile.later /\ "extra" \in ps
                       THEN obj[i].config["extra"] # want["extra"]
                     ELSE obj[i].due
    OBVIOUS
  <1>4. c \in Configs /\ d \in BOOLEAN
    BY <1>1, <1>2, <1>3 DEF Objects, Configs
  <1>5. obj' = [obj EXCEPT ![i] = [obj[i] EXCEPT !.config = c, !.due = d]]
    BY <1>2, <1>3 DEF Changing, Told
  <1>6. /\ [obj[i] EXCEPT !.config = c, !.due = d] \in Objects
        /\ [obj[i] EXCEPT !.config = c, !.due = d].life = obj[i].life
    BY <1>1, <1>4 DEF Objects
  <1> QED BY <1>5, <1>6 DEF TypeOK

LEMMA StageStep == IInv /\ Stage => IInv' /\ LostOnTheWay
  <1> SUFFICES ASSUME IInv, Stage PROVE IInv' /\ LostOnTheWay
    OBVIOUS
  <1>1. GoOn(AfterStage) /\ pc \in Making
    BY DEF Stage, Making
  <1>2. /\ saved' \in BOOLEAN
        /\ profile.track \in {"first", "asked"} => saved'
        /\ UNCHANGED <<profile, forgot, remembered, want, fails, drifts, edits>>
    BY DEF Stage, IInv, Saving, TypeOK, Making
  <1>3. want \in Configs /\ id \in Ids
    BY <1>1 DEF IInv, Phase, TypeOK, Stage
  <1>4. /\ obj' \in [Ids -> Objects]
        /\ \A i \in Ids : obj'[i].life = obj[i].life
    BY <1>3, ChangingTyped DEF Stage, IInv
  <1> QED BY <1>1, <1>2, <1>4, GoingOn

\* A Create that ends well hands its object over to the state.
LEMMA HandedOver ==
  ASSUME IInv, pc \in Making, NEW c \in Configs, HandOver(c),
         UNCHANGED <<profile, forgot, remembered, obj, want, fails, drifts,
                     edits>>
  PROVE  IInv' /\ LostOnTheWay
  <1> USE DEF IInv
  <1>1. id \in Ids /\ id # 0 /\ state.id = 0
    BY DEF Phase, TypeOK
  <1> DEFINE s == [id |-> id, config |-> c, tainted |-> c # want,
                   stub |-> FALSE]
             v == IF c = want THEN Ok ELSE "none"
  <1>2. s \in States /\ s.id = id
    BY <1>1 DEF States
  <1>3. v \in Verdicts
    BY DEF TypeOK, Ok, Verdicts
  <1>r. Return(s, v)
    BY DEF HandOver
  <1> HIDE DEF s, v
  <1>4. TypeOK' /\ Phase' /\ Saving'
    BY <1>1, <1>2, <1>3, <1>r, Returned DEF TypeOK
  <1>5. Tracked' = {id, 0} /\ Tracked = {0, id}
    BY <1>1, <1>2, <1>r DEF Return, Tracked
  <1> QED BY <1>4, <1>5, Holding DEF TypeOK

LEMMA ReadBackStep == IInv /\ ReadBack => IInv' /\ LostOnTheWay
  <1> SUFFICES ASSUME IInv, ReadBack PROVE IInv' /\ LostOnTheWay
    OBVIOUS
  <1>1. pc \in Making /\ want \in Configs /\ id \in Ids
    BY DEF ReadBack, IInv, Phase, TypeOK, Making
  <1>2. Read(id, want) \in Configs
    BY <1>1, ReadTyped DEF IInv, TypeOK
  <1>3. Trusting(Read(id, want), TRUE) \in Configs
    BY <1>1, <1>2, TrustingTyped
  <1> QED BY <1>1, <1>3, HandedOver DEF ReadBack

LEMMA RespondStep == IInv /\ Respond => IInv' /\ LostOnTheWay
  <1> SUFFICES ASSUME IInv, Respond PROVE IInv' /\ LostOnTheWay
    OBVIOUS
  <1>1. pc \in Making /\ want \in Configs
    BY DEF Respond, IInv, Phase, TypeOK, Making
  <1> QED BY <1>1, HandedOver DEF Respond

\* A Create that fails keeps its object, or has forgotten it.
LEMMA FailedCreate ==
  ASSUME IInv, FailCreate,
         pc \in {"create", "locate", "deploy", "wait", "stage", "readBack"},
         obj' \in [Ids -> Objects],
         \A i \in Ids : obj'[i].life = obj[i].life,
         fails' \in 0..MaxFailures,
         UNCHANGED <<profile, remembered, want, drifts, edits>>
  PROVE  IInv' /\ LostOnTheWay
  <1> USE DEF IInv
  <1>1. Kept \in Ids \cup {0}
    BY DEF Kept, TypeOK
  <1>2. /\ Tainted(Kept) \in States
        /\ Tainted(Kept).id = 0 => Tainted(Kept) = NoState
    BY <1>1, TaintedTyped
  <1>3. Return(Tainted(Kept), "none") /\ forgot' = (forgot \/ id # Kept)
    BY DEF FailCreate
  <1>4. TypeOK' /\ Phase' /\ Saving'
    <2>1. forgot' \in BOOLEAN
      BY <1>3 DEF TypeOK
    <2> QED BY <1>2, <1>3, <2>1, Returned DEF Verdicts
  <1>5. state'.id = Kept /\ id' = 0 /\ state.id = 0
    BY <1>1, <1>3, TaintedTyped DEF Return, Phase, Making
  <1>6. Tracked' = {Kept, 0} /\ Tracked = {0, id}
    BY <1>5 DEF Tracked
  <1>7. CASE Kept = id
    BY <1>3, <1>4, <1>6, <1>7, Holding DEF TypeOK
  <1>8. CASE Kept # id
    <2>1. forgot'
      BY <1>3, <1>8
    <2>2. pc # "create"
      BY <1>8 DEF Kept, Phase, Making
    <2>3. pc \notin {"deploy", "wait", "stage"}
      BY <1>8 DEF Kept, Saving, Making
    <2>4. pc = "readBack" => profile.track # "first"
      BY <1>8 DEF Kept, Saving, Making
    <2>5. LostOnTheWay
      BY <2>2, <2>3, <2>4 DEF LostOnTheWay
    <2> QED BY <1>4, <2>1, <2>5 DEF Known
  <1> QED BY <1>7, <1>8

LEMMA CreateFailsStep == IInv /\ CreateFails => IInv' /\ LostOnTheWay
  <1> SUFFICES ASSUME IInv, CreateFails PROVE IInv' /\ LostOnTheWay
    OBVIOUS
  <1>1. /\ FailCreate
        /\ UNCHANGED <<profile, remembered, obj, want, drifts, edits>>
        /\ pc \in {"create", "locate", "deploy", "wait", "stage"}
    BY DEF CreateFails
  <1>2. Failing \/ UNCHANGED fails
    BY DEF CreateFails
  <1>3. fails' \in 0..MaxFailures
    BY <1>2, Counted DEF IInv
  <1> QED BY <1>1, <1>3, FailedCreate DEF IInv, TypeOK

LEMMA CreateLostStep == IInv /\ CreateLost => IInv' /\ LostOnTheWay
  <1> SUFFICES ASSUME IInv, CreateLost PROVE IInv' /\ LostOnTheWay
    OBVIOUS
  <1>1. /\ FailCreate /\ Failing
        /\ UNCHANGED <<profile, remembered, want, drifts, edits>>
        /\ pc \in {"deploy", "stage"}
    BY DEF CreateLost
  <1>2. fails' \in 0..MaxFailures
    BY <1>1, Counted DEF IInv
  <1>3. want \in Configs /\ id \in Ids
    BY <1>1 DEF IInv, Phase, TypeOK, Making
  <1>4. /\ obj' \in [Ids -> Objects]
        /\ \A i \in Ids : obj'[i].life = obj[i].life
    <2>1. CASE pc = "deploy"
      <3>1. obj' = [obj EXCEPT ![id].started = TRUE]
        BY <2>1 DEF CreateLost
      <3> QED BY <3>1 DEF IInv, TypeOK, Objects
    <2>2. CASE pc = "stage"
      BY <1>3, <2>2, ChangingTyped DEF CreateLost, IInv
    <2> QED BY <1>1, <2>1, <2>2
  <1> QED BY <1>1, <1>2, <1>4, FailedCreate

LEMMA ReadBackFailsStep == IInv /\ ReadBackFails => IInv' /\ LostOnTheWay
  <1> SUFFICES ASSUME IInv, ReadBackFails PROVE IInv' /\ LostOnTheWay
    OBVIOUS
  <1>1. Failing \/ UNCHANGED fails
    BY DEF ReadBackFails
  <1>2. fails' \in 0..MaxFailures
    BY <1>1, Counted DEF IInv
  <1>3. CASE profile.read = "must"
    BY <1>2, <1>3, FailedCreate DEF ReadBackFails, IInv, TypeOK
  <1>4. CASE profile.read # "must"
    <2>1. /\ pc = "readBack" /\ pc' = "respond"
          /\ UNCHANGED <<state, id, saved, left, verdict, profile, forgot,
                         remembered, obj, want, drifts, edits>>
      BY <1>4 DEF ReadBackFails
    <2>2. TypeOK'
      BY <1>2, <2>1 DEF IInv, TypeOK, Positions
    <2>3. Phase' /\ Saving'
      BY <2>1 DEF IInv, Phase, Saving, Making
    <2>4. Tracked' = Tracked
      BY <2>1 DEF Tracked
    <2> QED BY <2>1, <2>2, <2>3, <2>4, Holding DEF IInv, TypeOK
  <1> QED BY <1>3, <1>4

\* A failed Update or Delete keeps the prior state.
LEMMA FailedChange ==
  ASSUME IInv, FailChange,
         pc \in {"patch", "patchRead", "delete", "deleteWait"},
         obj' \in [Ids -> Objects],
         \A i \in Ids : \/ obj'[i].life = obj[i].life
                        \/ obj'[i].life = "none"
                        \/ obj'[i].life = "dying" /\ obj[i].life = "live"
                        \/ i \in Tracked,
         Failing \/ UNCHANGED fails,
         UNCHANGED <<profile, forgot, remembered, want, drifts, edits>>
  PROVE  IInv' /\ LostOnTheWay
  <1> USE DEF IInv
  <1>1. fails' \in 0..MaxFailures
    BY Counted
  <1>2. state \in States /\ (state.id = 0 => state = NoState)
    BY DEF TypeOK, States
  <1>f. forgot' \in BOOLEAN /\ "none" \in Verdicts
    BY DEF TypeOK, Verdicts
  <1>3. TypeOK' /\ Phase' /\ Saving'
    BY <1>1, <1>2, <1>f, Returned DEF FailChange
  <1>4. id = 0 /\ id' = 0 /\ state' = state
    BY DEF FailChange, Return, Phase, Making
  <1>5. Tracked' = Tracked
    BY <1>4 DEF Tracked
  <1> QED BY <1>3, <1>5, Holding DEF TypeOK

LEMMA PatchStep == IInv /\ Patch => IInv' /\ LostOnTheWay
  <1> SUFFICES ASSUME IInv, Patch PROVE IInv' /\ LostOnTheWay
    OBVIOUS
  <1> USE DEF IInv
  <1>1. PICK ps \in Batches : Changing(state.id, ps) /\ left' = left \ ps
    BY DEF Patch
  <1>2. want \in Configs /\ state.id \in Ids
    BY DEF Patch, Phase, TypeOK, States
  <1>3. /\ obj' \in [Ids -> Objects]
        /\ \A k \in Ids : obj'[k].life = obj[k].life
    BY <1>1, <1>2, ChangingTyped
  <1>4. pc' \in {"patch", "patchRead"}
    BY DEF Patch
  <1>5. TypeOK'
    BY <1>1, <1>3, <1>4 DEF Patch, TypeOK, Positions
  <1>6. Phase' /\ Saving'
    BY <1>4 DEF Patch, Phase, Saving, Making
  <1>7. Tracked' = Tracked
    BY DEF Patch, Tracked
  <1> QED BY <1>3, <1>5, <1>6, <1>7, Holding DEF Patch, TypeOK

\* A failed sequence records what went through, of the same object.
LEMMA FailedPatch ==
  ASSUME IInv, FailPatch, pc = "patch",
         obj' \in [Ids -> Objects],
         \A k \in Ids : obj'[k].life = obj[k].life,
         Failing \/ UNCHANGED fails,
         UNCHANGED <<profile, forgot, remembered, want, drifts, edits>>
  PROVE  IInv' /\ LostOnTheWay
  <1> USE DEF IInv
  <1> DEFINE c == [p \in Parts |-> IF p \in Recorded THEN want[p]
                                   ELSE state.config[p]]
             s == [state EXCEPT !.config = c]
  <1>1. fails' \in 0..MaxFailures
    BY Counted
  <1>2. want \in Configs /\ state.id # 0 /\ id = 0
    BY DEF Phase, TypeOK, Making
  <1>3. c \in Configs
    BY <1>2 DEF TypeOK, States, Configs
  <1>4. Return(s, "none")
    BY DEF FailPatch
  <1> HIDE DEF c
  <1>5. s \in States /\ s.id = state.id
    BY <1>3 DEF TypeOK, States
  <1> HIDE DEF s
  <1>f. forgot \in BOOLEAN /\ forgot' = forgot
    BY DEF TypeOK
  <1>6. TypeOK' /\ Phase' /\ Saving'
    <2>1. s.id = 0 => s = NoState
      BY <1>2, <1>5
    <2>2. forgot' \in BOOLEAN /\ "none" \in Verdicts
      BY <1>f DEF Verdicts
    <2> QED BY <1>1, <1>4, <1>5, <2>1, <2>2, Returned
  <1>7. Tracked' = Tracked
    BY <1>2, <1>4, <1>5 DEF Return, Tracked
  <1> QED BY <1>6, <1>7, Holding DEF TypeOK

LEMMA PatchFailsStep == IInv /\ PatchFails => IInv' /\ LostOnTheWay
  BY FailedPatch DEF PatchFails, IInv, TypeOK

\* A request carried out and sent again changes only the objects.
LEMMA Resent ==
  ASSUME IInv, pc \in {"patch", "delete"}, obj' \in [Ids -> Objects],
         \A k \in Ids : obj'[k].life = obj[k].life \/ k \in Tracked, Failing,
         UNCHANGED <<profile, forgot, remembered, state, pc, id, saved, left,
                     verdict, want, drifts, edits>>
  PROVE  IInv' /\ LostOnTheWay
  <1> USE DEF IInv
  <1>1. fails' \in 0..MaxFailures
    BY Counted
  <1>2. TypeOK'
    BY <1>1 DEF TypeOK
  <1>3. Phase' /\ Saving'
    BY DEF Phase, Saving, Making
  <1>4. Tracked' = Tracked
    BY DEF Tracked
  <1> QED BY <1>2, <1>3, <1>4, Holding DEF TypeOK

LEMMA PatchLostStep == IInv /\ PatchLost => IInv' /\ LostOnTheWay
  <1> SUFFICES ASSUME IInv, PatchLost PROVE IInv' /\ LostOnTheWay
    OBVIOUS
  <1>1. PICK ps \in Batches : Changing(state.id, ps)
    BY DEF PatchLost
  <1>2. want \in Configs /\ state.id \in Ids
    BY DEF PatchLost, IInv, Phase, TypeOK, States
  <1>3. /\ obj' \in [Ids -> Objects]
        /\ \A k \in Ids : obj'[k].life = obj[k].life
    BY <1>1, <1>2, ChangingTyped DEF IInv
  <1>4. CASE FailPatch
    BY <1>3, <1>4, FailedPatch DEF PatchLost
  <1>5. CASE UNCHANGED <<state, pc, id, saved, left, verdict>>
    BY <1>3, <1>5, Resent DEF PatchLost
  <1> QED BY <1>4, <1>5 DEF PatchLost

LEMMA PatchReadStep == IInv /\ PatchRead => IInv' /\ LostOnTheWay
  <1> SUFFICES ASSUME IInv, PatchRead PROVE IInv' /\ LostOnTheWay
    OBVIOUS
  <1> USE DEF IInv
  <1> DEFINE c == IF profile.reread
                    THEN Trusting(Read(state.id, want), "extra" \in Changed)
                  ELSE want
             s == [state EXCEPT !.config = c]
             v == IF c = want THEN Ok ELSE "none"
  <1>1. want \in Configs /\ state.id \in Ids /\ state.id # 0
    BY DEF PatchRead, Phase, TypeOK, States
  <1>2. c \in Configs
    BY <1>1, ReadTyped, TrustingTyped DEF TypeOK
  <1>3. Return(s, v)
    BY DEF PatchRead
  <1> HIDE DEF c
  <1>4. s \in States /\ s.id = state.id
    BY <1>2 DEF TypeOK, States
  <1>5. v \in Verdicts
    BY DEF TypeOK, Ok, Verdicts
  <1> HIDE DEF s, v
  <1>6. TypeOK' /\ Phase' /\ Saving'
    BY <1>1, <1>3, <1>4, <1>5, Returned DEF PatchRead, TypeOK
  <1>7. id = 0 /\ id' = 0 /\ state'.id = state.id
    BY <1>3, <1>4 DEF PatchRead, Return, Phase, Making
  <1>8. Tracked' = Tracked
    BY <1>7 DEF Tracked
  <1> QED BY <1>6, <1>8, Holding DEF PatchRead, TypeOK

LEMMA PatchReadFailsStep == IInv /\ PatchReadFails => IInv' /\ LostOnTheWay
  BY FailedChange DEF PatchReadFails, IInv, TypeOK

\* What a removal does to the objects.
LEMMA RemovingTyped ==
  ASSUME TypeOK, NEW i \in Ids, Exists(i), Removing(i)
  PROVE  /\ obj' \in [Ids -> Objects]
         /\ \A k \in Ids \ {i} : obj'[k] = obj[k]
         /\ obj'[i].life = IF profile.gone THEN "dying" ELSE "none"
  <1>1. obj[i] \in Objects
    BY DEF TypeOK
  <1>2. [obj[i] EXCEPT !.life = "dying"] \in Objects
    BY <1>1 DEF Objects
  <1>3. CASE profile.gone
    <2>1. obj' = [obj EXCEPT ![i] = [obj[i] EXCEPT !.life = "dying"]]
      BY <1>3 DEF Removing, TypeOK
    <2> QED BY <1>1, <1>2, <1>3, <2>1 DEF TypeOK, Objects
  <1>4. CASE ~profile.gone
    <2>1. obj' = [obj EXCEPT ![i] = Blank]
      BY <1>4 DEF Removing
    <2>2. Blank.life = "none"
      BY DEF Blank
    <2> QED BY <1>4, <2>1, <2>2, Data DEF TypeOK
  <1> QED BY <1>3, <1>4

\* After the end of an object, the state forgets it.
LEMMA DeletedStep ==
  ASSUME IInv, Deleted, pc \in {"delete", "deleteWait"},
         obj' \in [Ids -> Objects],
         \A k \in Ids \ {state.id} : obj'[k] = obj[k],
         obj'[state.id].life = "none",
         UNCHANGED <<profile, forgot, remembered, want, fails, drifts, edits>>
  PROVE  IInv' /\ LostOnTheWay
  <1> USE DEF IInv
  <1>1. id = 0 /\ ~saved /\ state.id \in Ids
    BY DEF Phase, Making, TypeOK, States
  <1>2. state' = NoState /\ id' = 0
    BY <1>1 DEF Deleted, Return
  <1>3. TypeOK' /\ Phase' /\ Saving'
    <2>1. CASE want = Absent
      <3>1. Return(NoState, Ok) /\ Ok \in Verdicts
        BY <2>1 DEF Deleted, Ok, Verdicts, TypeOK
      <3>2. NoState \in States
        BY Data DEF States
      <3> QED BY <3>1, <3>2, Returned DEF TypeOK
    <2>2. CASE want # Absent
      <3>1. pc' = "create" /\ UNCHANGED <<id, saved, left, verdict>>
        BY <2>2 DEF Deleted
      <3>2. TypeOK'
        BY <1>2, <3>1, Data DEF TypeOK, Positions
      <3>3. Phase'
        BY <1>1, <1>2, <2>2, <3>1, Data DEF Phase, Making
      <3>4. Saving'
        BY <3>1 DEF Saving, Making
      <3> QED BY <3>2, <3>3, <3>4
    <2> QED BY <2>1, <2>2
  <1>4. Tracked = {state.id, 0} /\ Tracked' = {0}
    BY <1>1, <1>2, Data DEF Tracked
  <1>5. \A i \in Ids : i \in Tracked => obj'[i].life = "none"
    BY <1>4 DEF Ids
  <1> QED BY <1>3, <1>5, Holding DEF TypeOK

LEMMA DeleteStep == IInv /\ Delete => IInv' /\ LostOnTheWay
  <1> SUFFICES ASSUME IInv, Delete PROVE IInv' /\ LostOnTheWay
    OBVIOUS
  <1>1. state.id \in Ids /\ state.id # 0 /\ pc = "delete" /\ Exists(state.id)
    BY DEF Delete, IInv, Phase, TypeOK, States
  <1>2. /\ obj' \in [Ids -> Objects]
        /\ \A k \in Ids \ {state.id} : obj'[k] = obj[k]
        /\ obj'[state.id].life = IF profile.gone THEN "dying" ELSE "none"
    BY <1>1, RemovingTyped DEF Delete, IInv
  <1>3. CASE profile.gone
    <2>1. /\ pc' = "deleteWait"
          /\ UNCHANGED <<state, id, saved, left, verdict, profile, forgot,
                         remembered, want, fails, drifts, edits>>
      BY <1>3 DEF Delete
    <2>2. TypeOK'
      BY <1>2, <2>1 DEF IInv, TypeOK, Positions
    <2>3. Phase' /\ Saving'
      BY <1>1, <2>1 DEF IInv, Phase, Saving, Making
    <2>4. state.id \in Tracked' /\ Tracked' = Tracked
      BY <2>1 DEF Tracked
    <2>5. \A i \in Ids : obj'[i].life = obj[i].life \/ i \in Tracked'
      BY <1>2, <2>4
    <2> QED BY <1>2, <2>1, <2>2, <2>3, <2>4, <2>5, Holding DEF IInv, TypeOK
  <1>4. CASE ~profile.gone
    BY <1>1, <1>2, <1>4, DeletedStep DEF Delete
  <1> QED BY <1>3, <1>4

LEMMA DeleteMissingStep == IInv /\ DeleteMissing => IInv' /\ LostOnTheWay
  <1> SUFFICES ASSUME IInv, DeleteMissing PROVE IInv' /\ LostOnTheWay
    OBVIOUS
  <1>1. CASE profile.absent
    BY <1>1, DeletedStep DEF DeleteMissing, Exists, IInv, TypeOK
  <1>2. CASE ~profile.absent
    BY <1>2, FailedChange DEF DeleteMissing, IInv, TypeOK
  <1> QED BY <1>1, <1>2

LEMMA DeleteDoneStep == IInv /\ DeleteDone => IInv' /\ LostOnTheWay
  BY DeletedStep DEF DeleteDone, Exists, IInv, TypeOK

LEMMA DeleteFailsStep == IInv /\ DeleteFails => IInv' /\ LostOnTheWay
  BY FailedChange DEF DeleteFails, IInv, TypeOK

LEMMA DeleteLostStep == IInv /\ DeleteLost => IInv' /\ LostOnTheWay
  <1> SUFFICES ASSUME IInv, DeleteLost PROVE IInv' /\ LostOnTheWay
    OBVIOUS
  <1>1. state.id \in Ids /\ Exists(state.id) /\ pc = "delete"
    BY DEF DeleteLost, IInv, Phase, TypeOK, States
  <1>2. /\ obj' \in [Ids -> Objects]
        /\ \A k \in Ids \ {state.id} : obj'[k] = obj[k]
    BY <1>1, RemovingTyped DEF DeleteLost, IInv
  <1>3. \A i \in Ids : obj'[i].life = obj[i].life \/ i \in Tracked
    BY <1>2 DEF Tracked
  <1>4. CASE FailChange
    BY <1>1, <1>2, <1>3, <1>4, FailedChange DEF DeleteLost
  <1>5. CASE UNCHANGED <<state, pc, id, saved, left, verdict>>
    BY <1>1, <1>2, <1>3, <1>5, Resent DEF DeleteLost
  <1> QED BY <1>4, <1>5 DEF DeleteLost

LEMMA ReadyStep ==
  ASSUME NEW i \in Ids, IInv, PlatformReady(i)
  PROVE  IInv' /\ LostOnTheWay
  <1> USE DEF IInv
  <1>1. obj[i] \in Objects
    BY DEF TypeOK
  <1>2. obj' = [obj EXCEPT ![i] = [obj[i] EXCEPT !.ready = TRUE]]
    BY DEF PlatformReady
  <1>3. /\ [obj[i] EXCEPT !.ready = TRUE] \in Objects
        /\ [obj[i] EXCEPT !.ready = TRUE].life = obj[i].life
    BY <1>1 DEF Objects
  <1>4. /\ obj' \in [Ids -> Objects]
        /\ \A k \in Ids : obj'[k].life = obj[k].life
    BY <1>2, <1>3 DEF TypeOK
  <1>5. TypeOK'
    BY <1>4 DEF PlatformReady, TypeOK
  <1>6. Phase' /\ Saving'
    BY DEF PlatformReady, Phase, Saving, Making
  <1>7. Tracked' = Tracked
    BY DEF PlatformReady, Tracked
  <1> QED BY <1>4, <1>5, <1>6, <1>7, Holding DEF PlatformReady, TypeOK

LEMMA GoneStep ==
  ASSUME NEW i \in Ids, IInv, PlatformGone(i)
  PROVE  IInv' /\ LostOnTheWay
  <1> USE DEF IInv
  <1>1. Blank \in Objects /\ Blank.life = "none"
    BY Data DEF Blank
  <1>2. /\ obj' \in [Ids -> Objects]
        /\ \A k \in Ids : obj'[k].life = obj[k].life \/ obj'[k].life = "none"
    BY <1>1 DEF PlatformGone, TypeOK
  <1>3. TypeOK'
    BY <1>2 DEF PlatformGone, TypeOK
  <1>4. Phase' /\ Saving'
    BY DEF PlatformGone, Phase, Saving, Making
  <1>5. Tracked' = Tracked
    BY DEF PlatformGone, Tracked
  <1> QED BY <1>2, <1>3, <1>4, <1>5, Holding DEF PlatformGone, TypeOK

LEMMA KeysExpireStep == IInv /\ KeysExpire => IInv' /\ LostOnTheWay
  <1> SUFFICES ASSUME IInv, KeysExpire PROVE IInv' /\ LostOnTheWay
    OBVIOUS
  <1> USE DEF IInv
  <1>1. TypeOK'
    BY DEF KeysExpire, TypeOK
  <1>2. Phase' /\ Saving'
    BY DEF KeysExpire, Phase, Saving, Making
  <1>3. Tracked' = Tracked
    BY DEF KeysExpire, Tracked
  <1> QED BY <1>1, <1>2, <1>3, Holding DEF KeysExpire, TypeOK

\* A part of an object changes to the other value.
LEMMA FlippedTyped ==
  ASSUME obj \in [Ids -> Objects], NEW i \in Ids, NEW p \in Parts,
         NEW d \in BOOLEAN,
         obj' = [obj EXCEPT ![i].config[p] = 1 - @, ![i].due = d]
  PROVE  /\ obj' \in [Ids -> Objects]
         /\ \A k \in Ids : obj'[k].life = obj[k].life
  <1>1. obj[i] \in Objects
    OBVIOUS
  <1>2. PICK c : c = [obj[i].config EXCEPT ![p] = 1 - @]
    OBVIOUS
  <1>3. c \in Configs
    BY <1>1, <1>2 DEF Objects, Configs
  <1>4. obj' = [obj EXCEPT ![i] = [obj[i] EXCEPT !.config = c, !.due = d]]
    BY <1>2
  <1>5. /\ [obj[i] EXCEPT !.config = c, !.due = d] \in Objects
        /\ [obj[i] EXCEPT !.config = c, !.due = d].life = obj[i].life
    BY <1>1, <1>3 DEF Objects
  <1> QED BY <1>4, <1>5

LEMMA ToggledStep ==
  ASSUME NEW i \in Ids, IInv, Toggled(i)
  PROVE  IInv' /\ LostOnTheWay
  <1> USE DEF IInv
  <1>1. /\ obj' \in [Ids -> Objects]
        /\ \A k \in Ids : obj'[k].life = obj[k].life
    <2>1. CASE obj' = [obj EXCEPT ![i].config["extra"] = 1 - @, ![i].due = FALSE]
      BY <2>1, FlippedTyped DEF TypeOK, Parts
    <2>2. CASE obj' = [obj EXCEPT ![i].due = FALSE]
      BY <2>2 DEF TypeOK, Objects
    <2> QED BY <2>1, <2>2 DEF Toggled
  <1>2. fails' \in 0..MaxFailures
    BY Counted DEF Toggled
  <1>3. TypeOK'
    BY <1>1, <1>2 DEF Toggled, TypeOK
  <1>4. Phase' /\ Saving'
    BY DEF Toggled, Phase, Saving, Making
  <1>5. Tracked' = Tracked
    BY DEF Toggled, Tracked
  <1> QED BY <1>1, <1>3, <1>4, <1>5, Holding DEF Toggled, TypeOK

LEMMA DriftStep ==
  ASSUME NEW i \in Ids, IInv, Drift(i)
  PROVE  IInv' /\ LostOnTheWay
  <1> USE DEF IInv
  <1>1. /\ obj' \in [Ids -> Objects]
        /\ \A k \in Ids : \/ obj'[k].life = obj[k].life
                          \/ obj'[k].life = "none"
                          \/ obj'[k].life = "dying" /\ obj[k].life = "live"
    <2>1. CASE Removing(i)
      BY <2>1, RemovingTyped DEF Drift, Live, Exists
    <2>2. ASSUME NEW p \in Parts,
                 obj' = [obj EXCEPT ![i].config[p] = 1 - @,
                                    ![i].due = @ /\ p # "extra"]
          PROVE  <1>1!1 /\ <1>1!2
      <3>1. obj[i] \in Objects
        BY DEF TypeOK
      <3> QED BY <2>2, <3>1, FlippedTyped DEF TypeOK
    <2> QED BY <2>1, <2>2 DEF Drift
  <1>2. drifts' \in 0..MaxDrifts
    BY BoundsAssumption DEF Drift, TypeOK
  <1>3. TypeOK'
    BY <1>1, <1>2 DEF Drift, TypeOK
  <1>4. Phase' /\ Saving'
    BY DEF Drift, Phase, Saving, Making
  <1>5. Tracked' = Tracked
    BY DEF Drift, Tracked
  <1> QED BY <1>1, <1>3, <1>4, <1>5, Holding DEF Drift, TypeOK

LEMMA EditStep == IInv /\ Edit => IInv' /\ LostOnTheWay
  <1> SUFFICES ASSUME IInv, Edit PROVE IInv' /\ LostOnTheWay
    OBVIOUS
  <1> USE DEF IInv
  <1>1. edits' \in 0..MaxEdits
    BY BoundsAssumption DEF Edit, TypeOK
  <1>2. TypeOK'
    BY <1>1 DEF Edit, TypeOK
  <1>3. Phase' /\ Saving'
    BY DEF Edit, Phase, Saving, Making
  <1>4. Tracked' = Tracked
    BY DEF Edit, Tracked
  <1> QED BY <1>2, <1>3, <1>4, Holding DEF Edit, TypeOK

LEMMA ImportStep ==
  ASSUME NEW i \in Ids, IInv, Import(i)
  PROVE  IInv' /\ LostOnTheWay
  <1> USE DEF IInv
  <1> DEFINE c == Read(i, Default)
  <1>1. c \in Configs
    BY Data, ReadTyped DEF TypeOK
  <1>2. state' = [id |-> i, config |-> c, tainted |-> FALSE, stub |-> FALSE]
    BY DEF Import
  <1> HIDE DEF c
  <1>3. state' \in States /\ state'.id # 0
    BY <1>1, <1>2 DEF Ids, States
  <1>4. TypeOK'
    BY <1>3 DEF Import, TypeOK
  <1>5. Phase' /\ Saving'
    BY DEF Import, Phase, Saving, Making
  <1>6. \A k \in Ids : k \notin Tracked
    BY DEF Import, Phase, Making, Tracked, Ids
  <1> QED BY <1>4, <1>5, <1>6, Holding DEF Import, TypeOK

-----------------------------------------------------------------------------
(* The step, and what follows.                                             *)

LEMMA ProviderStep == IInv /\ Provider => IInv' /\ LostOnTheWay
  BY CreateStep, LocateStep, DeployStep, WaitStep, StageStep, ReadBackStep,
     RespondStep, PatchStep, PatchReadStep, DeleteStep, DeleteMissingStep,
     DeleteDoneStep
  DEF Provider

LEMMA FailuresStep == IInv /\ Failures => IInv' /\ LostOnTheWay
  BY CreateFailsStep, CreateUnheardStep, CreateDoubtedStep, CreateLostStep,
     ReadBackFailsStep, PatchFailsStep, PatchLostStep, PatchReadFailsStep,
     DeleteFailsStep, DeleteLostStep
  DEF Failures

LEMMA NextIInv == IInv /\ Next => IInv' /\ LostOnTheWay
  <1> SUFFICES ASSUME IInv, Next PROVE IInv' /\ LostOnTheWay
    OBVIOUS
  <1>1. CASE Refresh
    BY <1>1, RefreshStep
  <1>2. CASE Plan
    BY <1>2, PlanStep
  <1>3. CASE Provider
    BY <1>3, ProviderStep
  <1>4. CASE Failures
    BY <1>4, FailuresStep
  <1>5. CASE Platform
    BY <1>5, ReadyStep, GoneStep, ToggledStep DEF Platform
  <1>6. CASE Edit
    BY <1>6, EditStep
  <1>7. CASE \E i \in Ids : Drift(i) \/ Import(i)
    BY <1>7, DriftStep, ImportStep
  <1>8. CASE RefreshMisses
    BY <1>8, RefreshMissesStep
  <1>9. CASE KeysExpire
    BY <1>9, KeysExpireStep
  <1>10. CASE RefreshRefused
    BY <1>10, RefreshRefusedStep
  <1> QED BY <1>1, <1>2, <1>3, <1>4, <1>5, <1>6, <1>7, <1>8, <1>9, <1>10
      DEF Next

LEMMA StutterIInv == IInv /\ UNCHANGED vars => IInv'
  <1> SUFFICES ASSUME IInv, UNCHANGED vars PROVE IInv'
    OBVIOUS
  <1>1. TypeOK'
    BY DEF IInv, TypeOK, vars
  <1>2. Phase' /\ Saving'
    BY DEF IInv, Phase, Saving, vars
  <1>3. Known'
    BY DEF IInv, Known, Tracked, Exists, vars
  <1> QED BY <1>1, <1>2, <1>3 DEF IInv

LEMMA Invariance == Spec => []IInv
  <1>1. IInv /\ [Next]_vars => IInv'
    BY NextIInv, StutterIInv
  <1> QED BY <1>1, InitIInv, PTL DEF Spec

\* The state, the response under construction and the objects keep their
\* types, and an apply that ended has left nothing half gathered (Create,
\* Update and Delete of internal/resources).
THEOREM TypeCorrect == Spec => []TypeOK
  <1>1. IInv => TypeOK
    BY DEF IInv
  <1> QED BY <1>1, Invariance, PTL

\* Whatever fails, and in whatever order, Terraform loses sight of an object
\* only where the answer to its create is lost, where Create still looks for
\* its id, where the read that ends Create fails before the id is saved, or
\* where a list of pages missed it.
THEOREM LosesOnlyOnTheWay == Spec => NotLost
  <1>1. IInv /\ [Next]_vars => [LostOnTheWay]_vars
    BY NextIInv
  <1> QED BY <1>1, Invariance, PTL DEF Spec, NotLost

\* Where Delete waits for the end of the teardown, no Create is asked for
\* while an earlier object of the block that Terraform knew is still there.
THEOREM ReplacementAlone == Spec => []GoneBeforeNext
  <1>1. IInv => GoneBeforeNext
    <2> SUFFICES ASSUME IInv, pc = "create", ~forgot, NEW i \in Ids
                 PROVE  ~Exists(i)
      BY DEF GoneBeforeNext
    <2>1. state.id = 0 /\ id = 0
      BY DEF IInv, Phase, Making
    <2>2. i \notin Tracked
      BY <2>1 DEF Tracked, Ids
    <2> QED BY <2>2 DEF IInv, Known
  <1> QED BY <1>1, Invariance, PTL

-----------------------------------------------------------------------------
(* What an apply that reports success has done.                            *)

Undisturbed == fails = 0 /\ drifts = 0

\* Object i is as configuration c has it, but for a part whose job is under way.
Holds(i, c) ==
    \A p \in Parts : \/ obj[i].config[p] = c[p]
                     \/ p = "extra" /\ OnItsWay(i)

\* An apply is "running" from its refresh to its end, unless disturbed, or met
\* by the job of an earlier apply.
VerdictFits ==
    /\ verdict = "ok" => pc = "idle" /\ (want # Absent => state.id # 0)
    /\ verdict = "running" => pc # "idle"
    /\ Undisturbed /\ pc # "idle" /\ ~profile.later => verdict = "running"

\* Without a disturbance nothing is unknown, and an object is taken down only
\* by a Delete that waits for it.
NothingHidden ==
    Undisturbed => \A i \in Ids :
       /\ Exists(i) => i \in Tracked
       /\ obj[i].life = "dying" => pc = "deleteWait"

Finished == {"stage", "readBack", "respond"}

\* What a Create need not wait for, and what it waited for, is usable.
Usable ==
    /\ ~profile.wait => \A i \in Ids : Exists(i) => obj[i].ready
    /\ state.id # 0 /\ ~state.tainted /\ Exists(state.id) => obj[state.id].ready
    /\ pc \in Finished /\ Exists(id) => obj[id].ready

\* The part no read shows is as Terraform asked for, until something fails.
BlindKept ==
    /\ profile.blind /\ Undisturbed
    /\ state.id # 0 /\ ~state.tainted /\ Exists(state.id)
    /\ pc \notin {"patch", "patchRead"}
    => state.config["extra"] = obj[state.id].config["extra"]

\* The plan is made from what the object is, unless a job has turned a part
\* over meanwhile that is to be changed.
ReadFits ==
    pc = "plan" /\ verdict = "running" /\ state.id # 0 /\ ~state.tainted =>
       /\ Exists(state.id)
       /\ Plain => \A p \in Parts :
             \/ state.config[p] = obj[state.id].config[p]
             \/ p = "extra" /\ profile.later /\ p \in Changed

\* What the object of a running Create is: what was sent so far, unless the
\* answer to its key is an old one; the stage alone starts a job.
Sent == IF pc \in {"readBack", "respond"} THEN want ELSE Body
MadeAs ==
    pc \in Making =>
       /\ Keyed => id = remembered[Body]
       /\ verdict = "running" /\ ~Keyed => Exists(id)
       /\ verdict = "running" /\ Exists(id) /\ (~Keyed \/ Undisturbed) =>
             /\ Holds(id, Sent)
             /\ pc \notin {"readBack", "respond"} => ~obj[id].due
       /\ pc = "respond" /\ Keyed =>
             profile.read = "may" /\ (~Exists(id) \/ fails > 0)

\* What a running Update has sent is there.
PatchFits ==
    pc \in {"patch", "patchRead"} =>
       /\ ~state.tainted
       /\ pc = "patchRead" => left = {}
       /\ verdict = "running" =>
             /\ Exists(state.id)
             /\ Plain => \A p \in Parts \ left :
                   \/ obj[state.id].config[p] = want[p]
                   \/ p = "extra" /\ OnItsWay(state.id)

\* OkMeansDone speaks of the end of an apply only: the rest follows the object
\* through the positions that lead there.
Followed ==
    /\ VerdictFits /\ NothingHidden /\ Usable /\ BlindKept
    /\ ReadFits /\ MadeAs /\ PatchFits /\ OkMeansDone

DoneInv == IInv /\ Followed

LEMMA InitDone == Init => Followed
  <1> SUFFICES ASSUME Init PROVE Followed
    OBVIOUS
  <1>1. \A i \in Ids : ~Exists(i) /\ obj[i].life = "none"
    BY DEF Init, Exists, Blank
  <1>2. state.id = 0 /\ pc = "idle" /\ verdict = "none"
    BY Data DEF Init
  <1>3. VerdictFits /\ BlindKept /\ ReadFits /\ PatchFits /\ OkMeansDone
    BY <1>2 DEF VerdictFits, BlindKept, ReadFits, PatchFits, OkMeansDone
  <1>4. NothingHidden
    BY <1>1 DEF NothingHidden
  <1>5. Usable /\ MadeAs
    BY <1>1, <1>2 DEF Usable, MadeAs, Making, Finished
  <1> QED BY <1>3, <1>4, <1>5 DEF Followed

-----------------------------------------------------------------------------
(* What the steps have in common.                                          *)

\* A failure leaves nobody undisturbed, and what was disturbed stays so.
LEMMA Disturbed ==
  ASSUME TypeOK, Failing PROVE fails' > 0 /\ ~Undisturbed'
  BY BoundsAssumption DEF TypeOK, Failing, Undisturbed

LEMMA DriftDisturbs ==
  ASSUME TypeOK, drifts' = drifts + 1 PROVE ~Undisturbed'
  BY BoundsAssumption DEF TypeOK, Undisturbed

LEMMA StillPlain ==
  ASSUME TypeOK, Failing \/ UNCHANGED fails, UNCHANGED <<profile, drifts>>
  PROVE  /\ Undisturbed' => Undisturbed
         /\ Plain' => Plain
         /\ fails > 0 => fails' > 0
  BY BoundsAssumption DEF TypeOK, Failing, Undisturbed, Plain

\* Without a job, an object is as configured or it is not.
LEMMA HoldsExactly ==
  ASSUME TypeOK, NEW i \in Ids, NEW c \in Configs
  PROVE  /\ obj[i].config = c => Holds(i, c)
         /\ Holds(i, c) /\ ~OnItsWay(i) => obj[i].config = c
  <1>1. obj[i].config \in Configs
    BY DEF TypeOK, Objects
  <1> QED BY <1>1 DEF Holds, Configs

\* An apply that ends with an error claims nothing of the object.
LEMMA GaveUp ==
  ASSUME pc' = "idle", verdict' = "none", Usable', BlindKept', NothingHidden'
  PROVE  Followed'
  <1>1. VerdictFits' /\ ReadFits' /\ PatchFits' /\ OkMeansDone'
    BY DEF VerdictFits, ReadFits, PatchFits, OkMeansDone
  <1>2. MadeAs'
    BY DEF MadeAs, Making
  <1> QED BY <1>1, <1>2 DEF Followed

\* The same of an end after a failure.
LEMMA GaveUpDisturbed ==
  ASSUME pc' = "idle", verdict' = "none", Usable', ~Undisturbed'
  PROVE  Followed'
  <1>1. BlindKept' /\ NothingHidden'
    BY DEF BlindKept, NothingHidden
  <1> QED BY <1>1, GaveUp

\* No object that exists is dying while nothing waits for its end.
LEMMA NoneDying ==
  ASSUME TypeOK, NothingHidden, Undisturbed, pc # "deleteWait",
         NEW i \in Ids, ~Live(i)
  PROVE  ~Exists(i)
  <1>1. obj[i].life \in {"none", "live", "dying"}
    BY DEF TypeOK, Objects
  <1> QED BY <1>1 DEF NothingHidden, Live, Exists

-----------------------------------------------------------------------------
(* Refresh and plan.                                                       *)

LEMMA RefreshDone == DoneInv /\ Refresh => Followed'
  <1> SUFFICES ASSUME DoneInv, Refresh PROVE Followed'
    OBVIOUS
  <1> USE DEF DoneInv, IInv, Followed
  <1>1. /\ pc = "idle" /\ pc' = "plan" /\ verdict' = "running" /\ id = 0
        /\ UNCHANGED <<profile, forgot, remembered, obj, want, id, saved, left,
                       fails, drifts, edits>>
    BY DEF Refresh, Phase, Making
  <1>2. VerdictFits' /\ MadeAs' /\ PatchFits' /\ OkMeansDone'
    BY <1>1 DEF VerdictFits, MadeAs, Making, PatchFits, OkMeansDone
  <1>3. CASE state.id = 0 \/ ~Exists(state.id)
    <2>1. state' = NoState /\ state'.id = 0
      BY <1>3, Data DEF Refresh
    <2>2. NothingHidden'
      BY <1>1, <1>3, <2>1
      DEF NothingHidden, Undisturbed, Tracked, Exists, Ids
    <2> QED BY <1>1, <1>2, <2>1, <2>2
        DEF Usable, Finished, BlindKept, ReadFits, Exists
  <1>4. CASE state.id # 0 /\ Exists(state.id)
    <2>1. state' = [state EXCEPT !.config = Read(state.id, state.config)]
      BY <1>4 DEF Refresh
    <2>2. /\ state.id \in Ids /\ state.config \in Configs
          /\ obj[state.id].config \in Configs
      BY <1>4 DEF TypeOK, States, Objects
    <2>3. /\ state'.id = state.id /\ state'.tainted = state.tainted
          /\ state'.config = Read(state.id, state.config)
      BY <2>1 DEF TypeOK
    <2>4. NothingHidden' /\ Usable'
      BY <1>1, <2>3
      DEF NothingHidden, Undisturbed, Tracked, Exists, Usable, Finished
    <2>5. profile.blind => state'.config["extra"] = state.config["extra"]
      BY <2>3 DEF Read, Parts
    <2>6. BlindKept'
      BY <1>1, <2>3, <2>5 DEF BlindKept, Undisturbed, Exists
    <2>7. ASSUME ~state.tainted, Plain
          PROVE  Read(state.id, state.config) = obj[state.id].config
      <3>1. profile.blind =>
               state.config["extra"] = obj[state.id].config["extra"]
        BY <1>1, <1>4, <2>7 DEF Plain, BlindKept, Undisturbed
      <3> QED BY <2>2, <3>1 DEF Read, Configs, Parts
    <2>8. ReadFits'
      BY <1>1, <1>4, <2>3, <2>7 DEF ReadFits, Exists, Plain
    <2> QED BY <1>2, <2>4, <2>6, <2>8
  <1> QED BY <1>3, <1>4

LEMMA RefreshMissesDone == DoneInv /\ RefreshMisses => Followed'
  <1> SUFFICES ASSUME DoneInv, RefreshMisses PROVE Followed'
    OBVIOUS
  <1>1. ~Undisturbed'
    BY DriftDisturbs DEF RefreshMisses, DoneInv, IInv
  <1>2. /\ state' = NoState /\ state'.id = 0 /\ pc' = "plan"
        /\ verdict' = "none" /\ UNCHANGED <<profile, obj>>
    BY Data DEF RefreshMisses
  <1>3. VerdictFits' /\ NothingHidden' /\ BlindKept' /\ ReadFits'
    BY <1>1, <1>2 DEF VerdictFits, NothingHidden, BlindKept, ReadFits
  <1>4. Usable'
    BY <1>2 DEF DoneInv, Followed, Usable, Finished, Exists
  <1>5. MadeAs' /\ PatchFits' /\ OkMeansDone'
    BY <1>2 DEF MadeAs, Making, PatchFits, OkMeansDone
  <1> QED BY <1>3, <1>4, <1>5 DEF Followed

\* A plan that finds nothing to change has found the object as configured.
LEMMA NothingToChange ==
  ASSUME DoneInv, pc = "plan", verdict = "running", state.id # 0,
         want # Absent, ~Replaces, Changed = {}
  PROVE  /\ state.config = want /\ ~state.tainted
         /\ Exists(state.id) /\ obj[state.id].ready
         /\ Plain => obj[state.id].config = want
  <1> USE DEF DoneInv, IInv, Followed
  <1>1. state.config = want
    BY DEF Changed, TypeOK, States, Configs
  <1>2. ~state.tainted
    BY DEF Replaces
  <1>3. state.id \in Ids /\ obj[state.id].config \in Configs
    BY DEF TypeOK, States, Objects
  <1>4. Exists(state.id) /\ obj[state.id].ready
    BY <1>2 DEF ReadFits, Usable
  <1>5. Plain => \A p \in Parts : obj[state.id].config[p] = want[p]
    BY <1>1, <1>2 DEF ReadFits
  <1>6. want \in Configs
    BY DEF TypeOK
  <1>7. Plain => obj[state.id].config = want
    BY <1>3, <1>5, <1>6 DEF Configs
  <1> QED BY <1>1, <1>2, <1>4, <1>7

LEMMA PlanDone == DoneInv /\ Plan => Followed'
  <1> SUFFICES ASSUME DoneInv, Plan PROVE Followed'
    OBVIOUS
  <1> USE DEF DoneInv, IInv, Followed
  <1>1. pc = "plan" /\ id = 0 /\ ~saved
    BY DEF Plan, Phase, Making
  <1>2. UNCHANGED <<profile, forgot, remembered, obj, state, want, id, fails,
                    drifts, edits>>
    BY <1>1 DEF Plan, Return
  <1>3. pc' \in {"create", "delete", "patch", "idle"}
    BY DEF Plan, Return
  <1>4. NothingHidden' /\ Usable'
    BY <1>1, <1>2, <1>3
    DEF NothingHidden, Undisturbed, Tracked, Exists, Usable, Finished
  <1>5. BlindKept' /\ ReadFits' /\ MadeAs'
    BY <1>1, <1>2, <1>3
    DEF BlindKept, Undisturbed, Exists, ReadFits, MadeAs, Making
  <1>6. CASE pc' \in {"create", "delete"}
    <2>1. verdict' = verdict
      BY <1>6 DEF Plan, Return
    <2>2. VerdictFits' /\ OkMeansDone'
      BY <1>1, <1>2, <1>6, <2>1 DEF VerdictFits, Undisturbed, OkMeansDone
    <2>3. PatchFits'
      BY <1>6 DEF PatchFits
    <2> QED BY <1>4, <1>5, <2>2, <2>3
  <1>7. CASE pc' = "patch"
    <2>1. /\ verdict' = verdict /\ left' = Changed
          /\ state.id # 0 /\ ~Replaces
      BY <1>7 DEF Plan, Return
    <2>2. VerdictFits' /\ OkMeansDone'
      BY <1>1, <1>2, <1>7, <2>1 DEF VerdictFits, Undisturbed, OkMeansDone
    <2>3. ~state.tainted
      BY <2>1 DEF Replaces
    <2>4. \A p \in Parts \ left' : state.config[p] = want[p]
      BY <2>1 DEF Changed
    <2>5. verdict = "running" =>
             /\ Exists(state.id)
             /\ Plain => \A p \in Parts \ left' :
                            obj[state.id].config[p] = want[p]
      BY <1>1, <2>1, <2>3, <2>4 DEF ReadFits, Changed
    <2>6. PatchFits'
      BY <1>2, <1>7, <2>1, <2>3, <2>5 DEF PatchFits, Exists, Plain
    <2> QED BY <1>4, <1>5, <2>2, <2>6
  <1>8. CASE pc' = "idle"
    <2>1. /\ Return(state, Ok)
          /\ IF state.id = 0 THEN want = Absent
             ELSE want # Absent /\ ~Replaces /\ Changed = {}
      BY <1>8 DEF Plan
    <2>2. verdict' = "ok" <=> verdict = "running"
      BY <1>1, <2>1 DEF Return, Ok, VerdictFits
    <2>3. verdict' \in {"none", "ok"}
      BY <1>1, <2>1 DEF Return, Ok, TypeOK, VerdictFits
    <2>4. VerdictFits' /\ PatchFits'
      BY <1>2, <1>8, <2>1, <2>3 DEF VerdictFits, PatchFits
    <2>5. OkMeansDone'
      <3>1. CASE want = Absent
        <4>1. state.id = 0
          BY <2>1, <3>1
        <4>2. state = NoState /\ \A i \in Ids : i \notin Tracked
          BY <1>1, <4>1 DEF TypeOK, Tracked, Ids
        <4> QED BY <1>2, <3>1, <4>2 DEF OkMeansDone, Known, Exists
      <3>2. CASE want # Absent
        <4>1. state.id # 0 /\ ~Replaces /\ Changed = {}
          BY <2>1, <3>2
        <4>2. verdict = "running" =>
                 /\ state.config = want /\ ~state.tainted
                 /\ Exists(state.id) /\ obj[state.id].ready
                 /\ Plain => obj[state.id].config = want
          BY <1>1, <3>2, <4>1, NothingToChange
        <4> QED BY <1>2, <2>2, <3>2, <4>2 DEF OkMeansDone, Exists, Plain
      <3> QED BY <3>1, <3>2
    <2> QED BY <1>4, <1>5, <2>4, <2>5
  <1> QED BY <1>3, <1>6, <1>7, <1>8

-----------------------------------------------------------------------------
(* Create.                                                                 *)

\* What is sent when no stage follows is the configuration.
LEMMA SentAll ==
  ASSUME TypeOK, want \in Configs, AfterWait = AfterStage PROVE Body = want
  <1>1. ~(profile.stage /\ want["extra"] # Default["extra"])
    BY DEF AfterWait, AfterStage
  <1> QED BY <1>1 DEF Body, Configs, Default, Parts

\* Where a Create may be after the answer, the search, the start and the wait.
LEMMA Onward ==
  /\ AfterStage \in {"readBack", "respond"}
  /\ AfterWait \in {"stage", AfterStage}
  /\ AfterDeploy \in {"wait", "stage", AfterStage}
  /\ AfterDeploy # "wait" => ~profile.wait
  /\ AfterLocate \in {"deploy", "wait", "stage", AfterStage}
  /\ AfterLocate \notin {"deploy", "wait"} => ~profile.wait
  /\ AfterCreate \in {"locate", "deploy", "wait", "stage", AfterStage}
  /\ \A p \in {AfterCreate, AfterLocate, AfterDeploy, AfterWait} :
        p = AfterStage => AfterWait = AfterStage
  BY DEF AfterStage, AfterWait, AfterDeploy, AfterLocate, AfterCreate

\* A keyed Create does not end without a read.
LEMMA KeyedReads ==
  ASSUME TypeOK, Keyed
  PROVE  /\ AfterStage = "readBack" /\ profile.read \in {"must", "may"}
         /\ want \in Configs => Body = want
  BY ProfilesAssumption DEF TypeOK, Keyed, AfterStage, Body

\* The object a create made or found.
LEMMA CarriedAs ==
  ASSUME TypeOK, want \in Configs, NEW i \in Ids, CarriedOut(i)
  PROVE  /\ Keyed => remembered'[Body] = i
         /\ \/ /\ obj'[i] = [life |-> "live", ready |-> ~profile.wait,
                             started |-> ~profile.deploy, config |-> Body,
                             due |-> FALSE]
            \/ Keyed /\ UNCHANGED obj
  <1>1. Body \in Configs
    BY Data DEF Body
  <1>2. CASE Keyed /\ i = remembered[Body] /\ UNCHANGED <<obj, remembered>>
    BY <1>2
  <1>3. CASE /\ obj' = [obj EXCEPT ![i] =
                          [life |-> "live", ready |-> ~profile.wait,
                           started |-> ~profile.deploy, config |-> Body,
                           due |-> FALSE]]
             /\ remembered' = IF Keyed THEN [remembered EXCEPT ![Body] = i]
                              ELSE remembered
    BY <1>1, <1>3 DEF TypeOK
  <1> QED BY <1>2, <1>3 DEF CarriedOut

\* Nothing made is unusable where nothing waits.
LEMMA CarriedUsable ==
  ASSUME DoneInv, want \in Configs, NEW i \in Ids, CarriedOut(i), ~profile.wait,
         NEW k \in Ids, obj'[k].life # "none"
  PROVE  obj'[k].ready
  <1> USE DEF DoneInv, IInv, Followed
  <1>1. k # i => obj'[k] = obj[k]
    BY Carried
  <1>2. CASE obj'[k] = obj[k]
    BY <1>2 DEF Usable, Exists
  <1>3. CASE obj'[k] # obj[k]
    <2>1. k = i /\ obj'[i].ready = ~profile.wait
      BY <1>1, <1>3, CarriedAs
    <2> QED BY <2>1
  <1> QED BY <1>2, <1>3

LEMMA CreateDone == DoneInv /\ Create => Followed'
  <1> SUFFICES ASSUME DoneInv, Create PROVE Followed'
    OBVIOUS
  <1> USE DEF DoneInv, IInv, Followed
  <1>1. PICK i \in Ids : CarriedOut(i) /\ id' = i
    BY DEF Create
  <1>2. /\ pc = "create" /\ want \in Configs /\ state.id = 0 /\ id = 0
        /\ verdict # "ok"
    BY DEF Create, Phase, TypeOK, Making, VerdictFits
  <1>3. /\ pc' = AfterCreate
        /\ UNCHANGED <<profile, forgot, state, want, left, verdict, fails,
                       drifts, edits>>
    BY DEF Create
  <1>4. pc' \in {"locate", "deploy", "wait", "stage", "readBack", "respond"}
    BY <1>3, Onward
  <1>5. /\ obj' \in [Ids -> Objects]
        /\ \A k \in Ids \ {i} : obj'[k] = obj[k]
    BY <1>1, <1>2, Carried
  <1>6. /\ Keyed => remembered'[Body] = i
        /\ \/ /\ obj'[i].life = "live" /\ obj'[i].config = Body
              /\ obj'[i].ready = ~profile.wait /\ ~obj'[i].due
           \/ Keyed /\ UNCHANGED obj
    BY <1>1, <1>2, CarriedAs
  <1>7. VerdictFits' /\ OkMeansDone' /\ BlindKept' /\ ReadFits' /\ PatchFits'
    BY <1>2, <1>3, <1>4
    DEF VerdictFits, Undisturbed, OkMeansDone, BlindKept, ReadFits, PatchFits
  <1>8. \A k \in Ids : k \notin Tracked
    BY <1>2 DEF Tracked, Ids
  <1>9. Undisturbed => \A k \in Ids : obj[k].life = "none"
    BY <1>8 DEF NothingHidden, Exists
  <1>10. NothingHidden'
    <2> SUFFICES ASSUME Undisturbed', NEW k \in Ids
                 PROVE  /\ Exists(k)' => k \in Tracked'
                        /\ obj'[k].life # "dying"
      BY DEF NothingHidden
    <2>1. Undisturbed
      BY <1>3 DEF Undisturbed
    <2>2. CASE k = i
      BY <1>1, <1>6, <1>9, <2>1, <2>2 DEF Tracked
    <2>3. CASE k # i
      BY <1>5, <1>9, <2>1, <2>3 DEF Exists
    <2> QED BY <2>2, <2>3
  <1>11. Usable'
    <2>1. ~profile.wait => \A k \in Ids : obj'[k].life # "none" => obj'[k].ready
      BY <1>1, <1>2, CarriedUsable
    <2>2. pc' \in Finished => ~profile.wait
      BY <1>3 DEF Finished, AfterCreate, AfterLocate, AfterDeploy
    <2> QED BY <1>1, <1>2, <1>3, <2>1, <2>2 DEF Usable, Exists
  <1>12. MadeAs'
    <2>1. Body' = Body /\ Keyed' = Keyed /\ Undisturbed' = Undisturbed
      BY <1>3 DEF Body, Keyed, Undisturbed
    <2>2. ~Keyed => Exists(i)'
      BY <1>6 DEF Exists
    <2>3. Exists(i)' /\ (~Keyed \/ Undisturbed)
          => obj'[i].config = Body /\ ~obj'[i].due
      BY <1>6, <1>9 DEF Exists
    <2>4. Sent' = Body
      <3>1. CASE pc' \in {"readBack", "respond"}
        <4>1. AfterWait = AfterStage
          BY <1>3, <3>1, Onward
        <4> QED BY <1>2, <1>3, <3>1, <4>1, SentAll DEF Sent
      <3>2. CASE pc' \notin {"readBack", "respond"}
        BY <2>1, <3>2 DEF Sent
      <3> QED BY <3>1, <3>2
    <2>5. ~(pc' = "respond" /\ Keyed)
      BY <1>3, KeyedReads, Onward
    <2> QED BY <1>1, <1>3, <1>6, <2>1, <2>2, <2>3, <2>4, <2>5 DEF MadeAs, Holds
  <1> QED BY <1>7, <1>10, <1>11, <1>12

LEMMA CreateUnheardDone == DoneInv /\ CreateUnheard => Followed'
  <1> SUFFICES ASSUME DoneInv, CreateUnheard PROVE Followed'
    OBVIOUS
  <1> USE DEF DoneInv, IInv, Followed
  <1>1. PICK i \in Ids :
          /\ CarriedOut(i)
          /\ \/ UNCHANGED <<state, pc, id, saved, left, verdict>>
             \/ Return(Tainted(IF profile.track = "asked" THEN i ELSE 0),
                       "none")
    BY DEF CreateUnheard
  <1>2. /\ pc = "create" /\ Failing /\ UNCHANGED <<profile, want>>
        /\ want \in Configs /\ state.id = 0 /\ verdict # "ok"
    BY DEF CreateUnheard, Phase, TypeOK, Making, VerdictFits
  <1>3. ~Undisturbed'
    BY <1>2, Disturbed
  <1>4. ~profile.wait => \A k \in Ids : obj'[k].life # "none" => obj'[k].ready
    BY <1>1, <1>2, CarriedUsable
  <1>5. CASE UNCHANGED <<state, pc, id, saved, left, verdict>>
    <2>1. VerdictFits' /\ NothingHidden' /\ BlindKept'
      BY <1>2, <1>3, <1>5 DEF VerdictFits, NothingHidden, BlindKept
    <2>2. Usable'
      BY <1>2, <1>4, <1>5 DEF Usable, Finished, Exists
    <2>3. ReadFits' /\ MadeAs' /\ PatchFits' /\ OkMeansDone'
      BY <1>2, <1>5 DEF ReadFits, MadeAs, Making, PatchFits, OkMeansDone
    <2> QED BY <2>1, <2>2, <2>3
  <1>6. CASE Return(Tainted(IF profile.track = "asked" THEN i ELSE 0), "none")
    <2>1. pc' = "idle" /\ verdict' = "none"
      BY <1>6 DEF Return
    <2>2. state'.id = 0 \/ state'.tainted
      BY <1>6, Data DEF Return, Tainted
    <2>3. Usable'
      BY <1>2, <1>4, <2>1, <2>2 DEF Usable, Finished, Exists
    <2> QED BY <1>3, <2>1, <2>3, GaveUpDisturbed
  <1> QED BY <1>1, <1>5, <1>6

LEMMA CreateDoubtedDone == DoneInv /\ CreateDoubted => Followed'
  <1> SUFFICES ASSUME DoneInv, CreateDoubted PROVE Followed'
    OBVIOUS
  <1>1. PICK i \in Ids : Return(Tainted(i), "none")
    BY DEF CreateDoubted, Free
  <1>2. Failing /\ UNCHANGED <<profile, obj>>
    BY DEF CreateDoubted
  <1>3. ~Undisturbed'
    BY <1>2, Disturbed DEF DoneInv, IInv
  <1>4. pc' = "idle" /\ verdict' = "none" /\ (state'.id = 0 \/ state'.tainted)
    BY <1>1, Data DEF Return, Tainted
  <1>5. Usable'
    BY <1>2, <1>4 DEF DoneInv, Followed, Usable, Finished, Exists
  <1> QED BY <1>3, <1>4, <1>5, GaveUpDisturbed

\* What the steps of Create that only go on have in common.
LEMMA GoingOnDone ==
  ASSUME DoneInv, pc \in {"locate", "deploy", "wait", "stage"},
         NEW p \in {AfterLocate, AfterDeploy, AfterWait, AfterStage}, GoOn(p),
         UNCHANGED <<profile, forgot, remembered, want, fails, drifts, edits>>,
         \A k \in Ids : obj'[k].life = obj[k].life /\ obj'[k].ready = obj[k].ready,
         pc' \in Finished /\ Exists(id) => obj[id].ready,
         verdict = "running" /\ Exists(id) /\ (~Keyed \/ Undisturbed)
         => IF pc' \in {"readBack", "respond"} THEN Holds(id, want)'
            ELSE obj'[id].config = Body /\ ~obj'[id].due
  PROVE  Followed'
  <1> USE DEF DoneInv, IInv, Followed
  <1>1. /\ id \in Ids /\ state.id = 0 /\ want \in Configs
        /\ UNCHANGED <<state, id, left, verdict>> /\ pc' = p
    BY DEF Phase, Making, TypeOK, GoOn
  <1>2. pc' \in {"deploy", "wait", "stage", "readBack", "respond"}
    BY <1>1, Onward
  <1>3. VerdictFits' /\ BlindKept' /\ ReadFits' /\ PatchFits' /\ OkMeansDone'
    BY <1>1, <1>2
    DEF VerdictFits, Undisturbed, BlindKept, ReadFits, PatchFits, OkMeansDone
  <1>4. NothingHidden'
    BY <1>1 DEF NothingHidden, Undisturbed, Exists, Tracked
  <1>5. Usable'
    BY <1>1 DEF Usable, Exists
  <1>6. MadeAs'
    <2>1. /\ Body' = Body /\ Keyed' = Keyed /\ Undisturbed' = Undisturbed
          /\ Exists(id)' = Exists(id)
      BY <1>1 DEF Body, Keyed, Undisturbed, Exists
    <2>2. ~(pc' = "respond" /\ Keyed)
      BY <1>1, KeyedReads, Onward
    <2>3. verdict = "running" /\ Exists(id) /\ (~Keyed \/ Undisturbed)
          => /\ Holds(id, Sent)'
             /\ pc' \notin {"readBack", "respond"} => ~obj'[id].due
      BY <1>1, <2>1 DEF Sent, Holds
    <2> QED BY <1>1, <2>1, <2>2, <2>3 DEF MadeAs, Making
  <1> QED BY <1>3, <1>4, <1>5, <1>6

\* Before the stage, the object of a running Create is what its body said.
LEMMA MadeSoFar ==
  ASSUME DoneInv, pc \in {"locate", "deploy", "wait", "stage"}, id \in Ids,
         want \in Configs, verdict = "running", Exists(id),
         ~Keyed \/ Undisturbed
  PROVE  obj[id].config = Body /\ ~obj[id].due
  <1> USE DEF DoneInv, IInv, Followed
  <1>1. Holds(id, Body) /\ ~obj[id].due
    BY DEF MadeAs, Making, Sent
  <1>2. Body \in Configs
    BY Data DEF Body
  <1> QED BY <1>1, <1>2, HoldsExactly DEF OnItsWay

LEMMA LocateDone == DoneInv /\ Locate => Followed'
  <1> SUFFICES ASSUME DoneInv, Locate PROVE Followed'
    OBVIOUS
  <1> USE DEF DoneInv, IInv, Followed
  <1>1. /\ pc = "locate" /\ GoOn(AfterLocate) /\ pc' = AfterLocate
        /\ UNCHANGED <<profile, forgot, remembered, obj, want, fails, drifts,
                       edits>>
        /\ id \in Ids /\ want \in Configs
    BY DEF Locate, GoOn, Phase, Making, TypeOK
  <1>2. pc' \in Finished /\ Exists(id) => obj[id].ready
    BY <1>1, Onward DEF Finished, Usable
  <1>3. pc' \in {"readBack", "respond"} => Body = want
    BY <1>1, Onward, SentAll
  <1>4. verdict = "running" /\ Exists(id) /\ (~Keyed \/ Undisturbed)
        => obj[id].config = Body /\ ~obj[id].due
    BY <1>1, MadeSoFar
  <1>5. verdict = "running" /\ Exists(id) /\ (~Keyed \/ Undisturbed)
        => IF pc' \in {"readBack", "respond"} THEN Holds(id, want)'
           ELSE obj'[id].config = Body /\ ~obj'[id].due
    BY <1>1, <1>2, <1>3, <1>4 DEF GoOn, Holds
  <1> QED BY <1>1, <1>2, <1>3, <1>5, GoingOnDone

LEMMA DeployDone == DoneInv /\ Deploy => Followed'
  <1> SUFFICES ASSUME DoneInv, Deploy PROVE Followed'
    OBVIOUS
  <1> USE DEF DoneInv, IInv, Followed
  <1>1. /\ pc = "deploy" /\ GoOn(AfterDeploy) /\ pc' = AfterDeploy
        /\ UNCHANGED <<profile, forgot, remembered, want, fails, drifts, edits>>
        /\ id \in Ids /\ want \in Configs
        /\ obj' = [obj EXCEPT ![id].started = TRUE]
    BY DEF Deploy, GoOn, Phase, Making, TypeOK
  <1>2. /\ \A k \in Ids : /\ obj'[k].life = obj[k].life
                          /\ obj'[k].ready = obj[k].ready
        /\ obj'[id].config = obj[id].config /\ obj'[id].due = obj[id].due
    BY <1>1 DEF TypeOK, Objects
  <1>3. pc' \in Finished /\ Exists(id) => obj[id].ready
    BY <1>1, Onward DEF Finished, Usable
  <1>4. pc' \in {"readBack", "respond"} => Body = want
    BY <1>1, Onward, SentAll
  <1>5. verdict = "running" /\ Exists(id) /\ (~Keyed \/ Undisturbed)
        => obj[id].config = Body /\ ~obj[id].due
    BY <1>1, MadeSoFar
  <1>6. verdict = "running" /\ Exists(id) /\ (~Keyed \/ Undisturbed)
        => IF pc' \in {"readBack", "respond"} THEN Holds(id, want)'
           ELSE obj'[id].config = Body /\ ~obj'[id].due
    BY <1>1, <1>2, <1>3, <1>4, <1>5 DEF GoOn, Holds
  <1> QED BY <1>1, <1>2, <1>3, <1>4, <1>6, GoingOnDone

LEMMA WaitDone == DoneInv /\ Wait => Followed'
  <1> SUFFICES ASSUME DoneInv, Wait PROVE Followed'
    OBVIOUS
  <1> USE DEF DoneInv, IInv, Followed
  <1>1. /\ pc = "wait" /\ GoOn(AfterWait) /\ pc' = AfterWait
        /\ UNCHANGED <<profile, forgot, remembered, obj, want, fails, drifts,
                       edits>>
        /\ id \in Ids /\ want \in Configs /\ obj[id].ready
    BY DEF Wait, GoOn, Phase, Making, TypeOK
  <1>2. pc' \in {"readBack", "respond"} => Body = want
    BY <1>1, Onward, SentAll
  <1>3. verdict = "running" /\ Exists(id) /\ (~Keyed \/ Undisturbed)
        => obj[id].config = Body /\ ~obj[id].due
    BY <1>1, MadeSoFar
  <1>4. verdict = "running" /\ Exists(id) /\ (~Keyed \/ Undisturbed)
        => IF pc' \in {"readBack", "respond"} THEN Holds(id, want)'
           ELSE obj'[id].config = Body /\ ~obj'[id].due
    BY <1>1, <1>2, <1>3 DEF GoOn, Holds
  <1> QED BY <1>1, <1>2, <1>4, GoingOnDone

\* What a request for some parts leaves in the object.
LEMMA ChangedAs ==
  ASSUME TypeOK, want \in Configs, NEW i \in Ids, NEW ps, Changing(i, ps)
  PROVE  /\ \A k \in Ids : /\ obj'[k].life = obj[k].life
                           /\ obj'[k].ready = obj[k].ready
         /\ \A p \in Parts :
               IF p \in ps
                 THEN \/ obj'[i].config[p] = want[p]
                      \/ p = "extra" /\ profile.later /\ obj'[i].due
                 ELSE /\ obj'[i].config[p] = obj[i].config[p]
                      /\ p = "extra" => obj'[i].due = obj[i].due
  <1>1. obj[i] \in Objects
    BY DEF TypeOK
  <1>2. PICK c : c = [p \in Parts |->
                        IF p \in ps /\ ~(p = "extra" /\ profile.later)
                          THEN want[p] ELSE obj[i].config[p]]
    OBVIOUS
  <1>3. PICK d : d = IF profile.later /\ "extra" \in ps
                       THEN obj[i].config["extra"] # want["extra"]
                     ELSE obj[i].due
    OBVIOUS
  <1>4. obj' = [obj EXCEPT ![i] = [obj[i] EXCEPT !.config = c, !.due = d]]
    BY <1>2, <1>3 DEF Changing, Told
  <1>5. /\ [obj[i] EXCEPT !.config = c, !.due = d].life = obj[i].life
        /\ [obj[i] EXCEPT !.config = c, !.due = d].ready = obj[i].ready
        /\ [obj[i] EXCEPT !.config = c, !.due = d].config = c
        /\ [obj[i] EXCEPT !.config = c, !.due = d].due = d
    BY <1>1 DEF Objects
  <1>6. /\ \A k \in Ids : /\ obj'[k].life = obj[k].life
                          /\ obj'[k].ready = obj[k].ready
        /\ obj'[i].config = c /\ obj'[i].due = d
    BY <1>4, <1>5 DEF TypeOK
  <1>7. ASSUME NEW p \in Parts
        PROVE  IF p \in ps
                 THEN c[p] = want[p] \/ (p = "extra" /\ profile.later /\ d)
                 ELSE c[p] = obj[i].config[p] /\ (p = "extra" => d = obj[i].due)
    BY <1>2, <1>3, <1>7
  <1> QED BY <1>6, <1>7

LEMMA StageDone == DoneInv /\ Stage => Followed'
  <1> SUFFICES ASSUME DoneInv, Stage PROVE Followed'
    OBVIOUS
  <1> USE DEF DoneInv, IInv, Followed
  <1>1. /\ pc = "stage" /\ GoOn(AfterStage) /\ pc' \in {"readBack", "respond"}
        /\ UNCHANGED <<profile, forgot, remembered, want, fails, drifts, edits>>
        /\ id \in Ids /\ want \in Configs /\ Changing(id, {"extra"})
    BY Onward DEF Stage, GoOn, Phase, Making, TypeOK
  <1>2. /\ \A k \in Ids : /\ obj'[k].life = obj[k].life
                          /\ obj'[k].ready = obj[k].ready
        /\ obj'[id].config["main"] = obj[id].config["main"]
        /\ \/ obj'[id].config["extra"] = want["extra"]
           \/ profile.later /\ obj'[id].due
    BY <1>1, ChangedAs DEF Parts
  <1>3. Exists(id) => obj[id].ready
    BY <1>1 DEF Finished, Usable
  <1>4. Body["main"] = want["main"]
    BY <1>1 DEF Body, Configs, Parts
  <1>5. verdict = "running" /\ Exists(id) /\ (~Keyed \/ Undisturbed)
        => Holds(id, want)'
    <2> SUFFICES ASSUME verdict = "running", Exists(id), ~Keyed \/ Undisturbed
                 PROVE  Holds(id, want)'
      OBVIOUS
    <2>1. obj[id].config = Body
      BY <1>1, MadeSoFar
    <2>2. id' = id /\ want' = want /\ profile' = profile
      BY <1>1 DEF GoOn
    <2> QED BY <1>2, <1>4, <2>1, <2>2 DEF Holds, OnItsWay, Parts
  <1> QED BY <1>1, <1>2, <1>3, <1>5, GoingOnDone

\* What a Create hands over as configured is so, but for a remembered answer.
LEMMA HandsOverTruth ==
  ASSUME DoneInv, pc \in {"readBack", "respond"}, verdict = "running", Plain,
         pc = "readBack" =>
            Exists(id) /\ Trusting(Read(id, want), TRUE) = want
  PROVE  \/ Exists(id) /\ Holds(id, want) /\ obj[id].ready
         \/ /\ Keyed /\ profile.read = "may" /\ id = remembered[want]
            /\ ~Exists(id) \/ fails > 0
  <1> USE DEF DoneInv, IInv, Followed
  <1>1. id \in Ids /\ want \in Configs
    BY DEF Phase, Making, TypeOK
  <1>2. Exists(id) => obj[id].ready
    BY DEF Usable, Finished
  <1>3. Exists(id) /\ (~Keyed \/ Undisturbed) => Holds(id, want)
    BY DEF MadeAs, Making, Sent
  <1>4. CASE ~Keyed
    BY <1>2, <1>3, <1>4 DEF MadeAs, Making
  <1>5. CASE Keyed /\ pc = "readBack"
    <2>1. CASE Undisturbed
      BY <1>2, <1>3, <1>5, <2>1
    <2>2. CASE ~Undisturbed
      <3>1. ~profile.blind
        BY <2>2 DEF Plain, Undisturbed
      <3>2. obj[id].config \in Configs
        BY <1>1 DEF TypeOK, Objects
      <3>3. ~profile.later
        BY <1>5, ProfilesAssumption DEF TypeOK, Keyed
      <3>4. Trusting(Read(id, want), TRUE) = obj[id].config
        BY <3>1, <3>2, <3>3 DEF Read, Trusting, Configs
      <3> QED BY <1>1, <1>2, <1>5, <3>4, HoldsExactly
    <2> QED BY <2>1, <2>2
  <1>6. CASE Keyed /\ pc = "respond"
    <2>1. Body = want
      BY <1>1, <1>6, KeyedReads
    <2> QED BY <1>6, <2>1 DEF MadeAs, Making
  <1> QED BY <1>4, <1>5, <1>6

LEMMA HandedOverDone ==
  ASSUME DoneInv, pc \in {"readBack", "respond"}, NEW c \in Configs,
         HandOver(c),
         pc = "readBack" => Exists(id) /\ c = Trusting(Read(id, want), TRUE),
         UNCHANGED <<profile, forgot, remembered, obj, want, fails, drifts,
                     edits>>
  PROVE  Followed'
  <1> USE DEF DoneInv, IInv, Followed
  <1>1. id \in Ids /\ id # 0 /\ state.id = 0 /\ want \in Configs /\ want # Absent
    BY DEF Phase, Making, TypeOK
  <1>2. PICK v : v = IF c = want THEN Ok ELSE "none"
    OBVIOUS
  <1>3. /\ state'.id = id /\ state'.config = c /\ (state'.tainted <=> c # want)
        /\ pc' = "idle" /\ id' = 0 /\ verdict' = v
    BY <1>2 DEF HandOver, Return
  <1>4. /\ v \in {"none", "ok"}
        /\ v = "ok" => c = want /\ verdict = "running"
    BY <1>2 DEF Ok, TypeOK, VerdictFits
  <1>5. VerdictFits' /\ ReadFits' /\ PatchFits' /\ MadeAs'
    BY <1>1, <1>3, <1>4 DEF VerdictFits, ReadFits, PatchFits, MadeAs, Making
  <1>6. NothingHidden'
    BY <1>1, <1>3 DEF NothingHidden, Undisturbed, Exists, Tracked
  <1>7. Usable'
    BY <1>1, <1>3 DEF Usable, Finished, Exists
  <1>8. BlindKept'
    <2> SUFFICES ASSUME Undisturbed, profile.blind, Exists(id), c = want
                 PROVE  c["extra"] = obj[id].config["extra"]
      BY <1>3 DEF BlindKept, Undisturbed, Exists
    <2>1. ~profile.later
      BY ProfilesAssumption DEF TypeOK
    <2>2. Holds(id, want)
      BY <2>1 DEF VerdictFits, MadeAs, Making, Sent
    <2> QED BY <1>1, <2>1, <2>2, HoldsExactly DEF OnItsWay
  <1>9. OkMeansDone'
    <2> SUFFICES ASSUME v = "ok", Plain
                 PROVE  \/ Exists(id) /\ Holds(id, want) /\ obj[id].ready
                        \/ /\ Keyed /\ profile.read = "may"
                           /\ id = remembered[want]
                           /\ ~Exists(id) \/ fails > 0
      BY <1>1, <1>3, <1>4
      DEF OkMeansDone, Plain, Revenant, Keyed, Exists, Holds, OnItsWay
    <2> QED BY <1>4, HandsOverTruth
  <1> QED BY <1>5, <1>6, <1>7, <1>8, <1>9

LEMMA ReadBackDone == DoneInv /\ ReadBack => Followed'
  <1> SUFFICES ASSUME DoneInv, ReadBack PROVE Followed'
    OBVIOUS
  <1>1. pc = "readBack" /\ want \in Configs /\ id \in Ids /\ Exists(id)
    BY DEF ReadBack, DoneInv, IInv, Phase, TypeOK, Making
  <1>2. Trusting(Read(id, want), TRUE) \in Configs
    BY <1>1, ReadTyped, TrustingTyped DEF DoneInv, IInv, TypeOK
  <1> QED BY <1>1, <1>2, HandedOverDone DEF ReadBack

LEMMA RespondDone == DoneInv /\ Respond => Followed'
  <1> SUFFICES ASSUME DoneInv, Respond PROVE Followed'
    OBVIOUS
  <1>1. pc = "respond" /\ want \in Configs
    BY DEF Respond, DoneInv, IInv, Phase, TypeOK, Making
  <1> QED BY <1>1, HandedOverDone DEF Respond

\* A Create that fails leaves a tainted resource, or none.
LEMMA FailedCreateDone ==
  ASSUME DoneInv, FailCreate, UNCHANGED profile, pc # "deleteWait",
         \A k \in Ids : obj'[k].life = obj[k].life /\ obj'[k].ready = obj[k].ready,
         \/ Failing
         \/ state.id = 0 /\ ~Live(id) /\ id \in Ids /\ UNCHANGED <<fails, drifts>>
  PROVE  Followed'
  <1> USE DEF DoneInv, IInv, Followed
  <1>1. pc' = "idle" /\ verdict' = "none" /\ (state'.id = 0 \/ state'.tainted)
    BY Data DEF FailCreate, Return, Tainted
  <1>2. Usable'
    BY <1>1 DEF Usable, Finished, Exists
  <1>3. CASE Failing
    BY <1>1, <1>2, <1>3, Disturbed, GaveUpDisturbed
  <1>4. CASE /\ state.id = 0 /\ ~Live(id) /\ id \in Ids
             /\ UNCHANGED <<fails, drifts>>
    <2>1. BlindKept'
      BY <1>1 DEF BlindKept
    <2>2. NothingHidden'
      <3> SUFFICES ASSUME Undisturbed, NEW k \in Ids PROVE obj[k].life = "none"
        BY <1>4 DEF NothingHidden, Undisturbed, Exists
      <3>1. ~Exists(id)
        BY <1>4, NoneDying
      <3> QED BY <1>4, <3>1 DEF NothingHidden, Exists, Tracked, Ids
    <2> QED BY <1>1, <1>2, <2>1, <2>2, GaveUp
  <1> QED BY <1>3, <1>4

LEMMA CreateFailsDone == DoneInv /\ CreateFails => Followed'
  <1> SUFFICES ASSUME DoneInv, CreateFails PROVE Followed'
    OBVIOUS
  <1>1. /\ FailCreate /\ UNCHANGED <<profile, obj, drifts>>
        /\ pc \in {"create", "locate", "deploy", "wait", "stage"}
    BY DEF CreateFails
  <1>2. \/ Failing
        \/ pc \in Making /\ ~Live(id) /\ UNCHANGED fails
    BY DEF CreateFails, Making, Live, Exists
  <1>3. pc \in Making => state.id = 0 /\ id \in Ids
    BY DEF DoneInv, IInv, Phase, TypeOK
  <1> QED BY <1>1, <1>2, <1>3, FailedCreateDone

LEMMA CreateLostDone == DoneInv /\ CreateLost => Followed'
  <1> SUFFICES ASSUME DoneInv, CreateLost PROVE Followed'
    OBVIOUS
  <1>1. /\ FailCreate /\ Failing /\ UNCHANGED profile
        /\ pc \in {"deploy", "stage"}
    BY DEF CreateLost
  <1>2. want \in Configs /\ id \in Ids
    BY <1>1 DEF DoneInv, IInv, Phase, TypeOK, Making
  <1>3. \A k \in Ids : obj'[k].life = obj[k].life /\ obj'[k].ready = obj[k].ready
    <2>1. CASE pc = "deploy"
      <3>1. obj' = [obj EXCEPT ![id].started = TRUE]
        BY <2>1 DEF CreateLost
      <3> QED BY <3>1 DEF DoneInv, IInv, TypeOK, Objects
    <2>2. CASE pc = "stage"
      BY <1>2, <2>2, ChangedAs DEF CreateLost, DoneInv, IInv
    <2> QED BY <1>1, <2>1, <2>2
  <1> QED BY <1>1, <1>3, FailedCreateDone

LEMMA ReadBackFailsDone == DoneInv /\ ReadBackFails => Followed'
  <1> SUFFICES ASSUME DoneInv, ReadBackFails PROVE Followed'
    OBVIOUS
  <1> USE DEF DoneInv, IInv, Followed
  <1>1. /\ pc = "readBack" /\ UNCHANGED <<profile, remembered, obj, want, drifts>>
        /\ Failing \/ (~Exists(id) /\ UNCHANGED fails)
        /\ state.id = 0 /\ id \in Ids /\ verdict # "ok"
    BY DEF ReadBackFails, Phase, TypeOK, Making, VerdictFits
  <1>2. CASE profile.read = "must"
    <2>1. FailCreate
      BY <1>2 DEF ReadBackFails
    <2> QED BY <1>1, <2>1, FailedCreateDone DEF Live, Exists
  <1>3. CASE profile.read # "must"
    <2>1. pc' = "respond" /\ UNCHANGED <<forgot, state, id, saved, left, verdict>>
      BY <1>3 DEF ReadBackFails
    <2>2. Undisturbed' => Undisturbed
      BY <1>1, StillPlain
    <2>3. VerdictFits' /\ NothingHidden' /\ Usable'
      BY <1>1, <2>1, <2>2
      DEF VerdictFits, NothingHidden, Exists, Tracked, Usable, Finished
    <2>4. BlindKept' /\ ReadFits' /\ PatchFits' /\ OkMeansDone'
      BY <1>1, <2>1 DEF BlindKept, ReadFits, PatchFits, OkMeansDone
    <2>5. MadeAs'
      <3>1. Body' = Body /\ Keyed' = Keyed /\ Exists(id)' = Exists(id)
        BY <1>1, <2>1 DEF Body, Keyed, Exists
      <3>2. Sent' = want /\ Sent = want
        BY <1>1, <2>1 DEF Sent
      <3>3. Keyed => profile.read = "may" /\ (~Exists(id) \/ fails' > 0)
        BY <1>1, <1>3, KeyedReads, Disturbed
      <3>4. Holds(id, want)' <=> Holds(id, want)
        BY <1>1, <2>1 DEF Holds, OnItsWay
      <3> QED BY <1>1, <2>1, <2>2, <3>1, <3>2, <3>3, <3>4 DEF MadeAs, Making
    <2> QED BY <2>3, <2>4, <2>5
  <1> QED BY <1>2, <1>3

-----------------------------------------------------------------------------
(* Update.                                                                 *)

\* A request of an update went through, and the update goes on.
LEMMA SendingOn ==
  ASSUME DoneInv, pc = "patch", NEW ps, Changing(state.id, ps),
         left' = left \ ps \/ UNCHANGED left,
         pc' = "patch" \/ (pc' = "patchRead" /\ left' = {}),
         Failing \/ UNCHANGED fails,
         UNCHANGED <<profile, forgot, remembered, state, want, id, saved,
                     verdict, drifts, edits>>
  PROVE  Followed'
  <1> USE DEF DoneInv, IInv, Followed
  <1>1. /\ want \in Configs /\ state.id \in Ids /\ id = 0 /\ ~state.tainted
        /\ verdict # "ok"
    BY DEF Phase, Making, TypeOK, States, PatchFits, VerdictFits
  <1>2. /\ \A k \in Ids : obj'[k].life = obj[k].life /\ obj'[k].ready = obj[k].ready
        /\ \A p \in Parts :
              IF p \in ps
                THEN \/ obj'[state.id].config[p] = want[p]
                     \/ p = "extra" /\ profile.later /\ obj'[state.id].due
                ELSE /\ obj'[state.id].config[p] = obj[state.id].config[p]
                     /\ p = "extra" => obj'[state.id].due = obj[state.id].due
    BY <1>1, ChangedAs
  <1>3. (Undisturbed' => Undisturbed) /\ (Plain' => Plain)
    BY StillPlain
  <1>4. VerdictFits' /\ OkMeansDone' /\ BlindKept' /\ ReadFits' /\ MadeAs'
    BY <1>1, <1>3
    DEF VerdictFits, OkMeansDone, BlindKept, ReadFits, MadeAs, Making
  <1>5. NothingHidden' /\ Usable'
    BY <1>1, <1>2, <1>3
    DEF NothingHidden, Exists, Tracked, Usable, Finished
  <1>6. verdict = "running" /\ Plain =>
           \A p \in Parts \ left' :
              \/ obj'[state.id].config[p] = want[p]
              \/ p = "extra" /\ profile.later /\ obj'[state.id].due
    BY <1>2 DEF PatchFits, OnItsWay
  <1>7. PatchFits'
    BY <1>1, <1>2, <1>3, <1>6 DEF PatchFits, Exists, OnItsWay
  <1> QED BY <1>4, <1>5, <1>7

LEMMA PatchDone == DoneInv /\ Patch => Followed'
  <1> SUFFICES ASSUME DoneInv, Patch PROVE Followed'
    OBVIOUS
  <1>1. PICK ps \in Batches : Changing(state.id, ps) /\ left' = left \ ps
    BY DEF Patch
  <1>2. pc = "patch" /\ (pc' = "patch" \/ (pc' = "patchRead" /\ left' = {}))
    BY DEF Patch
  <1> QED BY <1>1, <1>2, SendingOn DEF Patch

\* An operation on a tracked object fails: what is left is that object.
LEMMA FailedOnObject ==
  ASSUME DoneInv, pc \notin Making, pc # "deleteWait" \/ Failing,
         pc' = "idle", verdict' = "none",
         id' = 0, state'.id = state.id, state'.tainted = state.tainted,
         \A k \in Ids : obj'[k].life # "none" =>
            obj[k].life # "none" /\ obj'[k].ready = obj[k].ready,
         \/ Failing
         \/ ~Live(state.id) /\ state.id \in Ids /\ UNCHANGED <<obj, fails, drifts>>,
         UNCHANGED profile
  PROVE  Followed'
  <1> USE DEF DoneInv, IInv, Followed
  <1>1. id = 0 /\ (state.id # 0 => state.id \in Ids)
    BY DEF Phase, TypeOK, States
  <1>2. Usable'
    BY <1>1 DEF Usable, Finished, Exists
  <1>3. CASE Failing
    BY <1>2, <1>3, Disturbed, GaveUpDisturbed
  <1>4. CASE /\ ~Failing /\ ~Live(state.id) /\ state.id \in Ids
             /\ UNCHANGED <<obj, fails, drifts>>
    <2>1. Undisturbed' = Undisturbed
      BY <1>4 DEF Undisturbed
    <2>2. Undisturbed => ~Exists(state.id)
      BY <1>4, NoneDying
    <2>3. NothingHidden'
      BY <1>1, <1>4, <2>1 DEF NothingHidden, Exists, Tracked
    <2>4. BlindKept'
      BY <1>4, <2>1, <2>2 DEF BlindKept, Exists
    <2> QED BY <1>2, <2>3, <2>4, GaveUp
  <1> QED BY <1>3, <1>4

\* A failed sequence of requests keeps the object it was about.
LEMMA FailedPatchKeeps ==
  ASSUME TypeOK, FailPatch
  PROVE  /\ pc' = "idle" /\ verdict' = "none" /\ id' = 0
         /\ state'.id = state.id /\ state'.tainted = state.tainted
  <1>1. PICK c : Return([state EXCEPT !.config = c], "none")
    BY DEF FailPatch
  <1> QED BY <1>1 DEF Return, TypeOK

LEMMA PatchFailsDone == DoneInv /\ PatchFails => Followed'
  <1> SUFFICES ASSUME DoneInv, PatchFails PROVE Followed'
    OBVIOUS
  <1>1. /\ pc = "patch" /\ FailPatch /\ UNCHANGED <<profile, obj, drifts>>
        /\ Failing \/ (~Live(state.id) /\ UNCHANGED fails)
        /\ state.id \in Ids
    BY DEF PatchFails, DoneInv, IInv, Phase, TypeOK, States
  <1>2. pc \notin Making /\ pc # "deleteWait"
    BY <1>1 DEF Making
  <1> QED BY <1>1, <1>2, FailedPatchKeeps, FailedOnObject DEF DoneInv, IInv

LEMMA PatchLostDone == DoneInv /\ PatchLost => Followed'
  <1> SUFFICES ASSUME DoneInv, PatchLost PROVE Followed'
    OBVIOUS
  <1>1. PICK ps \in Batches : Changing(state.id, ps)
    BY DEF PatchLost
  <1>2. /\ pc = "patch" /\ Failing /\ want \in Configs /\ state.id \in Ids
        /\ UNCHANGED <<profile, forgot, remembered, want, drifts, edits>>
    BY DEF PatchLost, DoneInv, IInv, Phase, TypeOK, States
  <1>3. CASE FailPatch
    <2>1. \A k \in Ids : /\ obj'[k].life = obj[k].life
                         /\ obj'[k].ready = obj[k].ready
      BY <1>1, <1>2, ChangedAs DEF DoneInv, IInv
    <2>2. pc \notin Making /\ pc # "deleteWait"
      BY <1>2 DEF Making
    <2> QED BY <1>2, <1>3, <2>1, <2>2, FailedPatchKeeps, FailedOnObject
        DEF DoneInv, IInv
  <1>4. CASE UNCHANGED <<state, pc, id, saved, left, verdict>>
    BY <1>1, <1>2, <1>4, SendingOn
  <1> QED BY <1>3, <1>4 DEF PatchLost

LEMMA PatchReadDone == DoneInv /\ PatchRead => Followed'
  <1> SUFFICES ASSUME DoneInv, PatchRead PROVE Followed'
    OBVIOUS
  <1> USE DEF DoneInv, IInv, Followed
  <1>1. PICK c : c = IF profile.reread
                       THEN Trusting(Read(state.id, want), "extra" \in Changed)
                     ELSE want
    OBVIOUS
  <1>2. PICK v : v = IF c = want THEN Ok ELSE "none"
    OBVIOUS
  <1>3. /\ pc = "patchRead" /\ Return([state EXCEPT !.config = c], v)
        /\ UNCHANGED <<profile, forgot, remembered, obj, want, fails, drifts,
                       edits>>
    BY <1>1, <1>2 DEF PatchRead
  <1>4. /\ want \in Configs /\ want # Absent /\ state.id \in Ids /\ state.id # 0
        /\ id = 0 /\ ~state.tainted /\ left = {}
    BY <1>3 DEF Phase, TypeOK, States, Making, PatchFits
  <1>5. /\ state'.id = state.id /\ state'.config = c
        /\ state'.tainted = state.tainted
        /\ pc' = "idle" /\ id' = 0 /\ verdict' = v
    BY <1>3 DEF Return, TypeOK
  <1>6. /\ v \in {"none", "ok"}
        /\ v = "ok" => c = want /\ verdict = "running"
    BY <1>2, <1>3 DEF Ok, TypeOK, VerdictFits
  <1>7. verdict = "running" /\ Plain =>
           Exists(state.id) /\ Holds(state.id, want)
    BY <1>3, <1>4 DEF PatchFits, Holds
  <1>8. VerdictFits' /\ ReadFits' /\ PatchFits' /\ MadeAs'
    BY <1>4, <1>5, <1>6 DEF VerdictFits, ReadFits, PatchFits, MadeAs, Making
  <1>9. NothingHidden' /\ Usable'
    BY <1>3, <1>4, <1>5
    DEF NothingHidden, Undisturbed, Exists, Tracked, Usable, Finished
  <1>10. BlindKept'
    <2> SUFFICES ASSUME Undisturbed, profile.blind
                 PROVE  c["extra"] = obj[state.id].config["extra"]
      BY <1>3, <1>5 DEF BlindKept, Undisturbed
    <2>1. ~profile.later
      BY ProfilesAssumption DEF TypeOK
    <2>2. verdict = "running" /\ Plain
      BY <1>3, <2>1 DEF VerdictFits, Plain, Undisturbed
    <2>3. c["extra"] = want["extra"]
      BY <1>1, <2>1 DEF Read, Trusting, Parts
    <2>4. obj[state.id].config = want
      BY <1>4, <1>7, <2>1, <2>2, HoldsExactly DEF OnItsWay
    <2> QED BY <2>3, <2>4
  <1>11. OkMeansDone'
    <2>1. verdict = "running" => obj[state.id].ready \/ ~Exists(state.id)
      BY <1>4 DEF Usable
    <2> QED BY <1>3, <1>4, <1>5, <1>6, <1>7, <2>1
        DEF OkMeansDone, Plain, Exists, Holds, OnItsWay
  <1> QED BY <1>8, <1>9, <1>10, <1>11

\* A change that fails leaves the state as it was.
LEMMA FailedChangeDone ==
  ASSUME DoneInv, FailChange, pc \in {"patchRead", "delete", "deleteWait"},
         pc # "deleteWait" \/ Failing,
         \A k \in Ids : obj'[k].life # "none" =>
            obj[k].life # "none" /\ obj'[k].ready = obj[k].ready,
         Failing \/ (~Exists(state.id) /\ UNCHANGED <<obj, fails>>),
         UNCHANGED <<profile, drifts>>
  PROVE  Followed'
  <1>1. state.id \in Ids /\ pc \notin Making
    BY DEF DoneInv, IInv, Phase, TypeOK, States, Making
  <1>2. pc' = "idle" /\ verdict' = "none" /\ id' = 0 /\ state' = state
    BY DEF FailChange, Return
  <1>3. Failing \/ (~Live(state.id) /\ UNCHANGED <<obj, fails>>)
    BY DEF Live, Exists
  <1> QED BY <1>1, <1>2, <1>3, FailedOnObject

LEMMA PatchReadFailsDone == DoneInv /\ PatchReadFails => Followed'
  BY FailedChangeDone DEF PatchReadFails

-----------------------------------------------------------------------------
(* Delete.                                                                 *)

\* What a removal leaves of the object.
LEMMA RemovedAs ==
  ASSUME TypeOK, NEW i \in Ids, Exists(i), Removing(i)
  PROVE  /\ \A k \in Ids : obj'[k].life # "none" =>
               /\ obj[k].life # "none" /\ obj'[k].ready = obj[k].ready
               /\ obj'[k].config = obj[k].config
         /\ \A k \in Ids \ {i} : obj'[k] = obj[k]
         /\ ~profile.gone => obj'[i].life = "none"
  <1>1. obj[i] \in Objects
    BY DEF TypeOK
  <1>2. CASE profile.gone
    <2>1. obj' = [obj EXCEPT ![i] = [obj[i] EXCEPT !.life = "dying"]]
      BY <1>2 DEF Removing, TypeOK
    <2>2. /\ [obj[i] EXCEPT !.life = "dying"].ready = obj[i].ready
          /\ [obj[i] EXCEPT !.life = "dying"].config = obj[i].config
      BY <1>1 DEF Objects
    <2> QED BY <1>2, <2>1, <2>2 DEF TypeOK, Exists
  <1>3. CASE ~profile.gone
    <2>1. obj' = [obj EXCEPT ![i] = Blank] /\ Blank.life = "none"
      BY <1>3 DEF Removing, Blank
    <2> QED BY <1>3, <2>1 DEF TypeOK
  <1> QED BY <1>2, <1>3

LEMMA DeletedDone ==
  ASSUME DoneInv, IInv', Deleted, pc \in {"delete", "deleteWait"},
         \A k \in Ids \ {state.id} : obj'[k] = obj[k],
         obj'[state.id].life = "none",
         UNCHANGED <<profile, forgot, remembered, want, fails, drifts, edits>>
  PROVE  Followed'
  <1> USE DEF DoneInv, IInv, Followed
  <1>1. id = 0 /\ state.id \in Ids /\ verdict # "ok"
    BY DEF Phase, Making, TypeOK, States, VerdictFits
  <1>2. state' = NoState /\ state'.id = 0 /\ id' = 0
    BY <1>1, Data DEF Deleted, Return
  <1>3. Usable'
    <2>1. pc' \in {"idle", "create"}
      BY DEF Deleted, Return
    <2> QED BY <1>2, <2>1 DEF Usable, Finished, Exists
  <1>4. BlindKept' /\ ReadFits'
    BY <1>2 DEF BlindKept, ReadFits
  <1>5. NothingHidden'
    <2> SUFFICES ASSUME Undisturbed, NEW k \in Ids PROVE obj'[k].life = "none"
      BY DEF NothingHidden, Undisturbed, Exists
    <2>1. CASE k = state.id
      BY <2>1
    <2>2. CASE k # state.id
      <3>1. k \notin Tracked
        BY <1>1, <2>2 DEF Tracked, Ids
      <3> QED BY <2>2, <3>1 DEF NothingHidden, Exists
    <2> QED BY <2>1, <2>2
  <1>6. CASE want = Absent
    <2>1. pc' = "idle" /\ verdict' = Ok /\ Ok \in {"none", "ok"}
      BY <1>1, <1>6 DEF Deleted, Return, Ok, TypeOK
    <2>2. VerdictFits' /\ MadeAs' /\ PatchFits'
      BY <1>6, <2>1 DEF VerdictFits, MadeAs, Making, PatchFits
    <2>3. \A i \in Ids : i \notin Tracked'
      BY <1>2 DEF Tracked, Ids
    <2>4. OkMeansDone'
      BY <1>2, <1>6, <2>3 DEF OkMeansDone, Known
    <2> QED BY <1>3, <1>4, <1>5, <2>2, <2>4
  <1>7. CASE want # Absent
    <2>1. pc' = "create" /\ verdict' = verdict
      BY <1>7 DEF Deleted
    <2>2. VerdictFits' /\ OkMeansDone'
      BY <1>1, <2>1 DEF VerdictFits, Undisturbed, OkMeansDone
    <2>3. MadeAs' /\ PatchFits'
      BY <2>1 DEF MadeAs, Making, PatchFits
    <2> QED BY <1>3, <1>4, <1>5, <2>2, <2>3
  <1> QED BY <1>6, <1>7

LEMMA DeleteHeld == DoneInv /\ IInv' /\ Delete => Followed'
  <1> SUFFICES ASSUME DoneInv, IInv', Delete PROVE Followed'
    OBVIOUS
  <1> USE DEF DoneInv, IInv, Followed
  <1>1. /\ state.id \in Ids /\ pc = "delete" /\ Exists(state.id) /\ id = 0
        /\ UNCHANGED <<profile, forgot, remembered, want, fails, drifts, edits>>
        /\ verdict # "ok"
    BY DEF Delete, Phase, TypeOK, States, Making, VerdictFits
  <1>2. /\ \A k \in Ids : obj'[k].life # "none" =>
              /\ obj[k].life # "none" /\ obj'[k].ready = obj[k].ready
              /\ obj'[k].config = obj[k].config
        /\ \A k \in Ids \ {state.id} : obj'[k] = obj[k]
        /\ ~profile.gone => obj'[state.id].life = "none"
    BY <1>1, RemovedAs DEF Delete
  <1>3. CASE profile.gone
    <2>1. pc' = "deleteWait" /\ UNCHANGED <<state, id, saved, left, verdict>>
      BY <1>3 DEF Delete
    <2>2. VerdictFits' /\ ReadFits' /\ MadeAs' /\ PatchFits' /\ OkMeansDone'
      BY <1>1, <2>1
      DEF VerdictFits, Undisturbed, ReadFits, MadeAs, Making, PatchFits,
          OkMeansDone
    <2>3. NothingHidden' /\ Usable' /\ BlindKept'
      BY <1>1, <1>2, <2>1
      DEF NothingHidden, Undisturbed, Exists, Tracked, Usable, Finished,
          BlindKept
    <2> QED BY <2>2, <2>3
  <1>4. CASE ~profile.gone
    BY <1>1, <1>2, <1>4, DeletedDone DEF Delete
  <1> QED BY <1>3, <1>4

LEMMA DeleteMissingDone == DoneInv /\ IInv' /\ DeleteMissing => Followed'
  <1> SUFFICES ASSUME DoneInv, IInv', DeleteMissing PROVE Followed'
    OBVIOUS
  <1>1. CASE profile.absent
    BY <1>1, DeletedDone DEF DeleteMissing, Exists
  <1>2. CASE ~profile.absent
    BY <1>2, FailedChangeDone DEF DeleteMissing
  <1> QED BY <1>1, <1>2

LEMMA DeleteDoneDone == DoneInv /\ IInv' /\ DeleteDone => Followed'
  BY DeletedDone DEF DeleteDone, Exists

LEMMA DeleteFailsDone == DoneInv /\ DeleteFails => Followed'
  BY FailedChangeDone DEF DeleteFails

LEMMA DeleteLostDone == DoneInv /\ DeleteLost => Followed'
  <1> SUFFICES ASSUME DoneInv, DeleteLost PROVE Followed'
    OBVIOUS
  <1> USE DEF DoneInv, IInv, Followed
  <1>1. /\ state.id \in Ids /\ pc = "delete" /\ Exists(state.id) /\ Failing
        /\ UNCHANGED <<profile, want, drifts>> /\ verdict # "ok"
    BY DEF DeleteLost, Phase, TypeOK, States, VerdictFits
  <1>2. \A k \in Ids : obj'[k].life # "none" =>
           obj[k].life # "none" /\ obj'[k].ready = obj[k].ready
    BY <1>1, RemovedAs DEF DeleteLost
  <1>3. CASE FailChange
    BY <1>1, <1>2, <1>3, FailedChangeDone
  <1>4. CASE UNCHANGED <<state, pc, id, saved, left, verdict>>
    <2>1. ~Undisturbed'
      BY <1>1, Disturbed
    <2>2. VerdictFits' /\ NothingHidden' /\ BlindKept'
      BY <1>1, <1>4, <2>1 DEF VerdictFits, NothingHidden, BlindKept
    <2>3. ReadFits' /\ MadeAs' /\ PatchFits' /\ OkMeansDone'
      BY <1>1, <1>4 DEF ReadFits, MadeAs, Making, PatchFits, OkMeansDone
    <2>4. Usable'
      BY <1>1, <1>2, <1>4 DEF Usable, Finished, Exists
    <2> QED BY <2>2, <2>3, <2>4
  <1> QED BY <1>3, <1>4 DEF DeleteLost

-----------------------------------------------------------------------------
(* The platform, other people and the practitioner.                        *)

LEMMA ReadyDone ==
  ASSUME NEW i \in Ids, DoneInv, PlatformReady(i)
  PROVE  Followed'
  <1> USE DEF DoneInv, IInv, Followed
  <1>1. UNCHANGED <<profile, forgot, remembered, state, want, pc, id, saved,
                    left, verdict, fails, drifts, edits>>
    BY DEF PlatformReady
  <1>2. obj' = [obj EXCEPT ![i] = [obj[i] EXCEPT !.ready = TRUE]]
    BY DEF PlatformReady
  <1>3. /\ [obj[i] EXCEPT !.ready = TRUE].ready = TRUE
        /\ [obj[i] EXCEPT !.ready = TRUE].life = obj[i].life
        /\ [obj[i] EXCEPT !.ready = TRUE].config = obj[i].config
        /\ [obj[i] EXCEPT !.ready = TRUE].due = obj[i].due
    BY DEF TypeOK, Objects
  <1>4. \A k \in Ids : /\ obj'[k].life = obj[k].life
                       /\ obj'[k].config = obj[k].config
                       /\ obj'[k].due = obj[k].due
                       /\ obj[k].ready => obj'[k].ready
    BY <1>2, <1>3 DEF TypeOK
  <1>5. /\ state.id # 0 => state.id \in Ids
        /\ pc \in Making => id \in Ids
    BY DEF TypeOK, States, Phase
  <1>6. /\ Undisturbed' = Undisturbed /\ Plain' = Plain /\ Keyed' = Keyed
        /\ Body' = Body /\ Sent' = Sent /\ Tracked' = Tracked
        /\ Changed' = Changed
        /\ \A k \in Ids : Exists(k)' = Exists(k) /\ OnItsWay(k)' = OnItsWay(k)
        /\ \A k \in Ids : \A c : Holds(k, c)' <=> Holds(k, c)
    BY <1>1, <1>4
    DEF Undisturbed, Plain, Keyed, Body, Sent, Tracked, Changed, Exists, Holds,
        OnItsWay
  <1>7. VerdictFits' /\ NothingHidden' /\ BlindKept' /\ ReadFits'
    BY <1>1, <1>4, <1>5, <1>6
    DEF VerdictFits, NothingHidden, BlindKept, ReadFits
  <1>8. Usable'
    BY <1>1, <1>4, <1>5, <1>6 DEF Usable, Finished, Making
  <1>9. MadeAs'
    BY <1>1, <1>4, <1>5, <1>6 DEF MadeAs
  <1>10. PatchFits'
    BY <1>1, <1>4, <1>6 DEF PatchFits, Phase, TypeOK, States
  <1>11. OkMeansDone'
    <2>1. CASE verdict # "ok"
      BY <1>1, <2>1 DEF OkMeansDone
    <2>2. CASE verdict = "ok" /\ want = Absent
      BY <1>1, <1>6, <2>2 DEF OkMeansDone
    <2>3. CASE verdict = "ok" /\ want # Absent
      <3>1. state.id \in Ids
        BY <2>3 DEF VerdictFits, TypeOK, States
      <3>2. Revenant => Revenant'
        BY <1>1, <1>6, <3>1 DEF Revenant
      <3> QED BY <1>1, <1>4, <1>6, <2>3, <3>1, <3>2 DEF OkMeansDone
    <2> QED BY <2>1, <2>2, <2>3
  <1> QED BY <1>7, <1>8, <1>9, <1>10, <1>11

LEMMA GoneDone ==
  ASSUME NEW i \in Ids, DoneInv, PlatformGone(i)
  PROVE  Followed'
  <1> USE DEF DoneInv, IInv, Followed
  <1>1. /\ UNCHANGED <<profile, forgot, remembered, state, want, pc, id, saved,
                       left, fails, drifts, edits>>
        /\ obj[i].life = "dying"
        /\ verdict' = IF pc = "deleteWait" THEN verdict ELSE "none"
    BY DEF PlatformGone
  <1>2. \A k \in Ids : \/ obj'[k].life = "none"
                       \/ obj'[k] = obj[k]
    BY DEF PlatformGone, TypeOK, Blank
  <1>3. VerdictFits' /\ OkMeansDone'
    BY <1>1 DEF VerdictFits, NothingHidden, Undisturbed, OkMeansDone
  <1>4. NothingHidden'
    BY <1>1, <1>2 DEF NothingHidden, Undisturbed, Exists, Tracked
  <1>5. /\ state.id # 0 => state.id \in Ids
        /\ pc \in Making => id \in Ids
    BY DEF TypeOK, States, Phase
  <1>6. Usable' /\ BlindKept'
    BY <1>1, <1>2, <1>5
    DEF Usable, Finished, Making, BlindKept, Undisturbed, Exists
  <1>7. ReadFits' /\ PatchFits'
    BY <1>1 DEF ReadFits, PatchFits
  <1>8. MadeAs'
    BY <1>1, <1>2, <1>5
    DEF MadeAs, Making, Keyed, Body, Exists
  <1> QED BY <1>3, <1>4, <1>6, <1>7, <1>8

\* What nobody but Terraform's surroundings do between two applies.
LEMMA BetweenApplies ==
  ASSUME DoneInv, pc = "idle", verdict' \in {"none", verdict} \ {"ok"},
         UNCHANGED <<profile, obj, state, pc, id, fails, drifts>>
  PROVE  Followed'
  <1> USE DEF DoneInv, IInv, Followed
  <1>1. VerdictFits' /\ OkMeansDone' /\ ReadFits' /\ MadeAs' /\ PatchFits'
    BY DEF VerdictFits, OkMeansDone, ReadFits, MadeAs, Making, PatchFits
  <1>2. NothingHidden' /\ Usable' /\ BlindKept'
    BY DEF NothingHidden, Undisturbed, Exists, Tracked, Usable, Finished,
           BlindKept
  <1> QED BY <1>1, <1>2

LEMMA KeysExpireDone == DoneInv /\ KeysExpire => Followed'
  BY BetweenApplies DEF KeysExpire

LEMMA RefreshRefusedDone == DoneInv /\ RefreshRefused => Followed'
  BY BetweenApplies DEF RefreshRefused

LEMMA EditDone == DoneInv /\ Edit => Followed'
  BY BetweenApplies DEF Edit

\* A part of an object has changed to the other value.
LEMMA FlippedAs ==
  ASSUME TypeOK, NEW i \in Ids, NEW p \in Parts, NEW d \in BOOLEAN,
         obj' = [obj EXCEPT ![i].config[p] = 1 - @, ![i].due = d]
  PROVE  /\ \A k \in Ids : /\ obj'[k].life = obj[k].life
                           /\ obj'[k].ready = obj[k].ready
         /\ \A k \in Ids \ {i} : obj'[k] = obj[k]
         /\ \A q \in Parts \ {p} : obj'[i].config[q] = obj[i].config[q]
         /\ obj'[i].due = d
  <1>1. obj[i] \in Objects /\ obj[i].config \in Configs
    BY DEF TypeOK, Objects
  <1>2. PICK c : c = [obj[i].config EXCEPT ![p] = 1 - @]
    OBVIOUS
  <1>3. obj' = [obj EXCEPT ![i] = [obj[i] EXCEPT !.config = c, !.due = d]]
    BY <1>2
  <1>4. /\ [obj[i] EXCEPT !.config = c, !.due = d].life = obj[i].life
        /\ [obj[i] EXCEPT !.config = c, !.due = d].ready = obj[i].ready
        /\ [obj[i] EXCEPT !.config = c, !.due = d].config = c
        /\ [obj[i] EXCEPT !.config = c, !.due = d].due = d
    BY <1>1 DEF Objects
  <1>5. \A q \in Parts \ {p} : c[q] = obj[i].config[q]
    BY <1>1, <1>2 DEF Configs
  <1> QED BY <1>3, <1>4, <1>5 DEF TypeOK

\* A job that ends otherwise than configured is met by no claim.
LEMMA ToggledDone ==
  ASSUME NEW i \in Ids, DoneInv, Toggled(i)
  PROVE  Followed'
  <1> USE DEF DoneInv, IInv, Followed
  <1>1. /\ UNCHANGED <<profile, forgot, remembered, state, want, pc, id, saved,
                       left, drifts, edits>>
        /\ profile.later /\ obj[i].due /\ ~profile.blind
        /\ Failing \/ UNCHANGED fails
    BY ProfilesAssumption DEF Toggled, TypeOK
  <1>2. /\ \A k \in Ids : /\ obj'[k].life = obj[k].life
                          /\ obj'[k].ready = obj[k].ready
        /\ \A k \in Ids \ {i} : obj'[k] = obj[k]
        /\ obj'[i].config["main"] = obj[i].config["main"]
        /\ ~obj'[i].due
    <2>1. CASE obj' = [obj EXCEPT ![i].config["extra"] = 1 - @, ![i].due = FALSE]
      BY <2>1, FlippedAs DEF Parts
    <2>2. CASE obj' = [obj EXCEPT ![i].due = FALSE]
      BY <2>2 DEF TypeOK, Objects
    <2> QED BY <2>1, <2>2 DEF Toggled
  <1>3. \/ verdict' = "none"
        \/ /\ verdict' = verdict /\ want # Absent
           /\ obj'[i].config["extra"] = want["extra"]
    BY DEF Toggled
  <1>4. /\ Undisturbed' => Undisturbed
        /\ fails > 0 => fails' > 0
        /\ Plain /\ Plain' /\ Keyed' = Keyed /\ Body' = Body /\ Sent' = Sent
        /\ Tracked' = Tracked /\ Changed' = Changed
        /\ \A k \in Ids : Exists(k)' = Exists(k)
    BY <1>1, <1>2, StillPlain
    DEF Plain, Keyed, Body, Sent, Tracked, Changed, Exists
  <1>5. /\ state.id # 0 => state.id \in Ids
        /\ pc \in Making => id \in Ids /\ want # Absent
    BY DEF TypeOK, States, Phase
  <1>6. VerdictFits' /\ NothingHidden' /\ BlindKept'
    BY <1>1, <1>2, <1>3, <1>4 DEF VerdictFits, NothingHidden, BlindKept
  <1>7. Usable'
    BY <1>1, <1>2, <1>4, <1>5 DEF Usable, Finished, Making
  <1>8. CASE verdict' = "none"
    <2>1. ReadFits' /\ OkMeansDone'
      BY <1>8 DEF ReadFits, OkMeansDone
    <2>2. MadeAs' /\ PatchFits'
      BY <1>1, <1>4, <1>5, <1>8 DEF MadeAs, PatchFits
    <2> QED BY <1>6, <1>7, <2>1, <2>2
  <1>9. CASE /\ verdict' = verdict /\ want # Absent
             /\ obj'[i].config["extra"] = want["extra"]
    <2>1. ASSUME NEW k \in Ids, NEW p \in Parts,
                 \/ obj[k].config[p] = want[p]
                 \/ p = "extra" /\ OnItsWay(k)
          PROVE  \/ obj'[k].config[p] = want[p]
                 \/ p = "extra" /\ OnItsWay(k)'
      BY <1>1, <1>2, <1>9, <2>1 DEF OnItsWay, Parts
    <2>2. ReadFits'
      <3> SUFFICES ASSUME pc = "plan", verdict = "running", state.id # 0,
                          ~state.tainted, NEW p \in Parts
                   PROVE  \/ state.config[p] = obj'[state.id].config[p]
                          \/ p = "extra" /\ p \in Changed
        BY <1>1, <1>4, <1>5, <1>9 DEF ReadFits
      <3>1. \/ state.config[p] = obj[state.id].config[p]
            \/ p = "extra" /\ p \in Changed
        BY <1>4 DEF ReadFits
      <3> QED BY <1>2, <1>5, <1>9, <3>1 DEF Changed, Parts
    <2>3. PatchFits'
      BY <1>1, <1>4, <1>5, <1>9, <2>1 DEF PatchFits, Phase
    <2>4. OkMeansDone'
      <3> SUFFICES ASSUME verdict = "ok" PROVE OkMeansDone'
        BY <1>9 DEF OkMeansDone
      <3>1. state.id \in Ids
        BY <1>5, <1>9 DEF VerdictFits
      <3>2. Revenant => Revenant'
        BY <1>1, <1>4, <3>1 DEF Revenant
      <3> QED BY <1>1, <1>2, <1>4, <1>9, <2>1, <3>1, <3>2 DEF OkMeansDone
    <2>5. MadeAs'
      <3> SUFFICES ASSUME pc \in Making PROVE MadeAs'
        BY <1>1 DEF MadeAs
      <3>1. ASSUME verdict = "running", Exists(id), ~Keyed \/ Undisturbed
            PROVE  /\ Holds(id, Sent)'
                   /\ pc \notin {"readBack", "respond"} => ~obj'[id].due
        <4>1. /\ Holds(id, Sent)
              /\ pc \notin {"readBack", "respond"} => ~obj[id].due
          BY <3>1 DEF MadeAs
        <4>2. CASE pc \in {"readBack", "respond"}
          BY <1>1, <1>4, <1>5, <2>1, <4>1, <4>2 DEF Holds, Sent
        <4>3. CASE pc \notin {"readBack", "respond"}
          <5>1. id # i /\ obj'[id] = obj[id]
            BY <1>1, <1>2, <1>5, <4>1, <4>3
          <5> QED BY <1>1, <1>4, <4>1, <5>1 DEF Holds, OnItsWay
        <4> QED BY <4>2, <4>3
      <3> QED BY <1>1, <1>4, <1>5, <1>9, <3>1 DEF MadeAs
    <2> QED BY <1>6, <1>7, <2>2, <2>3, <2>4, <2>5
  <1> QED BY <1>3, <1>8, <1>9

LEMMA DriftDone ==
  ASSUME NEW i \in Ids, DoneInv, Drift(i)
  PROVE  Followed'
  <1> USE DEF DoneInv, IInv, Followed
  <1>1. /\ UNCHANGED <<profile, forgot, remembered, state, want, pc, id, saved,
                       left, fails, edits>>
        /\ verdict' = "none" /\ Exists(i)
    BY DEF Drift, Live, Exists
  <1>2. ~Undisturbed'
    BY DriftDisturbs DEF Drift
  <1>3. \A k \in Ids : obj'[k].life # "none" =>
           obj[k].life # "none" /\ obj'[k].ready = obj[k].ready
    <2>1. CASE Removing(i)
      BY <1>1, <2>1, RemovedAs
    <2>2. ASSUME NEW p \in Parts,
                 obj' = [obj EXCEPT ![i].config[p] = 1 - @,
                                    ![i].due = @ /\ p # "extra"]
          PROVE  \A k \in Ids : /\ obj'[k].life = obj[k].life
                                /\ obj'[k].ready = obj[k].ready
      <3>1. (obj[i].due /\ p # "extra") \in BOOLEAN
        BY DEF TypeOK, Objects
      <3> QED BY <2>2, <3>1, FlippedAs
    <2> QED BY <2>1, <2>2 DEF Drift
  <1>4. /\ state.id # 0 => state.id \in Ids
        /\ pc \in Making => id \in Ids
    BY DEF TypeOK, States, Phase
  <1>5. VerdictFits' /\ NothingHidden' /\ BlindKept' /\ ReadFits' /\ OkMeansDone'
    BY <1>1, <1>2
    DEF VerdictFits, NothingHidden, BlindKept, ReadFits, OkMeansDone
  <1>6. Usable'
    BY <1>1, <1>3, <1>4 DEF Usable, Finished, Making, Exists
  <1>7. MadeAs' /\ PatchFits'
    BY <1>1, <1>3, <1>4 DEF MadeAs, Keyed, Body, Exists, PatchFits
  <1> QED BY <1>5, <1>6, <1>7

\* Nothing can be imported where nothing was disturbed: Terraform knows all.
LEMMA ImportDone ==
  ASSUME NEW i \in Ids, DoneInv, Import(i)
  PROVE  Followed'
  <1> USE DEF DoneInv, IInv, Followed
  <1>1. /\ pc = "idle" /\ state.id = 0 /\ Exists(i) /\ obj[i].ready /\ id = 0
        /\ UNCHANGED <<profile, obj, pc, id, fails, drifts>>
        /\ verdict' = "none" /\ state'.id = i
    BY DEF Import, Phase, Making
  <1>2. ~Undisturbed
    BY <1>1 DEF NothingHidden, Tracked, Ids
  <1>3. ~Undisturbed'
    BY <1>1, <1>2 DEF Undisturbed
  <1>4. Usable'
    BY <1>1 DEF Usable, Finished, Exists
  <1> QED BY <1>1, <1>3, <1>4, GaveUpDisturbed

-----------------------------------------------------------------------------
(* The step, and what follows.                                             *)

LEMMA ProviderDone == DoneInv /\ IInv' /\ Provider => Followed'
  BY CreateDone, LocateDone, DeployDone, WaitDone, StageDone, ReadBackDone,
     RespondDone, PatchDone, PatchReadDone, DeleteHeld, DeleteMissingDone,
     DeleteDoneDone
  DEF Provider

LEMMA FailuresDone == DoneInv /\ Failures => Followed'
  BY CreateFailsDone, CreateUnheardDone, CreateDoubtedDone, CreateLostDone,
     ReadBackFailsDone, PatchFailsDone, PatchLostDone, PatchReadFailsDone,
     DeleteFailsDone, DeleteLostDone
  DEF Failures

LEMMA NextDone == DoneInv /\ Next => DoneInv'
  <1> SUFFICES ASSUME DoneInv, Next PROVE DoneInv'
    OBVIOUS
  <1>1. IInv'
    BY NextIInv DEF DoneInv
  <1>2. Followed'
    <2>1. CASE Refresh
      BY <2>1, RefreshDone
    <2>2. CASE RefreshMisses
      BY <2>2, RefreshMissesDone
    <2>3. CASE Plan
      BY <2>3, PlanDone
    <2>4. CASE Provider
      BY <1>1, <2>4, ProviderDone
    <2>5. CASE Failures
      BY <2>5, FailuresDone
    <2>6. CASE Platform
      BY <2>6, ReadyDone, GoneDone, ToggledDone DEF Platform
    <2>7. CASE KeysExpire
      BY <2>7, KeysExpireDone
    <2>8. CASE Edit
      BY <2>8, EditDone
    <2>9. CASE \E i \in Ids : Drift(i) \/ Import(i)
      BY <2>9, DriftDone, ImportDone
    <2>10. CASE RefreshRefused
      BY <2>10, RefreshRefusedDone
    <2> QED BY <2>1, <2>2, <2>3, <2>4, <2>5, <2>6, <2>7, <2>8, <2>9, <2>10
        DEF Next
  <1> QED BY <1>1, <1>2 DEF DoneInv

LEMMA StutterDone == DoneInv /\ UNCHANGED vars => DoneInv'
  <1> SUFFICES ASSUME DoneInv, UNCHANGED vars PROVE DoneInv'
    OBVIOUS
  <1> USE DEF DoneInv, Followed, vars
  <1>1. IInv'
    BY StutterIInv
  <1>2. VerdictFits' /\ NothingHidden' /\ Usable' /\ BlindKept'
    BY DEF VerdictFits, NothingHidden, Undisturbed, Exists, Tracked, Usable,
           Finished, BlindKept
  <1>3. ReadFits' /\ PatchFits'
    BY DEF ReadFits, PatchFits, Plain, Exists, Changed, OnItsWay
  <1>4. MadeAs'
    BY DEF MadeAs, Making, Keyed, Body, Sent, Exists, Undisturbed, Holds,
           OnItsWay
  <1>5. OkMeansDone'
    BY DEF OkMeansDone, Plain, Revenant, Keyed, Exists, OnItsWay
  <1> QED BY <1>1, <1>2, <1>3, <1>4, <1>5

\* An apply that ends without an error leaves the object as configured, usable
\* and known as it is to Terraform, but for a remembered answer and, of a part
\* that a job turns over, until the job has ended; a destroy leaves nothing: for
\* any resource whose profile keeps ProfilesAssumption, and
\* for any number of failures, drifts and edits in any order (Create, Update
\* and Delete of internal/resources).
THEOREM SuccessMeansDone == Spec => []OkMeansDone
  <1>1. Init => DoneInv
    BY InitIInv, InitDone DEF DoneInv
  <1>2. DoneInv /\ [Next]_vars => DoneInv'
    BY NextDone, StutterDone
  <1>3. DoneInv => OkMeansDone
    BY DEF DoneInv, Followed
  <1> QED BY <1>1, <1>2, <1>3, PTL DEF Spec
=============================================================================
