------------------------ MODULE VolumeResourceProofs ------------------------
(***************************************************************************)
(* For any instances, plans, failures, operations of others and edits: the *)
(* types of VolumeResource, that an apply without an error did what was    *)
(* configured, and that a destroy nobody disturbs does not give up.        *)
(***************************************************************************)
EXTENDS VolumeResource, FiniteSets, FiniteSetTheorems, SequenceTheorems,
        TLAPS

Calling == {"ask", "busy", "confirm"}

\* The platform: operations are of a volume that exists, and each attach of
\* others was an operation of theirs or a request that was given up.
PlatformFits ==
    /\ op # NoOp => vol.exists
    /\ ~vol.exists => vol.inst = NoInstance
    /\ op.action = "attach" => vol.inst = NoInstance
    /\ IsFiniteSet(late)
    /\ attaches + Cardinality(late) <= others + fails

\* Where each method may be, and what it has left there.
Positioned ==
    /\ doing = "none" <=> pc \in {"idle", "plan"}
    /\ doing = "create" => pc \in {"create", "provision"} \cup Calling
    /\ doing = "update" => pc \in {"reread"} \cup Calling
    /\ doing = "delete" => pc \in {"settle"} \cup Calling
    /\ doing \in {"create", "update"} =>
           want # Absent /\ \A i \in DOMAIN todo : todo[i].action # "delete"
    /\ doing = "delete" /\ pc \in Calling => todo \in {<<Delete>>, <<Detach, Delete>>}
    /\ verdict = "ok" => pc = "idle"
    /\ doing # "delete" => attempt = 0

\* What the state says of the volume, and the method of the state.
StateFits ==
    /\ ~state.known => state = NoState /\ (doing # "create" => ~vol.exists)
    /\ pc = "create" => ~vol.exists
    /\ doing = "create" => ~state.known
    /\ doing \in {"update", "delete"} => state.known
    /\ doing = "update" => ~state.tainted
    /\ pc = "plan" /\ verdict = "running" /\ state.known =>
           vol.exists /\ vol.inst = state.inst /\ vol.plan = state.plan

\* A volume is usable once it was recorded without a taint, or is attached to.
Usable ==
    vol.exists /\ (\/ state.known /\ ~state.tainted
                   \/ doing = "create" /\ pc \in Calling) =>
        vol.status = "available"

\* A destroy nobody disturbs finds the volume as it left it.
QuietFits ==
    doing = "delete" /\ quiet =>
        /\ pc # "busy"
        /\ pc = "ask" => /\ op = NoOp /\ vol.exists
                         /\ Current = Detach <=> vol.inst # NoInstance
        /\ pc = "confirm" /\ Current = Detach =>
               vol.exists /\ (op = Detach \/ (op = NoOp /\ vol.inst = NoInstance))
        /\ pc = "confirm" /\ Current = Delete => op = Delete \/ ~vol.exists

\* Each time a destroy is refused as attached, others have attached the volume.
RefusalsCounted ==
    doing = "delete" =>
        /\ attempt <= attaches
        /\ pc \in Calling /\ (\/ op.action = "attach"
                              \/ Current = Delete /\ vol.inst # NoInstance) =>
               attempt < attaches

\* The inductive invariant.
IInv == /\ TypeOK
        /\ PlatformFits
        /\ Positioned
        /\ StateFits
        /\ Usable
        /\ QuietFits
        /\ RefusalsCounted
        /\ OkMeansDone

-----------------------------------------------------------------------------
(* Operations and the volume.                                              *)

Volumes == [exists : BOOLEAN, status : {"pending", "available", "failed"},
            inst : Targets, plan : Plans]
States == [known : BOOLEAN, inst : Targets, plan : Plans, tainted : BOOLEAN]

LEMMA OpFacts ==
    /\ \A o \in Ops : /\ o.action \in {"attach", "detach", "delete", "resize"}
                      /\ o # NoOp
                      /\ o.action = "attach" => o.target \in Instances
                      /\ o.action = "detach" => o = Detach
                      /\ o.action = "delete" => o = Delete
                      /\ o.action = "resize" => o.target \in Plans
    /\ NoOp.action = "none" /\ Detach.action = "detach" /\ Delete.action = "delete"
    /\ Detach.target = NoInstance
    /\ Detach \in Ops /\ Delete \in Ops /\ Detach # Delete
    /\ Detach # NoOp /\ Delete # NoOp
BY DEF Ops, NoOp, Detach, Delete

LEMMA Nothing ==
    ASSUME Plans # {}
    PROVE  /\ NoVolume \in Volumes /\ ~NoVolume.exists /\ NoVolume.inst = NoInstance
           /\ NoState \in States /\ ~NoState.known
<1>1. (CHOOSE p \in Plans : TRUE) \in Plans
  OBVIOUS
<1> DEFINE some == CHOOSE p \in Plans : TRUE
<1> HIDE DEF some
<1>2. [exists |-> FALSE, status |-> "pending", inst |-> NoInstance, plan |-> some]
          \in Volumes
  BY <1>1 DEF some, Volumes, Targets
<1>3. [known |-> FALSE, inst |-> NoInstance, plan |-> some, tainted |-> FALSE]
          \in States
  BY <1>1 DEF some, States, Targets
<1> QED
  BY <1>2, <1>3 DEF some, NoVolume, NoState

\* There is a plan, or there were no configuration to start with.
LEMMA SomePlan ==
    ASSUME TypeOK
    PROVE  Plans # {}
BY DEF TypeOK

LEMMA AppliedFacts ==
    ASSUME TypeOK, NEW o \in Ops
    PROVE  /\ Applied(o) \in Volumes
           /\ o.action = "delete" => Applied(o) = NoVolume
           /\ o.action \in {"attach", "detach"} =>
                  Applied(o) = [exists |-> vol.exists, status |-> vol.status,
                                inst |-> o.target, plan |-> vol.plan]
           /\ o.action = "resize" =>
                  Applied(o) = [exists |-> vol.exists, status |-> vol.status,
                                inst |-> vol.inst, plan |-> o.target]
<1>1. vol \in Volumes /\ NoVolume \in Volumes
  BY SomePlan, Nothing DEF TypeOK, Volumes
<1>2. CASE o.action = "delete"
  BY <1>1, <1>2 DEF Applied
<1>3. CASE o.action = "resize"
  <2>1. o.target \in Plans
    BY <1>3, OpFacts
  <2> DEFINE new == [vol EXCEPT !.plan = o.target]
  <2>2. new = [exists |-> vol.exists, status |-> vol.status,
               inst |-> vol.inst, plan |-> o.target]
    BY <1>1 DEF Volumes
  <2> HIDE DEF new
  <2>3. new \in Volumes
    BY <1>1, <2>1, <2>2 DEF Volumes
  <2>4. Applied(o) = new
    BY <1>3 DEF Applied, new
  <2> QED
    BY <1>3, <2>2, <2>3, <2>4
<1>4. CASE o.action \in {"attach", "detach"}
  <2>1. o.target \in Targets
    BY <1>4, OpFacts DEF Targets
  <2> DEFINE new == [vol EXCEPT !.inst = o.target]
  <2>2. new = [exists |-> vol.exists, status |-> vol.status,
               inst |-> o.target, plan |-> vol.plan]
    BY <1>1 DEF Volumes
  <2> HIDE DEF new
  <2>3. new \in Volumes
    BY <1>1, <2>1, <2>2 DEF Volumes
  <2>4. Applied(o) = new
    BY <1>4 DEF Applied, new
  <2> QED
    BY <1>4, <2>2, <2>3, <2>4
<1> QED
  BY <1>2, <1>3, <1>4, OpFacts

LEMMA ShownFacts ==
    ASSUME TypeOK
    PROVE  /\ Shown \in States /\ Shown.known /\ ~Shown.tainted
           /\ Shown.inst = vol.inst /\ Shown.plan = vol.plan
           /\ AsWanted(Shown) <=> AsWanted(vol)
BY DEF TypeOK, Shown, States, AsWanted

-----------------------------------------------------------------------------
(* How a step of a method returns to Terraform.                            *)

\* A step of the method with what it makes of the platform: the volume stays,
\* and an operation or a lost request is paid for by a failure.
Onward ==
    /\ vol' = vol /\ want' = want
    /\ op' \in Ops \cup {NoOp}
    /\ late' \subseteq Ops /\ IsFiniteSet(late')
    /\ op' # NoOp => vol.exists
    /\ op'.action = "attach" => vol.inst = NoInstance
    /\ attaches + Cardinality(late') <= others' + fails'
    /\ fails' \in 0..MaxFailures /\ others' \in 0..MaxOthers
    /\ edits' \in 0..MaxEdits

LEMMA SteadyOnward ==
    ASSUME IInv, Steady
    PROVE  Onward
BY DEF IInv, TypeOK, PlatformFits, Steady, platform, counts, Onward

LEMMA FailingOnward ==
    ASSUME IInv, Failing, UNCHANGED <<platform, want>>
    PROVE  Onward
<1>1. fails' \in 0..MaxFailures /\ fails' = fails + 1 /\ others' = others /\ edits' = edits
  BY BoundsAssumption DEF IInv, TypeOK, Failing
<1>2. Cardinality(late) \in Nat /\ attaches \in Nat /\ fails \in Nat /\ others \in Nat
  BY FS_CardinalityType, BoundsAssumption DEF IInv, PlatformFits, TypeOK
<1>3. attaches + Cardinality(late') <= others' + fails'
  BY <1>1, <1>2 DEF IInv, PlatformFits, platform
<1> QED
  BY <1>1, <1>3 DEF IInv, TypeOK, PlatformFits, platform, Onward

\* A return that is true to the volume keeps the invariant.
LEMMA ReturnKeeps ==
    ASSUME IInv, Onward, NEW s \in States, NEW v \in {"none", "ok"}, Return(s, v),
           ~s.known => s = NoState /\ ~vol.exists,
           vol.exists /\ s.known /\ ~s.tainted => vol.status = "available",
           v = "ok" => IF want = Absent THEN ~vol.exists /\ s = NoState
                       ELSE /\ vol.exists /\ vol.status = "available"
                            /\ vol.inst = want.inst /\ vol.plan = want.plan
                            /\ s.inst = want.inst /\ s.plan = want.plan
                            /\ s.known /\ ~s.tainted
    PROVE  IInv'
<1>1. /\ state' = s /\ doing' = "none" /\ pc' = "idle" /\ todo' = <<>>
      /\ attempt' = 0 /\ seen' = "none" /\ verdict' = v
      /\ quiet' = TRUE /\ attaches' = 0
  BY DEF Return
<1>2. /\ vol' = vol /\ want' = want
      /\ op' \in Ops \cup {NoOp} /\ late' \subseteq Ops /\ IsFiniteSet(late')
      /\ fails' \in 0..MaxFailures /\ others' \in 0..MaxOthers
      /\ edits' \in 0..MaxEdits
  BY DEF Onward
<1>3. TypeOK'
  <2>1. attaches' \in 0..(MaxOthers + MaxFailures)
    BY <1>1, BoundsAssumption
  <2>2. todo' \in Seq(Ops) /\ Len(todo') <= 3
    BY <1>1
  <2> QED
    BY <1>1, <1>2, <2>1, <2>2 DEF IInv, TypeOK, States
<1>4. PlatformFits'
  <2>1. Cardinality(late') \in Nat /\ attaches \in Nat
    BY <1>2, FS_CardinalityType, BoundsAssumption DEF IInv, TypeOK
  <2>2. attaches' + Cardinality(late') <= others' + fails'
    BY <1>1, <1>2, <2>1 DEF Onward
  <2> QED
    BY <1>2, <2>2 DEF Onward, IInv, PlatformFits
<1>5. Positioned'
  BY <1>1 DEF Positioned, Calling
<1>6. StateFits' /\ Usable'
  BY <1>1, <1>2 DEF StateFits, Usable
<1>7. QuietFits' /\ RefusalsCounted'
  BY <1>1 DEF QuietFits, RefusalsCounted
<1>8. OkMeansDone'
  BY <1>1, <1>2 DEF OkMeansDone, AsWanted
<1> QED
  BY <1>3, <1>4, <1>5, <1>6, <1>7, <1>8 DEF IInv

\* No method runs on from an apply that ended well.
LEMMA Verdicts ==
    ASSUME IInv, pc # "idle"
    PROVE  /\ verdict \in {"none", "running"} /\ Ok \in {"none", "ok"}
           /\ Ok = "ok" => verdict = "running"
BY DEF IInv, TypeOK, Positioned, Ok

LEMMA HandOverKeeps ==
    ASSUME IInv, Onward, doing \in {"create", "update"}, HandOver,
           vol.exists, vol.status = "available"
    PROVE  IInv'
<1>1. pc # "idle" /\ want # Absent
  BY DEF IInv, Positioned
<1>2. /\ Shown \in States /\ Shown.known
      /\ Shown.inst = vol.inst /\ Shown.plan = vol.plan
      /\ AsWanted(Shown) <=> AsWanted(vol)
  BY ShownFacts DEF IInv
<1> DEFINE v == IF AsWanted(Shown) THEN Ok ELSE "none"
<1>3. PICK taint : taint = (doing = "create" /\ ~AsWanted(Shown))
  OBVIOUS
<1>4. PICK s : s = [Shown EXCEPT !.tainted = taint]
  OBVIOUS
<1>5. taint \in BOOLEAN /\ (AsWanted(Shown) => ~taint)
  BY <1>3
<1>6. s = [known |-> TRUE, inst |-> vol.inst, plan |-> vol.plan, tainted |-> taint]
  BY <1>4 DEF Shown
<1>7. Return(s, v)
  BY <1>3, <1>4 DEF HandOver
<1>8. v \in {"none", "ok"} /\ (v = "ok" => AsWanted(vol))
  BY <1>1, <1>2, Verdicts
<1> HIDE DEF v
<1>9. s \in States /\ s.known
  BY <1>5, <1>6 DEF IInv, TypeOK, States
<1>10. v = "ok" => ~taint
  BY <1>2, <1>5, <1>8
<1>11. v = "ok" => /\ s.inst = want.inst /\ s.plan = want.plan /\ ~s.tainted
                  /\ vol.inst = want.inst /\ vol.plan = want.plan
  BY <1>8, <1>10, <1>6 DEF AsWanted
<1> QED
  BY <1>1, <1>8, <1>9, <1>11, <1>7, ReturnKeeps

LEMMA GiveUpKeeps ==
    ASSUME IInv, Onward, doing # "none", GiveUp
    PROVE  IInv'
<1> DEFINE taint == state.tainted \/ doing = "create"
<1>1. PICK s \in Left : Return([s EXCEPT !.known = TRUE, !.tainted = taint], "none")
  BY DEF GiveUp
<1>2. s \in States
  BY <1>1, ShownFacts DEF IInv, TypeOK, Left, States
<1>3. taint \in BOOLEAN
  BY DEF IInv, TypeOK
<1>4. ~taint /\ vol.exists => vol.status = "available"
  BY DEF IInv, TypeOK, Positioned, StateFits, Usable
<1> HIDE DEF taint
<1>5. PICK r : r = [s EXCEPT !.known = TRUE, !.tainted = taint]
  OBVIOUS
<1>6. r = [known |-> TRUE, inst |-> s.inst, plan |-> s.plan, tainted |-> taint]
  BY <1>2, <1>5 DEF States
<1>7. r \in States /\ r.known /\ r.tainted = taint
  BY <1>2, <1>3, <1>6 DEF States
<1>8. Return(r, "none")
  BY <1>1, <1>5
<1> QED
  BY <1>4, <1>7, <1>8, ReturnKeeps

-----------------------------------------------------------------------------
(* How a step of a method goes on.                                         *)

\* The current operation, and what a destroy has left.
LEMMA CallFacts ==
    ASSUME IInv, pc \in Calling
    PROVE  /\ Current \in Ops /\ todo \in Seq(Ops) /\ Len(todo) \in 1..3
           /\ doing \in {"create", "update", "delete"}
           /\ doing # "delete" => Current.action # "delete"
           /\ doing = "delete" =>
                 \/ todo = <<Delete>> /\ Current = Delete /\ Len(todo) = 1
                 \/ /\ todo = <<Detach, Delete>> /\ Current = Detach /\ Len(todo) = 2
                    /\ Tail(todo) = <<Delete>>
<1>1. /\ todo \in Seq(Ops) /\ todo # <<>> /\ Len(todo) <= 3
      /\ doing \in {"none", "create", "update", "delete"}
  BY DEF IInv, TypeOK, Calling
<1>2. Len(todo) \in 1..3 /\ todo[1] \in Ops /\ 1 \in DOMAIN todo
  <2>1. Len(todo) \in Nat /\ Len(todo) # 0 /\ DOMAIN todo = 1..Len(todo)
    BY <1>1, EmptySeq, LenProperties
  <2>2. \A i \in 1..Len(todo) : todo[i] \in Ops
    BY <1>1, ElementOfSeq
  <2> QED
    BY <1>1, <2>1, <2>2
<1>3. doing # "none"
  BY DEF IInv, Positioned, Calling
<1>4. doing # "delete" => todo[1].action # "delete"
  BY <1>1, <1>2, <1>3 DEF IInv, Positioned
<1>5. CASE doing = "delete"
  <2>1. todo \in {<<Delete>>, <<Detach, Delete>>}
    BY <1>5 DEF IInv, Positioned
  <2>2. CASE todo = <<Delete>>
    BY <1>1, <1>2, <1>5, <2>2 DEF Current
  <2>3. CASE todo = <<Detach, Delete>>
    BY <1>1, <1>2, <1>5, <2>3 DEF Current
  <2> QED
    BY <2>1, <2>2, <2>3
<1> QED
  BY <1>1, <1>2, <1>3, <1>4, <1>5 DEF Current

\* A step that stays in its method keeps the invariant where its place fits.
LEMMA StaysKeeps ==
    ASSUME IInv, Onward, doing # "none", UNCHANGED <<state, doing, verdict, history>>,
           pc' \in {"settle", "reread"} \cup Calling,
           todo' \in Seq(Ops), Len(todo') <= 3, pc' \in Calling => todo' # <<>>,
           attempt' \in 0..2, seen' \in {o.action : o \in Ops} \cup {"none"},
           doing = "create" /\ vol.exists /\ pc' \in Calling =>
               vol.status = "available",
           Positioned', QuietFits', RefusalsCounted'
    PROVE  IInv'
<1>1. /\ vol' = vol /\ want' = want
      /\ op' \in Ops \cup {NoOp} /\ late' \subseteq Ops
      /\ fails' \in 0..MaxFailures /\ others' \in 0..MaxOthers
      /\ edits' \in 0..MaxEdits
  BY DEF Onward
<1>2. /\ state' = state /\ doing' = doing /\ verdict' = verdict
      /\ quiet' = quiet /\ attaches' = attaches
  BY DEF history
<1>3. TypeOK'
  BY <1>1, <1>2 DEF IInv, TypeOK, Calling
<1>4. PlatformFits'
  BY <1>1, <1>2 DEF Onward, IInv, PlatformFits
<1>5. StateFits'
  BY <1>1, <1>2 DEF IInv, StateFits, Calling
<1>6. Usable'
  BY <1>1, <1>2 DEF IInv, Usable
<1>7. OkMeansDone'
  BY <1>2 DEF IInv, Positioned, OkMeansDone, Calling
<1> QED
  BY <1>3, <1>4, <1>5, <1>6, <1>7 DEF IInv

LEMMA DeletedKeeps ==
    ASSUME IInv, Onward, doing = "delete", ~vol.exists, Deleted
    PROVE  IInv'
<1>1. NoState \in States /\ ~NoState.known
  BY SomePlan, Nothing DEF IInv
<1>2. pc # "idle"
  BY DEF IInv, Positioned
<1>3. CASE want = Absent /\ Return(NoState, Ok)
  <2>1. Ok \in {"none", "ok"}
    BY <1>2, Verdicts
  <2> QED
    BY <1>1, <1>3, <2>1, ReturnKeeps
<1>4. CASE want # Absent /\ ~Return(NoState, Ok)
  <2>1. /\ want # Absent /\ state' = NoState /\ doing' = "create" /\ pc' = "create"
        /\ todo' = <<>> /\ attempt' = 0 /\ seen' = "none"
        /\ quiet' = TRUE /\ attaches' = 0 /\ verdict' = verdict
    BY <1>4 DEF Deleted
  <2>2. /\ vol' = vol /\ want' = want
        /\ op' \in Ops \cup {NoOp} /\ late' \subseteq Ops /\ IsFiniteSet(late')
        /\ fails' \in 0..MaxFailures /\ others' \in 0..MaxOthers
        /\ edits' \in 0..MaxEdits
    BY DEF Onward
  <2>3. TypeOK'
    <3>1. attaches' \in 0..(MaxOthers + MaxFailures)
      BY <2>1, BoundsAssumption
    <3>2. todo' \in Seq(Ops) /\ Len(todo') <= 3
      BY <2>1
    <3> QED
      BY <1>1, <2>1, <2>2, <3>1, <3>2 DEF IInv, TypeOK, States
  <2>4. PlatformFits'
    <3>1. Cardinality(late') \in Nat /\ attaches \in Nat
      BY <2>2, FS_CardinalityType, BoundsAssumption DEF IInv, TypeOK
    <3>2. attaches' + Cardinality(late') <= others' + fails'
      BY <2>1, <2>2, <3>1 DEF Onward
    <3> QED
      BY <2>2, <3>2 DEF Onward, IInv, PlatformFits
  <2>5. Positioned'
    <3>1. verdict # "ok"
      BY <1>2 DEF IInv, Positioned
    <3> QED
      BY <2>1, <2>2, <3>1 DEF Positioned, Calling
  <2>6. StateFits' /\ Usable'
    BY <1>1, <2>1, <2>2 DEF StateFits, Usable, Calling
  <2>7. QuietFits' /\ RefusalsCounted'
    BY <2>1 DEF QuietFits, RefusalsCounted
  <2>8. OkMeansDone'
    BY <1>2, <2>1 DEF OkMeansDone, IInv, Positioned
  <2> QED
    BY <2>3, <2>4, <2>5, <2>6, <2>7, <2>8 DEF IInv
<1>5. (want = Absent /\ Return(NoState, Ok)) \/ (want # Absent /\ ~Return(NoState, Ok))
  BY DEF Deleted, Return
<1> QED
  BY <1>3, <1>4, <1>5

\* A call that stays where it is in the list keeps the method's place.
LEMMA GoKeepsPlace ==
    ASSUME IInv, Onward, pc \in Calling, NEW p \in Calling, NEW s, Go(p, s)
    PROVE  Positioned'
BY DEF IInv, Positioned, Onward, Go, Calling

\* The operation succeeded: the next one, the read of an update, or the end.
LEMMA SucceededKeeps ==
    ASSUME IInv, Onward, pc \in Calling, Succeeded,
           doing # "delete" => vol.exists,
           Current = Delete => ~vol.exists,
           doing = "delete" /\ Current = Detach =>
               /\ vol.exists /\ vol.inst = NoInstance
               /\ quiet => op' = NoOp
               /\ op'.action = "attach" => op.action = "attach"
    PROVE  IInv'
<1>1. /\ Current \in Ops /\ todo \in Seq(Ops) /\ Len(todo) \in 1..3
      /\ doing \in {"create", "update", "delete"}
      /\ doing # "delete" => Current.action # "delete"
      /\ doing = "delete" =>
            \/ todo = <<Delete>> /\ Current = Delete /\ Len(todo) = 1
            \/ /\ todo = <<Detach, Delete>> /\ Current = Detach /\ Len(todo) = 2
               /\ Tail(todo) = <<Delete>>
  BY CallFacts
<1>2. doing # "none" /\ vol' = vol /\ want' = want
  BY <1>1 DEF Onward
<1>3. attempt \in 0..2 /\ attaches \in Nat /\ todo \in Seq(Ops) /\ Len(todo) <= 3
  BY BoundsAssumption DEF IInv, TypeOK
<1>4. CASE /\ Len(todo) > 1 /\ todo' = Tail(todo) /\ pc' = "ask" /\ seen' = "none"
           /\ UNCHANGED <<state, doing, attempt, verdict, history>>
  <2>1. /\ todo' \in Seq(Ops) /\ Len(todo') = Len(todo) - 1
        /\ DOMAIN todo' = 1..(Len(todo) - 1) /\ DOMAIN todo = 1..Len(todo)
        /\ \A i \in DOMAIN todo' : i + 1 \in DOMAIN todo /\ todo'[i] = todo[i + 1]
    BY <1>1, <1>4
  <2>2. Len(todo') <= 3 /\ todo' # <<>>
    <3>1. Len(todo') \in 1..2
      BY <1>1, <1>4, <2>1
    <3>2. Len(<<>>) = 0
      OBVIOUS
    <3>3. todo' # <<>>
      <4> SUFFICES ASSUME todo' = <<>> PROVE FALSE
        OBVIOUS
      <4>1. Len(todo') = 0
        BY <3>2
      <4> QED
        BY <3>1, <4>1
    <3>4. \A n \in 1..2 : n <= 3
      OBVIOUS
    <3>5. Len(todo') <= 3
      BY <3>1, <3>4
    <3> QED
      BY <3>3, <3>5
  <2>3. Positioned'
    <3>1. doing \in {"create", "update"} =>
             \A i \in DOMAIN todo' : todo'[i].action # "delete"
      BY <2>1 DEF IInv, Positioned
    <3>2. doing = "delete" => todo' = <<Delete>>
      BY <1>1, <1>4
    <3> QED
      BY <1>1, <1>2, <1>4, <3>1, <3>2 DEF IInv, Positioned, Calling
  <2>4. ASSUME doing = "delete"
        PROVE  /\ Current' = Delete /\ Current = Detach
               /\ vol.exists /\ vol.inst = NoInstance
    <3>1. todo' = <<Delete>>
      BY <1>1, <1>4, <2>4
    <3> QED
      BY <1>1, <1>4, <2>4, <3>1 DEF Current
  <2>5. QuietFits'
    BY <1>2, <1>4, <2>4, OpFacts DEF QuietFits, history
  <2>6. RefusalsCounted'
    BY <1>2, <1>3, <1>4, <2>4 DEF IInv, RefusalsCounted, history
  <2>7. doing = "create" /\ vol.exists => vol.status = "available"
    BY DEF IInv, Usable
  <2>8. /\ UNCHANGED <<state, doing, verdict, history>> /\ pc' = "ask"
        /\ todo' \in Seq(Ops) /\ attempt' \in 0..2 /\ seen' = "none"
    BY <1>3, <1>4, <2>1
  <2> QED
    BY <1>2, <2>2, <2>3, <2>5, <2>6, <2>7, <2>8, StaysKeeps DEF Calling
<1>5. CASE Len(todo) = 1 /\ doing = "create" /\ HandOver
  <2>1. vol.exists /\ vol.status = "available"
    BY <1>5 DEF IInv, Usable
  <2> QED
    BY <1>5, <2>1, HandOverKeeps
<1>6. CASE Len(todo) = 1 /\ doing = "update" /\ Go("reread", "none")
  <2>1. /\ pc' = "reread" /\ seen' = "none" /\ todo' = todo /\ attempt' = attempt
        /\ UNCHANGED <<state, doing, verdict, history>> /\ doing' = doing
    BY <1>6 DEF Go
  <2>2. Positioned'
    BY <1>2, <1>6, <2>1 DEF IInv, Positioned, Calling
  <2>3. QuietFits' /\ RefusalsCounted'
    BY <1>6, <2>1 DEF QuietFits, RefusalsCounted
  <2>4. todo' \in Seq(Ops) /\ Len(todo') <= 3 /\ attempt' \in 0..2
    BY <1>3, <2>1
  <2> QED
    BY <1>2, <1>6, <2>1, <2>2, <2>3, <2>4, StaysKeeps DEF Calling
<1>7. CASE Len(todo) = 1 /\ doing = "delete" /\ Deleted
  BY <1>1, <1>7, DeletedKeeps
<1> QED
  BY <1>4, <1>5, <1>6, <1>7 DEF Succeeded

-----------------------------------------------------------------------------
(* The confirmed operation.                                                *)

\* A wait that begins, or a question asked again.
LEMMA GoKeeps ==
    ASSUME IInv, Onward, pc \in Calling, NEW p \in Calling,
           NEW s \in {o.action : o \in Ops} \cup {"none"}, Go(p, s),
           QuietFits', RefusalsCounted'
    PROVE  IInv'
<1>1. Positioned'
  BY GoKeepsPlace
<1>2. /\ pc' = p /\ seen' = s /\ todo' = todo /\ attempt' = attempt
      /\ UNCHANGED <<state, doing, verdict, history>>
  BY DEF Go
<1>3. doing # "none" /\ todo # <<>>
  BY CallFacts DEF IInv, TypeOK, Calling
<1>4. attempt \in 0..2 /\ todo \in Seq(Ops) /\ Len(todo) <= 3
  BY DEF IInv, TypeOK
<1>5. doing = "create" /\ vol.exists => vol.status = "available"
  BY DEF IInv, Usable
<1> QED
  BY <1>1, <1>2, <1>3, <1>4, <1>5, StaysKeeps DEF Calling

\* Nothing that makes the platform busy counts as desired for a delete.
LEMMA DesiredFacts ==
    ASSUME IInv, pc \in Calling, Desired(Current)
    PROVE  /\ Current # Delete
           /\ Current = Detach => vol.inst = NoInstance
BY OpFacts DEF Desired

LEMMA AskAcceptedKeeps ==
    ASSUME IInv, AskAccepted
    PROVE  IInv'
<1>1. /\ pc = "ask" /\ pc \in Calling /\ Admissible(Current) /\ op' = Current
      /\ Go("confirm", "none") /\ UNCHANGED <<vol, late, want, counts>>
  BY DEF AskAccepted, Calling
<1>2. Current \in Ops /\ (doing = "delete" => Current \in {Detach, Delete})
  BY <1>1, CallFacts
<1>3. /\ vol.exists /\ op = NoOp
      /\ Current.action = "attach" => vol.inst = NoInstance
      /\ Current = Delete => vol.inst = NoInstance
  BY <1>1, OpFacts DEF Admissible, RuledOut
<1>4. Onward
  BY <1>1, <1>2, <1>3 DEF IInv, TypeOK, PlatformFits, counts, Onward
<1>5. Current' = Current /\ vol' = vol /\ doing' = doing /\ quiet' = quiet /\ pc' = "confirm"
      /\ attempt' = attempt /\ attaches' = attaches
  BY <1>1 DEF Go, Current, history
<1>6. QuietFits'
  BY <1>1, <1>2, <1>3, <1>5 DEF QuietFits
<1>7. RefusalsCounted'
  <2>1. doing = "delete" => op'.action # "attach"
    BY <1>1, <1>2, OpFacts
  <2> QED
    BY <1>1, <1>3, <1>5, <2>1 DEF IInv, RefusalsCounted
<1> QED
  BY <1>1, <1>4, <1>6, <1>7, GoKeeps DEF Calling

LEMMA AskAppliedKeeps ==
    ASSUME IInv, AskApplied
    PROVE  IInv'
<1>1. /\ pc = "ask" /\ pc \in Calling /\ Admissible(Current)
      /\ Current.action \in {"attach", "detach"}
      /\ vol' = Applied(Current) /\ pc' = "confirm" /\ seen' = "none"
      /\ UNCHANGED <<op, late, want, counts>>
      /\ UNCHANGED <<state, doing, todo, attempt, verdict, history>>
  BY DEF AskApplied, Go, Calling
<1>2. /\ Current \in Ops /\ doing \in {"create", "update", "delete"}
      /\ doing = "delete" => Current \in {Detach, Delete}
  BY <1>1, CallFacts
<1>3. vol.exists /\ op = NoOp
  BY <1>1 DEF Admissible
<1>4. /\ vol' \in Volumes
      /\ vol' = [exists |-> vol.exists, status |-> vol.status,
                 inst |-> Current.target, plan |-> vol.plan]
  BY <1>1, <1>2, AppliedFacts DEF IInv
<1>5. /\ vol'.exists /\ vol'.status = vol.status /\ vol'.inst = Current.target
  BY <1>3, <1>4
<1>6. Current' = Current
  BY <1>1 DEF Current
<1>7. TypeOK'
  BY <1>1, <1>4 DEF IInv, TypeOK, counts, history, Volumes
<1>8. PlatformFits'
  BY <1>1, <1>3, <1>5, OpFacts DEF IInv, PlatformFits, counts, history
<1>9. Positioned'
  BY <1>1, <1>2 DEF IInv, Positioned, Calling
<1>10. StateFits'
  BY <1>1, <1>2, <1>5 DEF IInv, StateFits
<1>11. Usable'
  BY <1>1, <1>5, <1>3 DEF IInv, Usable
<1>12. QuietFits'
  <2>1. doing = "delete" => Current = Detach /\ vol'.inst = NoInstance
    BY <1>1, <1>2, <1>5, OpFacts
  <2> QED
    BY <1>1, <1>3, <1>5, <1>6, <2>1, OpFacts DEF QuietFits
<1>13. RefusalsCounted'
  BY <1>1, <1>3, <1>6, OpFacts DEF IInv, RefusalsCounted, history
<1>14. OkMeansDone'
  BY <1>1 DEF IInv, Positioned, OkMeansDone
<1> QED
  BY <1>7, <1>8, <1>9, <1>10, <1>11, <1>12, <1>13, <1>14 DEF IInv

LEMMA AskBusyKeeps ==
    ASSUME IInv, AskBusy
    PROVE  IInv'
<1>1. /\ pc = "ask" /\ pc \in Calling /\ vol.exists /\ op # NoOp
      /\ Go("busy", op.action) /\ Steady /\ Onward
  BY SteadyOnward DEF AskBusy, Calling
<1>2. op.action \in {o.action : o \in Ops}
  BY <1>1 DEF IInv, TypeOK
<1>3. /\ Current' = Current /\ vol' = vol /\ op' = op /\ doing' = doing
      /\ quiet' = quiet /\ pc' = "busy" /\ attempt' = attempt /\ attaches' = attaches
  BY <1>1 DEF Go, Current, Steady, platform, history
<1>4. QuietFits'
  BY <1>1, <1>3 DEF IInv, QuietFits
<1>5. RefusalsCounted'
  BY <1>1, <1>3 DEF IInv, RefusalsCounted, Calling
<1> QED
  BY <1>1, <1>2, <1>4, <1>5, GoKeeps DEF Calling

\* Refused as attached, and not yet for good: the destroy starts over.
LEMMA StartOverKeeps ==
    ASSUME IInv, Steady, pc = "ask", op = NoOp, vol.exists, RuledOut(Current),
           Current = Delete, ~AskedEnough, pc' = "settle", attempt' = attempt + 1,
           todo' = <<>>, seen' = "none", UNCHANGED <<state, doing, verdict, history>>
    PROVE  IInv'
<1>1. Onward
  BY SteadyOnward
<1>2. /\ doing = "delete" /\ vol.inst # NoInstance
      /\ attempt \in 0..2 /\ attempt # 2 /\ attaches \in Nat
  BY CallFacts, OpFacts, BoundsAssumption
     DEF IInv, TypeOK, RuledOut, AskedEnough, Calling
<1>3. attempt < attaches
  BY <1>2 DEF IInv, RefusalsCounted, Calling
<1>4. Positioned'
  BY <1>1, <1>2 DEF IInv, Positioned, Onward, Calling
<1>5. QuietFits'
  BY <1>2 DEF QuietFits
<1>6. RefusalsCounted'
  BY <1>2, <1>3 DEF RefusalsCounted, Calling, history
<1>7. todo' \in Seq(Ops) /\ Len(todo') <= 3
  OBVIOUS
<1>8. attempt' \in 0..2
  BY <1>2
<1> QED
  BY <1>1, <1>2, <1>4, <1>5, <1>6, <1>7, <1>8, StaysKeeps DEF Calling

LEMMA AskRefusedKeeps ==
    ASSUME IInv, AskRefused
    PROVE  IInv'
<1>1. /\ pc = "ask" /\ pc \in Calling /\ vol.exists /\ op = NoOp /\ RuledOut(Current)
      /\ Steady /\ Onward /\ op' = op /\ doing # "none"
  BY SteadyOnward, CallFacts DEF AskRefused, Calling, Steady, platform
<1>2. CASE Desired(Current) /\ Succeeded
  BY <1>1, <1>2, DesiredFacts, SucceededKeeps
<1>3. CASE /\ Current = Delete /\ ~AskedEnough
           /\ pc' = "settle"
           /\ attempt' = attempt + 1
           /\ todo' = <<>> /\ seen' = "none"
           /\ UNCHANGED <<state, doing, verdict, history>>
  BY <1>1, <1>3, StartOverKeeps
<1>4. CASE GiveUp
  BY <1>1, <1>4, GiveUpKeeps
<1> QED
  BY <1>2, <1>3, <1>4 DEF AskRefused

LEMMA AskMissingKeeps ==
    ASSUME IInv, AskMissing
    PROVE  IInv'
BY SteadyOnward, CallFacts, GiveUpKeeps DEF AskMissing, Calling

\* The volume reads 404.
LEMMA GoneKeeps ==
    ASSUME IInv, Onward, pc \in Calling, ~vol.exists, Gone
    PROVE  IInv'
<1>1. /\ Current \in Ops /\ doing \in {"create", "update", "delete"}
      /\ doing # "delete" => Current.action # "delete"
  BY CallFacts
<1>2. CASE Current.action = "delete"
  BY <1>1, <1>2, SucceededKeeps, OpFacts DEF Gone
<1>3. CASE Current.action # "delete"
  BY <1>1, <1>3, GiveUpKeeps DEF Gone
<1> QED
  BY <1>2, <1>3

LEMMA BusyKeeps ==
    ASSUME IInv, Busy
    PROVE  IInv'
<1>1. /\ pc = "busy" /\ pc \in Calling /\ (~vol.exists \/ op = NoOp)
      /\ Steady /\ Onward /\ op' = op /\ vol' = vol /\ doing # "none"
  BY SteadyOnward, CallFacts DEF Busy, Calling, Steady, platform
<1>2. CASE ~vol.exists /\ Gone
  BY <1>1, <1>2, GoneKeeps
<1>3. CASE vol.exists /\ Desired(Current) /\ Succeeded
  BY <1>1, <1>3, DesiredFacts, SucceededKeeps
<1>4. CASE GiveUp
  BY <1>1, <1>4, GiveUpKeeps
<1>5. CASE Go("ask", "none")
  <2>1. /\ Current' = Current /\ doing' = doing /\ quiet' = quiet
        /\ pc' = "ask" /\ attempt' = attempt /\ attaches' = attaches
    BY <1>5 DEF Go, Current, history
  <2>2. QuietFits'
    BY <1>1, <2>1 DEF IInv, QuietFits
  <2>3. RefusalsCounted'
    BY <1>1, <2>1 DEF IInv, RefusalsCounted, Calling
  <2> QED
    BY <1>1, <1>5, <2>2, <2>3, GoKeeps DEF Calling
<1> QED
  BY <1>2, <1>3, <1>4, <1>5 DEF Busy

LEMMA ConfirmKeeps ==
    ASSUME IInv, Confirm
    PROVE  IInv'
<1>1. /\ pc = "confirm" /\ pc \in Calling
      /\ ~vol.exists \/ op.action # Current.action
      /\ Steady /\ Onward /\ op' = op /\ vol' = vol /\ doing # "none"
  BY SteadyOnward, CallFacts DEF Confirm, Calling, Steady, platform
<1>2. CASE ~vol.exists /\ Gone
  BY <1>1, <1>2, GoneKeeps
<1>3. CASE vol.exists /\ Desired(Current) /\ Succeeded
  <2>1. doing = "delete" /\ quiet /\ Current = Detach => op = NoOp
    BY <1>1, <1>3, OpFacts DEF IInv, QuietFits
  <2> QED
    BY <1>1, <1>3, <2>1, DesiredFacts, SucceededKeeps
<1>4. CASE GiveUp
  BY <1>1, <1>4, GiveUpKeeps
<1> QED
  BY <1>2, <1>3, <1>4 DEF Confirm

\* The answer is lost: what became of the request is paid for by the failure.
LEMMA LostOnward ==
    ASSUME IInv, AskLost
    PROVE  Onward
<1>1. /\ pc \in Calling /\ Failing /\ vol' = vol /\ want' = want
  BY DEF AskLost, Calling
<1>2. /\ fails' \in 0..MaxFailures /\ fails' = fails + 1
      /\ others' = others /\ edits' = edits
  BY <1>1, BoundsAssumption DEF IInv, TypeOK, Failing
<1>3. /\ attaches \in Nat /\ fails \in Nat /\ others \in Nat
      /\ late \subseteq Ops /\ IsFiniteSet(late) /\ Cardinality(late) \in Nat
      /\ attaches + Cardinality(late) <= others + fails
  BY FS_CardinalityType, BoundsAssumption DEF IInv, PlatformFits, TypeOK
<1>4. Current \in Ops
  BY <1>1, CallFacts
<1>5. /\ op' \in Ops \cup {NoOp} /\ (op' # NoOp => vol.exists)
      /\ op'.action = "attach" => vol.inst = NoInstance
  <2>1. CASE op' = op
    BY <2>1 DEF IInv, TypeOK, PlatformFits
  <2>2. CASE Admissible(Current) /\ op' = Current
    BY <1>4, <2>2, OpFacts DEF Admissible, RuledOut
  <2> QED
    BY <2>1, <2>2 DEF AskLost
<1>6. late' = late \/ late' = late \cup {Current}
  BY DEF AskLost
<1>7. IsFiniteSet(late') /\ Cardinality(late') <= Cardinality(late) + 1 /\ Cardinality(late') \in Nat
  <2>1. CASE late' = late
    BY <1>3, <2>1
  <2>2. CASE late' = late \cup {Current}
    BY <1>3, <2>2, FS_AddElement
  <2> QED
    BY <1>6, <2>1, <2>2
<1>8. late' \subseteq Ops
  BY <1>3, <1>4, <1>6
<1>9. attaches + Cardinality(late') <= others' + fails'
  BY <1>2, <1>3, <1>7
<1>10. edits' \in 0..MaxEdits /\ others' \in 0..MaxOthers
  BY <1>2 DEF IInv, TypeOK
<1> QED
  BY <1>1, <1>2, <1>5, <1>7, <1>8, <1>9, <1>10 DEF Onward

LEMMA AskLostKeeps ==
    ASSUME IInv, AskLost
    PROVE  IInv'
<1>1. /\ pc = "ask" /\ pc \in Calling /\ Onward /\ doing # "none" /\ vol' = vol
      /\ op' = op \/ (Admissible(Current) /\ op' = Current)
  BY LostOnward, CallFacts DEF AskLost, Calling
<1>2. Current \in Ops /\ (doing = "delete" => Current \in {Detach, Delete})
  BY <1>1, CallFacts
<1>3. CASE vol.exists /\ op'.action = Current.action /\ Go("confirm", "none")
  <2>1. /\ Current' = Current /\ doing' = doing /\ quiet' = quiet
        /\ pc' = "confirm" /\ attempt' = attempt /\ attaches' = attaches
    BY <1>3 DEF Go, Current, history
  <2>2. doing = "delete" => op'.action # "attach" /\ op' = Current
    BY <1>1, <1>2, <1>3, OpFacts DEF IInv, TypeOK
  <2>3. QuietFits'
    BY <1>1, <1>2, <1>3, <2>1, <2>2 DEF QuietFits
  <2>4. doing = "delete" /\ Current = Delete /\ vol.inst # NoInstance =>
            attempt < attaches
    BY <1>1 DEF IInv, RefusalsCounted
  <2>5. RefusalsCounted'
    BY <1>1, <2>1, <2>2, <2>4 DEF IInv, RefusalsCounted
  <2> QED
    BY <1>1, <1>3, <2>3, <2>5, GoKeeps DEF Calling
<1>4. CASE vol.exists /\ op'.action # Current.action /\ Desired(Current) /\ Succeeded
  <2>1. op' = op
    BY <1>1, <1>4
  <2>2. doing = "delete" /\ quiet /\ Current = Detach => op = NoOp
    BY <1>1 DEF IInv, QuietFits
  <2> QED
    BY <1>1, <1>4, <2>1, <2>2, DesiredFacts, SucceededKeeps
<1>5. CASE ~vol.exists /\ Gone
  BY <1>1, <1>5, GoneKeeps
<1>6. CASE GiveUp
  BY <1>1, <1>6, GiveUpKeeps
<1> QED
  BY <1>3, <1>4, <1>5, <1>6 DEF AskLost

-----------------------------------------------------------------------------
(* Create, Update and Delete around the operations.                        *)

LEMMA CreateKeeps ==
    ASSUME IInv, Create
    PROVE  IInv'
<1>1. /\ pc = "create" /\ pc' = "provision" /\ seen' = "none"
      /\ vol' = [exists |-> TRUE, status |-> "pending", inst |-> NoInstance,
                 plan |-> want.plan]
      /\ UNCHANGED <<op, late, want, counts>>
      /\ UNCHANGED <<state, doing, todo, attempt, verdict, history>>
  BY DEF Create, Go
<1>2. doing = "create" /\ want # Absent /\ ~state.known /\ verdict # "ok"
  <2>1. doing = "create" /\ verdict # "ok"
    BY <1>1 DEF IInv, TypeOK, Positioned, Calling
  <2> QED
    BY <2>1 DEF IInv, Positioned, StateFits
<1>3. vol' \in Volumes /\ vol'.exists /\ vol'.inst = NoInstance
  BY <1>1, <1>2 DEF IInv, TypeOK, Volumes, Targets, Configs
<1>4. TypeOK'
  BY <1>1, <1>3 DEF IInv, TypeOK, counts, history, Volumes
<1>5. PlatformFits'
  BY <1>1, <1>3 DEF IInv, PlatformFits, counts, history
<1>6. Positioned'
  BY <1>1, <1>2 DEF IInv, Positioned, Calling
<1>7. StateFits' /\ Usable'
  BY <1>1, <1>2 DEF IInv, StateFits, Usable, Calling
<1>8. QuietFits' /\ RefusalsCounted' /\ OkMeansDone'
  BY <1>1, <1>2 DEF QuietFits, RefusalsCounted, OkMeansDone
<1> QED
  BY <1>4, <1>5, <1>6, <1>7, <1>8 DEF IInv

LEMMA CreateFailsKeeps ==
    ASSUME IInv, CreateFails
    PROVE  IInv'
<1>1. /\ pc = "create" /\ Failing /\ Return(NoState, "none")
      /\ UNCHANGED <<platform, want>> /\ Onward
  BY FailingOnward DEF CreateFails
<1>2. ~vol.exists
  BY <1>1 DEF IInv, StateFits
<1>3. NoState \in States
  BY SomePlan, Nothing DEF IInv
<1> QED
  BY <1>1, <1>2, <1>3, ReturnKeeps

LEMMA ProvisionKeeps ==
    ASSUME IInv, Provision
    PROVE  IInv'
<1>1. /\ pc = "provision" /\ vol.exists /\ vol.status = "available" /\ Steady /\ Onward
  BY SteadyOnward DEF Provision
<1>2. doing = "create" /\ want # Absent
  BY <1>1 DEF IInv, TypeOK, Positioned, Calling
<1>3. CASE want.inst = NoInstance
  BY <1>1, <1>2, <1>3, HandOverKeeps DEF Provision
<1>4. CASE want.inst # NoInstance
  <2> DEFINE o == [action |-> "attach", target |-> want.inst]
  <2>1. /\ todo' = <<o>> /\ pc' = "ask"
        /\ UNCHANGED <<state, doing, attempt, seen, verdict, history>>
    BY <1>4 DEF Provision
  <2>2. o \in Ops /\ o.action = "attach"
    BY <1>2, <1>4 DEF IInv, TypeOK, Configs, Targets, Ops
  <2> HIDE DEF o
  <2>3. todo' \in Seq(Ops) /\ Len(todo') = 1 /\ DOMAIN todo' = {1} /\ todo'[1] = o
    BY <2>1, <2>2
  <2>4. todo' # <<>> /\ Len(todo') <= 3
    BY <2>1
  <2>5. Positioned'
    BY <1>1, <1>2, <2>1, <2>2, <2>3 DEF IInv, Positioned, Onward, Calling
  <2>6. QuietFits' /\ RefusalsCounted'
    BY <1>2, <2>1 DEF QuietFits, RefusalsCounted
  <2>7. attempt' \in 0..2 /\ seen' \in {a.action : a \in Ops} \cup {"none"}
    BY <2>1 DEF IInv, TypeOK
  <2> QED
    BY <1>1, <1>2, <2>1, <2>3, <2>4, <2>5, <2>6, <2>7, StaysKeeps DEF Calling
<1> QED
  BY <1>3, <1>4

LEMMA ProvisionEndsKeeps ==
    ASSUME IInv, ProvisionEnds
    PROVE  IInv'
BY SteadyOnward, GiveUpKeeps DEF ProvisionEnds, IInv, Positioned

LEMMA RereadKeeps ==
    ASSUME IInv, Reread
    PROVE  IInv'
<1>1. /\ pc = "reread" /\ Steady /\ Onward
  BY SteadyOnward DEF Reread
<1>2. doing = "update" /\ state.known /\ ~state.tainted /\ state \in States
  BY <1>1 DEF IInv, TypeOK, Positioned, StateFits, Calling, States
<1>3. CASE vol.exists
  <2>1. vol.status = "available"
    BY <1>2, <1>3 DEF IInv, Usable
  <2> QED
    BY <1>1, <1>2, <1>3, <2>1, HandOverKeeps DEF Reread
<1>4. CASE ~vol.exists
  BY <1>1, <1>2, <1>4, ReturnKeeps DEF Reread
<1> QED
  BY <1>3, <1>4

LEMMA RereadFailsKeeps ==
    ASSUME IInv, RereadFails
    PROVE  IInv'
<1>1. /\ pc = "reread" /\ Return(state, "none") /\ Onward
  BY FailingOnward DEF RereadFails
<1>2. state.known /\ state \in States
  BY <1>1 DEF IInv, TypeOK, Positioned, StateFits, Calling, States
<1>3. vol.exists /\ ~state.tainted => vol.status = "available"
  BY <1>2 DEF IInv, Usable
<1> QED
  BY <1>1, <1>2, <1>3, ReturnKeeps

LEMMA MethodFailsKeeps ==
    ASSUME IInv, MethodFails
    PROVE  IInv'
<1>1. Onward
  BY FailingOnward DEF MethodFails
<1>2. doing # "none"
  BY DEF MethodFails, IInv, Positioned
<1> QED
  BY <1>1, <1>2, GiveUpKeeps DEF MethodFails

LEMMA SettleKeeps ==
    ASSUME IInv, Settle
    PROVE  IInv'
<1>1. /\ pc = "settle" /\ Steady /\ Onward /\ vol' = vol /\ op' = op /\ want' = want
      /\ ~vol.exists \/ op = NoOp
  BY SteadyOnward DEF Settle, Steady, platform
<1>2. doing = "delete"
  BY <1>1 DEF IInv, TypeOK, Positioned, Calling
<1>3. CASE ~vol.exists /\ Deleted
  BY <1>1, <1>2, <1>3, DeletedKeeps
<1>4. CASE /\ vol.exists
           /\ todo' = IF vol.inst = NoInstance THEN <<Delete>> ELSE <<Detach, Delete>>
           /\ pc' = "ask"
           /\ UNCHANGED <<state, doing, attempt, seen, verdict, history>>
  <2>1. op = NoOp /\ op.action # "attach"
    BY <1>1, <1>4, OpFacts
  <2>2. Detach \in Ops /\ Delete \in Ops /\ Detach # Delete
    BY OpFacts
  <2>3. /\ Current' = Detach <=> vol.inst # NoInstance
        /\ Current' = Delete <=> vol.inst = NoInstance
    <3>1. CASE vol.inst = NoInstance
      <4>1. todo' = <<Delete>>
        BY <1>4, <3>1
      <4>2. Current' = Delete
        BY <4>1 DEF Current
      <4> QED
        BY <2>2, <3>1, <4>2
    <3>2. CASE vol.inst # NoInstance
      <4>1. todo' = <<Detach, Delete>>
        BY <1>4, <3>2
      <4>2. Current' = Detach
        BY <4>1 DEF Current
      <4> QED
        BY <2>2, <3>2, <4>2
    <3> QED
      BY <3>1, <3>2
  <2>4. todo' \in {<<Delete>>, <<Detach, Delete>>}
    BY <1>4
  <2>5. todo' \in Seq(Ops) /\ Len(todo') <= 3 /\ todo' # <<>>
    <3>1. CASE todo' = <<Delete>>
      BY <2>2, <3>1
    <3>2. CASE todo' = <<Detach, Delete>>
      BY <2>2, <3>2
    <3> QED
      BY <2>4, <3>1, <3>2
  <2>6. Positioned'
    BY <1>1, <1>2, <1>4, <2>4 DEF IInv, Positioned, Calling
  <2>7. QuietFits'
    BY <1>1, <1>4, <2>1, <2>3 DEF QuietFits
  <2>8. RefusalsCounted'
    BY <1>1, <1>2, <1>4, <2>1, <2>3 DEF IInv, RefusalsCounted, history
  <2>9. attempt' \in 0..2 /\ seen' \in {a.action : a \in Ops} \cup {"none"}
    BY <1>4 DEF IInv, TypeOK
  <2> QED
    BY <1>1, <1>2, <1>4, <2>5, <2>6, <2>7, <2>8, <2>9, StaysKeeps DEF Calling
<1> QED
  BY <1>3, <1>4 DEF Settle

LEMMA MethodKeeps ==
    ASSUME IInv, Method
    PROVE  IInv'
BY AskAcceptedKeeps, AskAppliedKeeps, AskBusyKeeps, AskRefusedKeeps, AskMissingKeeps,
   AskLostKeeps, BusyKeeps, ConfirmKeeps, CreateKeeps, CreateFailsKeeps,
   ProvisionKeeps, ProvisionEndsKeeps, RereadKeeps, SettleKeeps, MethodFailsKeeps,
   RereadFailsKeeps DEF Method, Asks

-----------------------------------------------------------------------------
(* Read and plan.                                                          *)

LEMMA RefreshKeeps ==
    ASSUME IInv, Refresh
    PROVE  IInv'
<1>1. /\ pc = "idle" /\ pc' = "plan" /\ verdict' = "running"
      /\ UNCHANGED <<platform, want, doing, todo, attempt, seen, history, counts>>
  BY DEF Refresh
<1>2. doing = "none" /\ NoState \in States /\ ~NoState.known
  BY <1>1, SomePlan, Nothing DEF IInv, Positioned
<1>3. /\ ~(state.known /\ vol.exists) => state' = NoState
      /\ state.known /\ vol.exists =>
            /\ state' \in States /\ state'.known /\ state'.tainted = state.tainted
            /\ state'.inst = vol.inst /\ state'.plan = vol.plan
  <2>1. CASE state.known /\ vol.exists
    <3>1. state' = [Shown EXCEPT !.tainted = state.tainted]
      BY <2>1 DEF Refresh
    <3>2. state' = [known |-> TRUE, inst |-> vol.inst, plan |-> vol.plan,
                    tainted |-> state.tainted]
      BY <3>1 DEF Shown
    <3> QED
      BY <2>1, <3>2 DEF IInv, TypeOK, States
  <2>2. CASE ~(state.known /\ vol.exists)
    BY <2>2 DEF Refresh
  <2> QED
    BY <2>1, <2>2
<1>4. TypeOK'
  BY <1>1, <1>2, <1>3 DEF IInv, TypeOK, States, platform, history, counts
<1>5. PlatformFits'
  BY <1>1 DEF IInv, PlatformFits, platform, history, counts
<1>6. Positioned'
  BY <1>1, <1>2 DEF IInv, Positioned
<1>7. StateFits'
  BY <1>1, <1>2, <1>3 DEF IInv, StateFits, platform
<1>8. Usable'
  BY <1>1, <1>2, <1>3 DEF IInv, Usable, platform
<1>9. QuietFits' /\ RefusalsCounted' /\ OkMeansDone'
  BY <1>1, <1>2 DEF QuietFits, RefusalsCounted, OkMeansDone
<1> QED
  BY <1>4, <1>5, <1>6, <1>7, <1>8, <1>9 DEF IInv

\* The steps of an update: three operations at most, none of them a delete, and
\* one at least for a difference.
LEMMA UpdateStepsFacts ==
    ASSUME IInv, want # Absent
    PROVE  /\ UpdateSteps \in Seq(Ops) /\ Len(UpdateSteps) <= 3
           /\ \A i \in DOMAIN UpdateSteps : UpdateSteps[i].action # "delete"
           /\ ~AsWanted(state) => UpdateSteps # <<>>
<1> DEFINE S == {o \in Ops : o.action # "delete"}
           r == [action |-> "resize", target |-> want.plan]
           a == [action |-> "attach", target |-> want.inst]
<1>1. /\ want.inst \in Targets /\ want.plan \in Plans
      /\ state.inst \in Targets /\ state.plan \in Plans
  BY DEF IInv, TypeOK, Configs
<1>2. r \in S /\ Detach \in S /\ (want.inst # NoInstance => a \in S)
  BY <1>1, OpFacts DEF Ops, Targets
<1> HIDE DEF S, r, a
<1>3. PICK p : p = IF want.plan # state.plan THEN <<r>> ELSE <<>>
  OBVIOUS
<1>4. PICK q : q = IF want.inst # state.inst /\ state.inst # NoInstance
                     THEN <<Detach>> ELSE <<>>
  OBVIOUS
<1>5. PICK t : t = IF want.inst \notin {state.inst, NoInstance} THEN <<a>> ELSE <<>>
  OBVIOUS
<1>6. UpdateSteps = p \o q \o t
  BY <1>3, <1>4, <1>5 DEF UpdateSteps, r, a
<1>7. /\ p \in Seq(S) /\ Len(p) \in 0..1 /\ (want.plan # state.plan => Len(p) = 1)
  BY <1>2, <1>3
<1>8. /\ q \in Seq(S) /\ Len(q) \in 0..1
      /\ want.inst # state.inst /\ state.inst # NoInstance => Len(q) = 1
  BY <1>2, <1>4
<1>9. /\ t \in Seq(S) /\ Len(t) \in 0..1
      /\ want.inst \notin {state.inst, NoInstance} => Len(t) = 1
  BY <1>2, <1>5
<1>10. /\ p \o q \in Seq(S) /\ Len(p \o q) = Len(p) + Len(q)
       /\ (p \o q) \o t \in Seq(S) /\ Len((p \o q) \o t) = Len(p \o q) + Len(t)
  BY <1>7, <1>8, <1>9, ConcatProperties
<1> DEFINE u == (p \o q) \o t
<1>11. u \in Seq(S) /\ Len(u) = Len(p) + Len(q) + Len(t)
  BY <1>7, <1>8, <1>9, <1>10
<1> HIDE DEF u
<1>12. u \in Seq(Ops) /\ \A i \in DOMAIN u : u[i].action # "delete"
  <2>1. \A i \in 1..Len(u) : u[i] \in S
    BY <1>11, ElementOfSeq
  <2>2. DOMAIN u = 1..Len(u) /\ u \in [1..Len(u) -> S] /\ Len(u) \in Nat
    BY <1>11, LenProperties
  <2>3. u \in [1..Len(u) -> Ops]
    BY <2>1, <2>2 DEF S
  <2>4. u \in Seq(Ops)
    BY <2>2, <2>3, IsASeq
  <2> QED
    BY <2>1, <2>2, <2>4 DEF S
<1>13. Len(u) <= 3
  <2>1. \A x, y, z \in 0..1 : x + y + z <= 3
    OBVIOUS
  <2> QED
    BY <1>7, <1>8, <1>9, <1>11, <2>1
<1>14. ASSUME ~AsWanted(state) PROVE u # <<>>
  <2>1. Len(u) > 0
    <3>1. CASE want.plan # state.plan
      BY <1>7, <1>8, <1>9, <1>11, <3>1
    <3>2. CASE want.inst # state.inst /\ state.inst # NoInstance
      BY <1>7, <1>8, <1>9, <1>11, <3>2
    <3>3. CASE want.inst # state.inst /\ state.inst = NoInstance
      BY <1>7, <1>8, <1>9, <1>11, <3>3
    <3> QED
      BY <1>14, <3>1, <3>2, <3>3 DEF AsWanted
  <2>2. Len(<<>>) = 0
    OBVIOUS
  <2> QED
    BY <2>1, <2>2
<1> QED
  BY <1>6, <1>12, <1>13, <1>14 DEF u

LEMMA PlanKeeps ==
    ASSUME IInv, Plan
    PROVE  IInv'
<1>1. /\ pc = "plan" /\ doing = "none" /\ attempt = 0
      /\ UNCHANGED <<platform, want, counts>> /\ Onward
      /\ vol' = vol /\ op' = op /\ late' = late /\ want' = want
  BY SteadyOnward DEF Plan, IInv, Positioned, Steady, platform
<1>2. verdict # "ok" /\ attaches \in Nat
  BY <1>1, BoundsAssumption DEF IInv, TypeOK, Positioned
<1>3. ASSUME NEW d \in {"create", "update", "delete"}, NEW p, NEW steps,
             Start(d, p, steps),
             <<d, p>> \in {<<"create", "create">>, <<"update", "ask">>,
                           <<"delete", "settle">>},
             d = "create" => ~state.known /\ want # Absent /\ steps = <<>>,
             d = "update" => /\ state.known /\ want # Absent /\ ~state.tainted
                             /\ ~AsWanted(state) /\ steps = UpdateSteps,
             d = "delete" => state.known /\ steps = <<>>
      PROVE  IInv'
  <2>1. /\ doing' = d /\ pc' = p /\ todo' = steps /\ quiet' = TRUE
        /\ UNCHANGED <<state, attempt, seen, verdict, attaches>>
    BY <1>3 DEF Start
  <2>2. /\ d = "create" => p = "create"
        /\ d = "update" => p = "ask"
        /\ d = "delete" => p = "settle"
    BY <1>3
  <2>3. /\ todo' \in Seq(Ops) /\ Len(todo') <= 3 /\ (d = "update" => todo' # <<>>)
        /\ d # "delete" => \A i \in DOMAIN todo' : todo'[i].action # "delete"
    <3>1. CASE d = "update"
      BY <1>3, <2>1, <3>1, UpdateStepsFacts
    <3>2. CASE d # "update"
      <4>1. todo' = <<>>
        BY <1>3, <2>1, <3>2
      <4> QED
        BY <3>2, <4>1
    <3> QED
      BY <3>1, <3>2
  <2>4. TypeOK'
    <3>1. pc' \in {"create", "ask", "settle"} /\ (pc' = "ask" => todo' # <<>>)
      BY <1>3, <2>1, <2>2, <2>3
    <3> QED
      BY <1>1, <1>3, <2>1, <2>3, <3>1 DEF IInv, TypeOK, counts
  <2>5. PlatformFits'
    BY <1>1, <2>1 DEF IInv, PlatformFits, counts
  <2>6. Positioned'
    BY <1>1, <1>2, <1>3, <2>1, <2>2, <2>3 DEF Positioned, Calling
  <2>7. StateFits'
    BY <1>1, <1>3, <2>1, <2>2 DEF IInv, StateFits
  <2>8. Usable'
    BY <1>1, <1>3, <2>1, <2>2 DEF IInv, Usable, Calling
  <2>9. QuietFits' /\ RefusalsCounted'
    BY <1>1, <1>2, <1>3, <2>1, <2>2 DEF QuietFits, RefusalsCounted, Calling
  <2>10. OkMeansDone'
    BY <1>2, <2>1 DEF OkMeansDone
  <2> QED
    BY <2>4, <2>5, <2>6, <2>7, <2>8, <2>9, <2>10 DEF IInv
<1>4. CASE ~state.known /\ want # Absent /\ Start("create", "create", <<>>)
  BY <1>3, <1>4
<1>5. CASE /\ state.known /\ (want = Absent \/ state.tainted)
           /\ Start("delete", "settle", <<>>)
  BY <1>3, <1>5
<1>6. CASE /\ state.known /\ want # Absent /\ ~state.tainted /\ ~AsWanted(state)
           /\ Start("update", "ask", UpdateSteps)
  BY <1>3, <1>6
<1>7. CASE /\ IF state.known
                THEN want # Absent /\ ~state.tainted /\ AsWanted(state)
                ELSE want = Absent
           /\ Return(state, Ok)
  <2>1. Ok \in {"none", "ok"} /\ (Ok = "ok" => verdict = "running")
    BY <1>1, Verdicts
  <2>2. state \in States /\ (~state.known => state = NoState /\ ~vol.exists)
    BY <1>1 DEF IInv, TypeOK, StateFits, States
  <2>3. vol.exists /\ state.known /\ ~state.tainted => vol.status = "available"
    BY DEF IInv, Usable
  <2>4. Ok = "ok" /\ state.known =>
           vol.exists /\ vol.inst = state.inst /\ vol.plan = state.plan
    BY <1>1, <2>1 DEF IInv, StateFits
  <2>5. state.known => state.inst = want.inst /\ state.plan = want.plan
    BY <1>7 DEF AsWanted
  <2> QED
    BY <1>1, <1>7, <2>1, <2>2, <2>3, <2>4, <2>5, ReturnKeeps
<1> QED
  BY <1>4, <1>5, <1>6, <1>7 DEF Plan

-----------------------------------------------------------------------------
(* The platform, other people and the practitioner.                        *)

\* What an operation makes of the volume it is of.
LEMMA OpDoneKeeps ==
    ASSUME IInv, OpDone
    PROVE  IInv'
<1>1. /\ op # NoOp /\ vol' = Applied(op) /\ op' = NoOp
      /\ verdict' = IF pc \in {"idle", "plan"} THEN "none" ELSE verdict
      /\ UNCHANGED <<late, state, want, doing, pc, todo, attempt, seen, history, counts>>
  BY DEF OpDone, Overtaken
<1>2. op \in Ops /\ vol.exists /\ Current' = Current
  BY <1>1 DEF IInv, TypeOK, PlatformFits, Current
<1>3. /\ NoVolume \in Volumes /\ ~NoVolume.exists /\ NoVolume.inst = NoInstance
  BY SomePlan, Nothing DEF IInv
<1>4. vol' \in Volumes
  BY <1>1, <1>2, AppliedFacts DEF IInv
<1>5. CASE op.action = "delete"
  <2>1. ~vol'.exists /\ vol'.inst = NoInstance
    BY <1>1, <1>2, <1>3, <1>5, AppliedFacts DEF IInv
  <2>2. PlatformFits' /\ Usable'
    BY <1>1, <2>1, OpFacts DEF IInv, PlatformFits, Usable, history, counts
  <2>3. StateFits'
    <3>1. pc = "plan" => verdict' # "running"
      BY <1>1
    <3> QED
      BY <1>1, <2>1, <3>1 DEF IInv, StateFits
  <2>4. QuietFits'
    <3>1. op = Delete /\ Detach # Delete
      BY <1>2, <1>5, OpFacts
    <3>2. doing = "delete" /\ pc \in Calling => Current \in {Detach, Delete}
      BY CallFacts DEF IInv
    <3> QED
      BY <1>1, <1>2, <2>1, <3>1, <3>2, OpFacts DEF IInv, QuietFits, history, Calling
  <2>5. RefusalsCounted'
    BY <1>1, <1>2, <2>1, OpFacts DEF IInv, RefusalsCounted, history
  <2> QED
    BY <1>1, <1>4, <2>2, <2>3, <2>4, <2>5 DEF IInv, TypeOK, Volumes, Positioned,
       OkMeansDone, history, counts
<1>6. CASE op.action # "delete"
  <2>1. /\ vol'.exists = vol.exists /\ vol'.status = vol.status
        /\ op.action \in {"attach", "detach"} => vol'.inst = op.target
        /\ op.action = "resize" => vol'.inst = vol.inst
        /\ op.action \in {"attach", "detach", "resize"}
    <3>1. op.action \in {"attach", "detach", "resize"}
      BY <1>2, <1>6, OpFacts
    <3>2. CASE op.action = "resize"
      <4>1. vol' = [exists |-> vol.exists, status |-> vol.status,
                    inst |-> vol.inst, plan |-> op.target]
        BY <1>1, <1>2, <3>2, AppliedFacts DEF IInv
      <4> QED
        BY <3>2, <4>1
    <3>3. CASE op.action \in {"attach", "detach"}
      <4>1. vol' = [exists |-> vol.exists, status |-> vol.status,
                    inst |-> op.target, plan |-> vol.plan]
        BY <1>1, <1>2, <3>3, AppliedFacts DEF IInv
      <4> QED
        BY <3>3, <4>1
    <3> QED
      BY <3>1, <3>2, <3>3
  <2>2. PlatformFits' /\ Usable'
    BY <1>1, <1>2, <2>1, OpFacts DEF IInv, PlatformFits, Usable, history, counts
  <2>3. StateFits'
    <3>1. pc = "plan" => verdict' # "running"
      BY <1>1
    <3> QED
      BY <1>1, <1>2, <2>1, <3>1 DEF IInv, StateFits
  <2>4. QuietFits'
    <3>1. op # Delete /\ (op = Detach => vol'.inst = NoInstance)
      BY <1>2, <1>6, <2>1, OpFacts
    <3> QED
      BY <1>1, <1>2, <2>1, <3>1, OpFacts DEF IInv, QuietFits, history
  <2>5. RefusalsCounted'
    <3>1. doing = "delete" /\ pc \in Calling /\ Current = Delete
             /\ vol'.inst # NoInstance =>
                op.action = "attach" \/ vol.inst # NoInstance
      BY <1>2, <2>1, OpFacts
    <3> QED
      BY <1>1, <1>2, <3>1, OpFacts DEF IInv, RefusalsCounted, history
  <2> QED
    BY <1>1, <1>4, <2>2, <2>3, <2>4, <2>5 DEF IInv, TypeOK, Volumes, Positioned,
       OkMeansDone, history, counts
<1> QED
  BY <1>5, <1>6

LEMMA OpFailsKeeps ==
    ASSUME IInv, OpFails
    PROVE  IInv'
<1>1. /\ op # NoOp /\ op' = NoOp /\ Failing /\ quiet' \in BOOLEAN /\ ~quiet'
      /\ UNCHANGED <<vol, late, state, want, doing, pc, todo, attempt, seen,
                     verdict, attaches>>
  BY DEF OpFails
<1>2. /\ fails' \in 0..MaxFailures /\ fails' = fails + 1
      /\ others' = others /\ edits' = edits
  BY <1>1, BoundsAssumption DEF IInv, TypeOK, Failing
<1>3. TypeOK'
  <2>1. /\ fails' \in 0..MaxFailures /\ others' \in 0..MaxOthers
        /\ edits' \in 0..MaxEdits
    BY <1>2 DEF IInv, TypeOK
  <2> QED
    BY <1>1, <2>1 DEF IInv, TypeOK
<1>4. PlatformFits'
  <2>1. /\ attaches \in Nat /\ fails \in Nat /\ others \in Nat
        /\ Cardinality(late) \in Nat
    BY FS_CardinalityType, BoundsAssumption DEF IInv, PlatformFits, TypeOK
  <2>2. attaches + Cardinality(late) <= others + fails'
    BY <1>2, <2>1 DEF IInv, PlatformFits
  <2> QED
    BY <1>1, <1>2, <2>2, OpFacts DEF IInv, PlatformFits
<1>5. Positioned' /\ StateFits' /\ Usable'
  BY <1>1 DEF IInv, Positioned, StateFits, Usable
<1>6. QuietFits'
  BY <1>1 DEF QuietFits
<1>7. RefusalsCounted'
  BY <1>1, OpFacts DEF IInv, RefusalsCounted, Current
<1>8. OkMeansDone'
  BY <1>1 DEF IInv, OkMeansDone, AsWanted
<1> QED
  BY <1>3, <1>4, <1>5, <1>6, <1>7, <1>8 DEF IInv

LEMMA ProvisionedKeeps ==
    ASSUME IInv, Provisioned
    PROVE  IInv'
<1>1. /\ vol.exists /\ vol.status = "pending"
      /\ UNCHANGED <<op, late, state, want, doing, pc, todo, attempt, seen,
                     verdict, history>>
  BY DEF Provisioned
<1>2. PICK st \in {"available", "failed"} : vol' = [vol EXCEPT !.status = st]
  BY DEF Provisioned
<1>3. vol' = [exists |-> vol.exists, status |-> st, inst |-> vol.inst, plan |-> vol.plan]
  BY <1>2 DEF IInv, TypeOK
<1>4. vol' \in Volumes /\ vol'.exists = vol.exists /\ vol'.inst = vol.inst
      /\ vol'.plan = vol.plan
  BY <1>3 DEF IInv, TypeOK, Volumes
<1>5. /\ fails' \in 0..MaxFailures /\ fails' >= fails /\ others' = others /\ edits' = edits
  BY BoundsAssumption DEF IInv, TypeOK, Provisioned, Failing, counts
<1>6. Current' = Current
  BY <1>1 DEF Current
<1>7. TypeOK'
  BY <1>1, <1>4, <1>5 DEF IInv, TypeOK, Volumes, history
<1>8. PlatformFits'
  <2>1. /\ attaches \in Nat /\ fails \in Nat /\ others \in Nat
        /\ Cardinality(late) \in Nat
    BY FS_CardinalityType, BoundsAssumption DEF IInv, PlatformFits, TypeOK
  <2>2. attaches + Cardinality(late) <= others + fails'
    BY <1>5, <2>1 DEF IInv, PlatformFits
  <2> QED
    BY <1>1, <1>4, <1>5, <2>2 DEF IInv, PlatformFits, history
<1>9. Positioned' /\ StateFits'
  BY <1>1, <1>4 DEF IInv, Positioned, StateFits
<1>10. Usable'
  BY <1>1, <1>4 DEF IInv, Usable
<1>11. QuietFits' /\ RefusalsCounted'
  BY <1>1, <1>4, <1>6 DEF IInv, QuietFits, RefusalsCounted, history
<1>12. OkMeansDone'
  BY <1>1 DEF IInv, OkMeansDone
<1> QED
  BY <1>7, <1>8, <1>9, <1>10, <1>11, <1>12 DEF IInv

\* An operation the method did not send; of the platform's invariant, all but
\* what pays for an attach.
LEMMA IntrudesKeeps ==
    ASSUME IInv, NEW o \in Ops, Intrudes(o) \/ UNCHANGED <<op, attaches>>,
           quiet' \in BOOLEAN, ~quiet',
           UNCHANGED <<vol, state, want, doing, pc, todo, attempt, seen, verdict>>,
           late' \subseteq late, IsFiniteSet(late'),
           attaches' + Cardinality(late') <= others' + fails',
           fails' = fails, edits' = edits, others' \in 0..MaxOthers
    PROVE  IInv'
<1>1. /\ \/ op' = op
         \/ /\ op' = o /\ vol.exists
            /\ o.action = "attach" => vol.inst = NoInstance
      /\ attaches' = attaches \/ attaches' = attaches + 1
      /\ doing = "delete" /\ o.action = "attach" =>
            op' = op \/ attaches' = attaches + 1
  BY DEF Intrudes, Admissible, RuledOut
<1>2. /\ attaches \in Nat /\ attaches' \in Nat /\ attempt \in Nat
      /\ Cardinality(late') \in Nat /\ fails \in 0..MaxFailures
  BY <1>1, FS_CardinalityType, BoundsAssumption DEF IInv, TypeOK
<1>3. attaches' \in 0..(MaxOthers + MaxFailures)
  BY <1>2, BoundsAssumption
<1>4. TypeOK'
  <2>1. op' \in Ops \cup {NoOp} /\ late' \subseteq Ops
    BY <1>1 DEF IInv, TypeOK
  <2> QED
    BY <1>3, <2>1 DEF IInv, TypeOK
<1>5. PlatformFits'
  BY <1>1 DEF IInv, PlatformFits
<1>6. Positioned' /\ StateFits' /\ Usable'
  BY DEF IInv, Positioned, StateFits, Usable
<1>7. QuietFits'
  BY DEF QuietFits
<1>8. Current' = Current
  BY DEF Current
<1>9. RefusalsCounted'
  <2>1. CASE op' = op
    BY <1>1, <1>2, <1>8, <2>1 DEF IInv, RefusalsCounted
  <2>2. CASE op' # op
    BY <1>1, <1>2, <1>8, <2>2 DEF IInv, RefusalsCounted
  <2> QED
    BY <2>1, <2>2
<1>10. OkMeansDone'
  BY DEF IInv, OkMeansDone, AsWanted
<1> QED
  BY <1>4, <1>5, <1>6, <1>7, <1>9, <1>10 DEF IInv

LEMMA LateArrivesKeeps ==
    ASSUME IInv, NEW o \in Ops, LateArrives(o)
    PROVE  IInv'
<1>1. /\ o \in late /\ late' = late \ {o} /\ quiet' = FALSE
      /\ UNCHANGED <<vol, state, want, doing, pc, todo, attempt, seen, verdict, counts>>
      /\ Intrudes(o) \/ UNCHANGED <<op, attaches>>
  BY DEF LateArrives
<1>2. /\ IsFiniteSet(late) /\ attaches + Cardinality(late) <= others + fails
      /\ attaches \in Nat /\ others \in 0..MaxOthers /\ fails \in Nat
  BY BoundsAssumption DEF IInv, TypeOK, PlatformFits
<1>3. IsFiniteSet(late') /\ Cardinality(late') = Cardinality(late) - 1
      /\ Cardinality(late) \in Nat
  BY <1>1, <1>2, FS_RemoveElement, FS_CardinalityType
<1>4. attaches' = attaches \/ attaches' = attaches + 1
  BY <1>1 DEF Intrudes
<1>5. attaches' + Cardinality(late') <= others + fails
  BY <1>2, <1>3, <1>4, BoundsAssumption
<1> QED
  BY <1>1, <1>2, <1>3, <1>5, IntrudesKeeps DEF counts

LEMMA SomebodyElseKeeps ==
    ASSUME IInv, NEW o \in Ops, SomebodyElse(o)
    PROVE  IInv'
<1>1. /\ others < MaxOthers /\ others' = others + 1 /\ Intrudes(o) /\ quiet' = FALSE
      /\ UNCHANGED <<vol, late, state, want, doing, pc, todo, attempt, seen,
                     verdict, fails, edits>>
  BY DEF SomebodyElse
<1>2. /\ IsFiniteSet(late) /\ attaches + Cardinality(late) <= others + fails
      /\ attaches \in Nat /\ others \in Nat /\ fails \in Nat /\ Cardinality(late) \in Nat
  BY FS_CardinalityType, BoundsAssumption DEF IInv, TypeOK, PlatformFits
<1>3. others' \in 0..MaxOthers
  BY <1>1, BoundsAssumption DEF IInv, TypeOK
<1>4. attaches' = attaches \/ attaches' = attaches + 1
  BY <1>1 DEF Intrudes
<1>5. attaches' + Cardinality(late') <= others' + fails'
  BY <1>1, <1>2, <1>4
<1> QED
  BY <1>1, <1>2, <1>3, <1>5, IntrudesKeeps

LEMMA EditKeeps ==
    ASSUME IInv, Edit
    PROVE  IInv'
<1>1. /\ pc = "idle" /\ want' \in Configs \cup {Absent} /\ verdict' = "none"
      /\ edits < MaxEdits /\ edits' = edits + 1
      /\ UNCHANGED <<platform, state, doing, pc, todo, attempt, seen, history,
                     fails, others>>
  BY DEF Edit
<1>2. doing = "none"
  BY <1>1 DEF IInv, Positioned
<1>3. edits' \in 0..MaxEdits
  BY <1>1, BoundsAssumption DEF IInv, TypeOK
<1>4. TypeOK'
  BY <1>1, <1>3 DEF IInv, TypeOK, platform, history
<1>5. PlatformFits'
  BY <1>1 DEF IInv, PlatformFits, platform, history
<1>6. Positioned'
  BY <1>1, <1>2 DEF IInv, Positioned
<1>7. StateFits' /\ Usable'
  BY <1>1, <1>2 DEF IInv, StateFits, Usable, platform
<1>8. QuietFits' /\ RefusalsCounted' /\ OkMeansDone'
  BY <1>1, <1>2 DEF QuietFits, RefusalsCounted, OkMeansDone
<1> QED
  BY <1>4, <1>5, <1>6, <1>7, <1>8 DEF IInv

LEMMA InitInv == Init => IInv
<1> SUFFICES ASSUME Init PROVE IInv
  OBVIOUS
<1>1. /\ vol = NoVolume /\ op = NoOp /\ late = {} /\ state = NoState
      /\ want \in Configs /\ doing = "none" /\ pc = "idle" /\ todo = <<>>
      /\ attempt = 0 /\ seen = "none" /\ verdict = "none"
      /\ quiet = TRUE /\ attaches = 0 /\ fails = 0 /\ others = 0 /\ edits = 0
  BY DEF Init
<1>2. Plans # {}
  BY <1>1 DEF Configs
<1>3. /\ NoVolume \in Volumes /\ ~NoVolume.exists /\ NoVolume.inst = NoInstance
      /\ NoState \in States /\ ~NoState.known
  BY <1>2, Nothing
<1>4. TypeOK
  <2>1. todo \in Seq(Ops) /\ Len(todo) <= 3
    BY <1>1
  <2>2. attaches \in 0..(MaxOthers + MaxFailures) /\ fails \in 0..MaxFailures
        /\ others \in 0..MaxOthers /\ edits \in 0..MaxEdits
    BY <1>1, BoundsAssumption
  <2> QED
    BY <1>1, <1>3, <2>1, <2>2 DEF TypeOK, Volumes, States
<1>5. PlatformFits
  <2>1. IsFiniteSet(late) /\ Cardinality(late) = 0
    BY <1>1, FS_EmptySet
  <2>2. attaches + Cardinality(late) <= others + fails
    BY <1>1, <2>1
  <2> QED
    BY <1>1, <1>3, <2>1, <2>2, OpFacts DEF PlatformFits
<1>6. Positioned
  BY <1>1 DEF Positioned
<1>7. StateFits /\ Usable
  BY <1>1, <1>3 DEF StateFits, Usable
<1>8. QuietFits /\ RefusalsCounted /\ OkMeansDone
  BY <1>1 DEF QuietFits, RefusalsCounted, OkMeansDone
<1> QED
  BY <1>4, <1>5, <1>6, <1>7, <1>8 DEF IInv

LEMMA StutterKeeps == IInv /\ UNCHANGED vars => IInv'
<1> SUFFICES ASSUME IInv, UNCHANGED vars PROVE IInv'
  OBVIOUS
<1>1. /\ vol' = vol /\ op' = op /\ late' = late /\ state' = state /\ want' = want
      /\ doing' = doing /\ pc' = pc /\ todo' = todo /\ attempt' = attempt
      /\ seen' = seen /\ verdict' = verdict /\ quiet' = quiet
      /\ attaches' = attaches /\ fails' = fails /\ others' = others /\ edits' = edits
  BY DEF vars, platform, history, counts
<1>2. TypeOK' /\ PlatformFits'
  BY <1>1 DEF IInv, TypeOK, PlatformFits
<1>3. Positioned' /\ StateFits' /\ Usable'
  BY <1>1 DEF IInv, Positioned, StateFits, Usable
<1>4. QuietFits' /\ RefusalsCounted' /\ OkMeansDone'
  BY <1>1 DEF IInv, QuietFits, RefusalsCounted, OkMeansDone, Current, AsWanted
<1> QED
  BY <1>2, <1>3, <1>4 DEF IInv

LEMMA NextKeeps == IInv /\ [Next]_vars => IInv'
<1> SUFFICES ASSUME IInv, [Next]_vars PROVE IInv'
  OBVIOUS
<1>1. CASE Refresh
  BY <1>1, RefreshKeeps
<1>2. CASE Plan
  BY <1>2, PlanKeeps
<1>3. CASE Method
  BY <1>3, MethodKeeps
<1>4. CASE OpDone
  BY <1>4, OpDoneKeeps
<1>5. CASE OpFails
  BY <1>5, OpFailsKeeps
<1>6. CASE Provisioned
  BY <1>6, ProvisionedKeeps
<1>7. ASSUME NEW o \in Ops, LateArrives(o) PROVE IInv'
  BY <1>7, LateArrivesKeeps
<1>8. ASSUME NEW o \in Ops, SomebodyElse(o) PROVE IInv'
  BY <1>8, SomebodyElseKeeps
<1>9. CASE Edit
  BY <1>9, EditKeeps
<1>10. CASE UNCHANGED vars
  BY <1>10, StutterKeeps
<1> QED
  BY <1>1, <1>2, <1>3, <1>4, <1>5, <1>6, <1>7, <1>8, <1>9, <1>10 DEF Next

-----------------------------------------------------------------------------
(* A destroy that gives up.                                                *)

\* A destroy that ends in success leaves no state.
LEMMA SucceededIsNoGivingUp ==
    ASSUME IInv, doing = "delete", Succeeded \/ Deleted
    PROVE  ~DestroyGivesUp
<1>1. ~NoState.known
  BY SomePlan, Nothing DEF IInv
<1>2. ASSUME Deleted PROVE ~DestroyGivesUp
  BY <1>1, <1>2 DEF Deleted, Return, DestroyGivesUp
<1> QED
  BY <1>2 DEF Succeeded, DestroyGivesUp

\* Why a call of a destroy gives up, if not for a failure.
Reason == ~quiet /\ (RefusedAsAttached => attaches > 2)

LEMMA AskRefusedHasReason ==
    ASSUME IInv, AskRefused, DestroyGivesUp
    PROVE  Reason
<1>1. /\ pc = "ask" /\ pc \in Calling /\ doing = "delete"
      /\ vol.exists /\ op = NoOp /\ RuledOut(Current)
  BY DEF AskRefused, DestroyGivesUp, Calling
<1>2. ~Succeeded
  BY <1>1, SucceededIsNoGivingUp
<1>3. Current = Delete => AskedEnough
  BY <1>1, <1>2 DEF AskRefused, DestroyGivesUp
<1>4. Current \in {Detach, Delete}
  BY <1>1, CallFacts
<1>5. ~quiet
  <2> SUFFICES ASSUME quiet PROVE FALSE
    OBVIOUS
  <2>1. Current = Detach <=> vol.inst # NoInstance
    BY <1>1 DEF IInv, QuietFits
  <2> QED
    BY <1>1, <1>4, <2>1, OpFacts DEF RuledOut
<1>6. RefusedAsAttached => attaches > 2
  <2> SUFFICES ASSUME RefusedAsAttached PROVE attaches > 2
    OBVIOUS
  <2>1. Current = Delete /\ vol.inst # NoInstance
    BY DEF RefusedAsAttached
  <2>2. attempt = 2 /\ attempt < attaches
    BY <1>1, <1>3, <2>1 DEF IInv, RefusalsCounted, AskedEnough
  <2> QED
    BY <2>2, BoundsAssumption DEF IInv, TypeOK
<1> QED
  BY <1>5, <1>6 DEF Reason

LEMMA ConfirmHasReason ==
    ASSUME IInv, Confirm, DestroyGivesUp
    PROVE  Reason
<1>1. /\ pc = "confirm" /\ pc \in Calling /\ doing = "delete"
      /\ ~vol.exists \/ op.action # Current.action
  BY DEF Confirm, DestroyGivesUp, Calling
<1>2. ~Succeeded
  BY <1>1, SucceededIsNoGivingUp
<1>3. \/ ~vol.exists /\ Current.action # "delete"
      \/ vol.exists /\ ~Desired(Current)
  BY <1>2 DEF Confirm, Gone
<1>4. Current \in {Detach, Delete}
  BY <1>1, CallFacts
<1>5. ~quiet
  <2> SUFFICES ASSUME quiet PROVE FALSE
    OBVIOUS
  <2>1. CASE Current = Detach
    <3>1. vol.exists /\ (op = Detach \/ (op = NoOp /\ vol.inst = NoInstance))
      BY <1>1, <2>1 DEF IInv, QuietFits
    <3> QED
      BY <1>1, <1>3, <2>1, <3>1, OpFacts DEF Desired
  <2>2. CASE Current = Delete
    <3>1. op = Delete \/ ~vol.exists
      BY <1>1, <2>2 DEF IInv, QuietFits
    <3> QED
      BY <1>1, <1>3, <2>2, <3>1, OpFacts
  <2> QED
    BY <1>4, <2>1, <2>2
<1> QED
  BY <1>1, <1>5 DEF Reason, RefusedAsAttached

LEMMA MethodHasReason ==
    ASSUME IInv, Method, DestroyGivesUp, fails' = fails
    PROVE  Reason
<1>1. doing = "delete" /\ doing' = "none" /\ doing' # doing
  BY DEF DestroyGivesUp
<1>2. /\ pc \in {"settle", "ask", "busy", "confirm"}
      /\ fails \in Nat
  BY <1>1, BoundsAssumption DEF IInv, TypeOK, Positioned, Calling
<1>3. ~Failing
  BY <1>2 DEF Failing
<1>4. CASE AskAccepted \/ AskApplied \/ AskBusy
  BY <1>1, <1>4 DEF AskAccepted, AskApplied, AskBusy, Go
<1>5. CASE AskRefused
  BY <1>5, AskRefusedHasReason
<1>6. CASE AskMissing
  <2>1. pc = "ask" /\ ~vol.exists
    BY <1>6 DEF AskMissing
  <2>2. ~quiet
    BY <1>1, <2>1 DEF IInv, QuietFits
  <2>3. vol.inst = NoInstance
    BY <2>1 DEF IInv, PlatformFits
  <2> QED
    BY <2>2, <2>3 DEF Reason, RefusedAsAttached
<1>7. CASE AskLost \/ MethodFails \/ CreateFails \/ RereadFails
  BY <1>3, <1>7 DEF AskLost, MethodFails, CreateFails, RereadFails
<1>8. CASE Busy
  <2>1. pc = "busy"
    BY <1>8 DEF Busy
  <2>2. ~quiet
    BY <1>1, <2>1 DEF IInv, QuietFits
  <2> QED
    BY <2>1, <2>2 DEF Reason, RefusedAsAttached
<1>9. CASE Confirm
  BY <1>9, ConfirmHasReason
<1>10. CASE Create \/ Provision \/ ProvisionEnds \/ Reread
  BY <1>2, <1>10 DEF Create, Provision, ProvisionEnds, Reread
<1>11. CASE Settle
  <2>1. ~Deleted
    BY <1>1, SucceededIsNoGivingUp
  <2> QED
    BY <1>1, <1>11, <2>1 DEF Settle
<1> QED
  BY <1>4, <1>5, <1>6, <1>7, <1>8, <1>9, <1>10, <1>11 DEF Method, Asks

LEMMA StepHolds ==
    ASSUME IInv, [Next]_vars
    PROVE  DestroyGivesUp =>
              \/ fails' # fails
              \/ ~quiet /\ (RefusedAsAttached => attaches > 2)
<1> SUFFICES ASSUME DestroyGivesUp, fails' = fails
             PROVE  Reason
  BY DEF Reason
<1>1. doing = "delete" /\ doing' # doing
  BY DEF DestroyGivesUp
<1>2. pc # "plan"
  BY <1>1 DEF IInv, Positioned
<1>3. ~Refresh /\ ~Plan /\ ~OpDone /\ ~OpFails /\ ~Provisioned /\ ~Edit /\ ~UNCHANGED vars
  BY <1>1, <1>2 DEF Refresh, Plan, OpDone, OpFails, Provisioned, Edit, vars
<1>4. \A o \in Ops : ~LateArrives(o) /\ ~SomebodyElse(o)
  BY <1>1 DEF LateArrives, SomebodyElse
<1>5. Method
  BY <1>3, <1>4 DEF Next
<1> QED
  BY <1>5, MethodHasReason

-----------------------------------------------------------------------------
(* Results.                                                                *)

\* The invariant on which the others rest.
THEOREM Invariance == Spec => []IInv
<1>1. Init => IInv
  BY InitInv
<1>2. IInv /\ [Next]_vars => IInv'
  BY NextKeeps
<1> QED
  BY <1>1, <1>2, PTL DEF Spec

\* The volume, the state and the place of each method keep their types; a
\* destroy starts over twice at most, and an update sends three operations.
THEOREM TypeCorrect == Spec => []TypeOK
<1>1. IInv => TypeOK
  BY DEF IInv
<1> QED
  BY <1>1, Invariance, PTL

\* An apply without an error leaves the volume of the configured plan, usable
\* and attached as configured, and Terraform's state saying so; a destroy
\* without an error leaves no volume: whatever operations and requests of
\* given-up applies are under way.
THEOREM OkIsTrue == Spec => []OkMeansDone
<1>1. IInv => OkMeansDone
  BY DEF IInv
<1> QED
  BY <1>1, Invariance, PTL

\* A destroy gives up only for a failure, or for others at work during it, and
\* as attached only when they attached the volume three times.
THEOREM DestroyGoesThrough == Spec => DestroyHolds
<1>1. IInv /\ [Next]_vars =>
         [DestroyGivesUp =>
             \/ fails' # fails
             \/ ~quiet /\ (RefusedAsAttached => attaches > 2)]_vars
  BY StepHolds
<1> QED
  BY <1>1, Invariance, PTL DEF Spec, DestroyHolds
=============================================================================
