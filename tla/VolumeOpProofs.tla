--------------------------- MODULE VolumeOpProofs ---------------------------
(***************************************************************************)
(* For any number of concurrent calls, instances and plans: the types of   *)
(* VolumeOp, its one-operation-per-call invariant, that a refusal leaves   *)
(* nothing behind, that the package implements ConfirmedOperation (IInv),  *)
(* and that the verdict of an undisturbed call is final (SoloInv).         *)
(***************************************************************************)
EXTENDS VolumeOp, TLAPS

\* Positions at which the platform has definitely refused everything the call
\* has sent: only from there does the call send again.
ClearPositions == {"send", "recheck", "waitIdle", "pause"}

Clear(c) == recorded[c] = 0 /\ wire[c] = 0

\* A call standing at a clear position, or holding a definite refusal, has
\* nothing recorded and nothing travelling.
ClearToAsk ==
    \A c \in Callers :
       \/ pc[c] \in ClearPositions
       \/ pc[c] = "answered" /\ answer[c] \in DefiniteNo
       => Clear(c)

\* Only a call that is done has an outcome.
OutcomeWhenDone == \A c \in Callers : pc[c] # "done" <=> outcome[c] = "none"

\* A call that stands at "answered" has an answer.
AnsweredHasAnswer ==
    \A c \in Callers : pc[c] = "answered" => answer[c] # "none"

\* What holds now has been noted.
HeldNoted == \A c \in Callers : Holds(c, vol) => held[c]

\* The inductive invariant.
IInv ==
    /\ TypeOK
    /\ AtMostOnce
    /\ RefusedRecordsNothing
    /\ ClearToAsk
    /\ OutcomeWhenDone
    /\ AnsweredHasAnswer
    /\ HeldNoted

-----------------------------------------------------------------------------
(* Typing.                                                                 *)

\* A request names an action of this instance.
LEMMA RequestAction == \A r \in Request : r.action \in Actions
BY DEF Request

\* active_operation is empty or names an action.
LEMMA MarkerType == TypeOK => Marker \in Actions \cup {"none"}
BY RequestAction, CallersAssumption DEF TypeOK, Marker

\* Applying an operation keeps the shape of the volume.
LEMMA AppliedType ==
    ASSUME TypeOK, NEW c \in Callers
    PROVE  Applied(c) \in [exists : BOOLEAN, inst : Instances \cup {NoInstance},
                           plan : Plans]
<1>1. req[c] \in Request
  BY DEF TypeOK
<1>2. \/ req[c].action \in {"attach", "detach"}
         /\ req[c].target \in Instances \cup {NoInstance}
      \/ req[c].action = "resize" /\ req[c].target \in Plans
      \/ req[c].action = "delete"
  BY <1>1 DEF Request
<1>3. vol \in [exists : BOOLEAN, inst : Instances \cup {NoInstance}, plan : Plans]
  BY DEF TypeOK
<1> QED
  BY <1>2, <1>3 DEF Applied

\* Every verdict is a position or an outcome.
LEMMA ConcludeType ==
    ASSUME TypeOK, NEW c \in Callers, NEW v \in (Positions \cup Outcomes),
           Conclude(c, v)
    PROVE  /\ pc' \in [Callers -> Positions]
           /\ outcome' \in [Callers -> Outcomes]
BY DEF Conclude, TypeOK, Positions

\* What the decision tables can conclude.
LEMMA Verdicts ==
    ASSUME NEW c \in Callers
    PROVE  /\ AfterUncertain(c) \in {"poll", "success", "unknown"}
           /\ AfterRefusal(c) \in {"waitIdle", "success", "pause", "refused"}
           /\ AfterIdle(c) \in {"success", "failed", "send"}
           /\ AfterPoll(c) \in {"poll", "success", "failed"}
           /\ \A o : Gone(c, o) \in {"success", o}
BY DEF AfterUncertain, AfterRefusal, AfterIdle, AfterPoll, Gone

\* An answer is looked at once; only a definite one leads to another send.
LEMMA AnswerVerdict ==
    ASSUME TypeOK, NEW c \in Callers, answer[c] # "none"
    PROVE  \/ AfterAnswer(c) \in {"poll", "pendingDeadline", "readBack"}
           \/ AfterAnswer(c) \in {"refused", "recheck"} /\ answer[c] \in DefiniteNo
<1>1. answer[c] \in AnswerKinds /\ expired[c] \in BOOLEAN
  BY DEF TypeOK
<1>2. CASE answer[c] = "ok"
  BY <1>2 DEF AfterAnswer, GateAnswers
<1>3. CASE answer[c] # "ok" /\ expired[c]
  BY <1>3 DEF AfterAnswer, GateAnswers
<1>4. CASE answer[c] = "uncertain" /\ ~expired[c]
  BY <1>4 DEF AfterAnswer, GateAnswers
<1>5. CASE answer[c] \in {"denied", "notFound"} /\ ~expired[c]
  BY <1>5 DEF AfterAnswer, GateAnswers, DefiniteNo
<1>6. CASE answer[c] \in GateAnswers \cup {"refused"} /\ ~expired[c]
  BY <1>6 DEF AfterAnswer, GateAnswers, DefiniteNo
<1> QED
  BY <1>1, <1>2, <1>3, <1>4, <1>5, <1>6 DEF AnswerKinds, DefiniteNo

-----------------------------------------------------------------------------
(* The inductive step.                                                     *)

\* The steps of a call that read, decide and wait: they touch neither the
\* platform nor the wire, so only where the call goes on matters.
LEMMA DecisionKeepsInv ==
    ASSUME IInv, NEW c \in Callers,
           NEW v \in (Positions \cup Outcomes) \ {"answered", "done", "none"},
           v \in ClearPositions \cup {"refused"} => Clear(c),
           pc[c] # "done",
           Conclude(c, v),
           UNCHANGED <<platform, wire, req, answer, expired, history>>,
           seen' \in [Callers -> Actions \cup {"none"}],
           errs' \in [Callers -> 0..MaxReadErrors]
    PROVE  IInv'
<1> USE DEF platform, history
<1>1. TypeOK'
  BY ConcludeType DEF IInv, TypeOK, Request
<1>2. AtMostOnce'
  BY DEF IInv, AtMostOnce
<1>3. pc \in [Callers -> Positions] /\ outcome \in [Callers -> Outcomes]
  BY DEF IInv, TypeOK
<1>4. RefusedRecordsNothing'
  BY <1>3, ConcludeType DEF IInv, RefusedRecordsNothing, Conclude, Clear,
         TypeOK, Positions
<1>5. ClearToAsk'
  BY <1>3 DEF IInv, ClearToAsk, Conclude, Clear, ClearPositions, Positions
<1>6. OutcomeWhenDone'
  BY <1>3 DEF IInv, OutcomeWhenDone, Conclude, Positions, Outcomes, PendingCauses
<1>7. AnsweredHasAnswer'
  BY <1>3 DEF IInv, AnsweredHasAnswer, Conclude, Positions
<1>8. HeldNoted'
  BY DEF IInv, HeldNoted, Holds, Desired
<1> QED
  BY <1>1, <1>2, <1>4, <1>5, <1>6, <1>7, <1>8 DEF IInv

\* A step of the call that reads, decides or waits keeps the invariant.
LEMMA CallKeepsInv ==
    ASSUME IInv, NEW c \in Callers, Call(c) \/ Unreadable(c), ~Send(c)
    PROVE  IInv'
<1> USE DEF Positions, Outcomes, PendingCauses, ClearPositions
<1>0. /\ TypeOK /\ pc[c] \in Positions /\ answer[c] \in AnswerKinds
      /\ pc[c] \in ClearPositions => Clear(c)
      /\ pc[c] = "answered" /\ answer[c] \in DefiniteNo => Clear(c)
      /\ pc[c] = "answered" => answer[c] # "none"
  BY DEF IInv, TypeOK, ClearToAsk, AnsweredHasAnswer
<1>t. /\ seen \in [Callers -> Actions \cup {"none"}]
      /\ errs \in [Callers -> 0..MaxReadErrors]
      /\ Marker \in Actions \cup {"none"}
  BY <1>0, MarkerType DEF TypeOK
<1>1. CASE SendCut(c)
  BY <1>0, <1>t, <1>1, DecisionKeepsInv DEF SendCut
<1>2. CASE Classify(c)
  <2>1. /\ AfterAnswer(c) \in {"poll", "pendingDeadline", "readBack", "refused",
                               "recheck"}
        /\ AfterAnswer(c) \in {"refused", "recheck"} => answer[c] \in DefiniteNo
    BY <1>0, <1>2, AnswerVerdict DEF Classify
  <2> QED
    BY <1>0, <1>t, <1>2, <2>1, DecisionKeepsInv DEF Classify
<1>3. CASE ReadBack(c)
  <2>1. PICK v \in {"unknown", "success", "poll"} : Conclude(c, v)
    BY <1>3, Verdicts DEF ReadBack
  <2> QED
    BY <1>0, <1>t, <1>3, <2>1, DecisionKeepsInv DEF ReadBack
<1>4. CASE Recheck(c)
  <2>1. PICK v \in {"refused", "success", "waitIdle", "pause"} : Conclude(c, v)
    BY <1>4, Verdicts DEF Recheck
  <2>2. seen' \in [Callers -> Actions \cup {"none"}]
    BY <1>4, <1>t DEF Recheck
  <2> QED
    BY <1>0, <1>t, <1>4, <2>1, <2>2, DecisionKeepsInv DEF Recheck
<1>5. CASE WaitIdle(c)
  <2>1. PICK v \in {"pendingDeadline", "success", "pendingGone", "failed", "send"} :
           Conclude(c, v)
    BY <1>5, Verdicts DEF WaitIdle
  <2> QED
    BY <1>0, <1>t, <1>5, <2>1, DecisionKeepsInv DEF WaitIdle
<1>6. CASE Pause(c)
  <2>1. PICK v \in {"send", "pendingDeadline"} : Conclude(c, v)
    BY <1>6 DEF Pause
  <2> QED
    BY <1>0, <1>t, <1>6, <2>1, DecisionKeepsInv DEF Pause
<1>7. CASE Poll(c)
  <2>1. PICK v \in {"pendingDeadline", "success", "gone", "poll", "failed"} :
           Conclude(c, v)
    BY <1>7, Verdicts DEF Poll
  <2>2. errs' \in [Callers -> 0..MaxReadErrors]
    BY <1>7, <1>t DEF Poll, MaxReadErrors
  <2> QED
    BY <1>0, <1>t, <1>7, <2>1, <2>2, DecisionKeepsInv DEF Poll
<1>8. CASE Unreadable(c)
  <2>1. PICK v \in {"unknown", "refused", "pendingUnreadable", "poll", "unreadable"} :
           /\ Conclude(c, v)
           /\ v = "refused" => pc[c] = "recheck"
    BY <1>8 DEF Unreadable
  <2>2. errs' \in [Callers -> 0..MaxReadErrors]
    BY <1>8, <1>t DEF Unreadable, Tolerate, MaxReadErrors
  <2>3. pc[c] # "done"
    BY <1>8 DEF Unreadable
  <2> QED
    BY <1>0, <1>t, <1>8, <2>1, <2>2, <2>3, DecisionKeepsInv DEF Unreadable
<1> QED
  BY <1>1, <1>2, <1>3, <1>4, <1>5, <1>6, <1>7, <1>8 DEF Call

\* A send keeps the invariant: the call stood at a clear position.
LEMMA SendKeepsInv ==
    ASSUME IInv, NEW c \in Callers, Send(c)
    PROVE  IInv'
<1> USE DEF Positions, ClearPositions, platform, history
<1>1. /\ TypeOK /\ Clear(c) /\ pc[c] = "send" /\ outcome[c] = "none"
  BY DEF IInv, ClearToAsk, Send, OutcomeWhenDone
<1>2. CASE expired[c]
  BY <1>1, <1>2, DecisionKeepsInv DEF Send, Outcomes, PendingCauses, TypeOK
<1>3. CASE ~expired[c]
  <2>1. /\ wire' = [wire EXCEPT ![c] = @ + 1] /\ UNCHANGED outcome
        /\ pc' = [pc EXCEPT ![c] = "sent"]
        /\ UNCHANGED <<vol, opBy, published, cooling, req, answer, seen, errs,
                       expired, recorded, held, nodeFailed>>
    BY <1>3 DEF Send, Conclude
  <2>2. TypeOK'
    BY <1>1, <2>1 DEF TypeOK, Request
  <2>3. AtMostOnce'
    BY <1>1, <2>1 DEF IInv, AtMostOnce, Clear, TypeOK
  <2>4. RefusedRecordsNothing'
    BY <1>1, <2>1 DEF IInv, RefusedRecordsNothing, TypeOK
  <2>5. ClearToAsk'
    BY <1>1, <2>1 DEF IInv, ClearToAsk, Clear, TypeOK
  <2>6. OutcomeWhenDone' /\ AnsweredHasAnswer' /\ HeldNoted'
    BY <1>1, <2>1 DEF IInv, OutcomeWhenDone, AnsweredHasAnswer, HeldNoted,
           TypeOK, Holds, Desired
  <2> QED
    BY <2>2, <2>3, <2>4, <2>5, <2>6 DEF IInv
<1> QED
  BY <1>2, <1>3

\* What reaches the platform was travelling, so the call has nothing recorded.
LEMMA Arrival ==
    ASSUME IInv, NEW c \in Callers, Arrive(c)
    PROVE  /\ wire[c] = 1 /\ recorded[c] = 0
           /\ wire' = [wire EXCEPT ![c] = 0]
           /\ outcome[c] # "refused" /\ pc[c] \notin ClearPositions
           /\ ~(pc[c] = "answered" /\ answer[c] \in DefiniteNo)
<1>1. /\ wire[c] \in Nat /\ recorded[c] \in Nat /\ wire[c] > 0
      /\ recorded[c] + wire[c] <= 1
  BY DEF IInv, TypeOK, AtMostOnce, Arrive
<1>2. wire[c] = 1 /\ recorded[c] = 0
  BY <1>1
<1>3. wire' = [wire EXCEPT ![c] = 0]
  BY <1>2 DEF Arrive
<1>4. outcome[c] # "refused"
  BY <1>2 DEF IInv, RefusedRecordsNothing
<1>5. /\ pc[c] \notin ClearPositions
      /\ ~(pc[c] = "answered" /\ answer[c] \in DefiniteNo)
  BY <1>2 DEF IInv, ClearToAsk, Clear
<1> QED
  BY <1>2, <1>3, <1>4, <1>5

\* A reply finds the call waiting for it or is dropped.
LEMMA ReplyType ==
    ASSUME TypeOK, NEW c \in Callers, NEW a \in AnswerKinds, Reply(c, a)
    PROVE  /\ answer' \in [Callers -> AnswerKinds]
           /\ pc' \in [Callers -> Positions]
           /\ \A d \in Callers : d # c => pc'[d] = pc[d] /\ answer'[d] = answer[d]
           /\ \/ pc'[c] = "answered" /\ answer'[c] = a /\ pc[c] = "sent"
              \/ pc'[c] = pc[c] /\ answer'[c] = answer[c]
BY DEF Reply, TypeOK, Positions

\* A refusal consumes the request and leaves the call with nothing.
LEMMA RefusesKeepsInv ==
    ASSUME IInv, NEW c \in Callers, PlatformRefuses(c)
    PROVE  IInv'
<1> USE DEF platform, history
<1>1. PICK a \in DefiniteNo : Reply(c, a)
  BY DEF PlatformRefuses, DefiniteNo, GateAnswers
<1>2. /\ TypeOK /\ Arrive(c) /\ a \in AnswerKinds /\ a # "none"
      /\ UNCHANGED <<vol, opBy, published, cooling, recorded, held, nodeFailed,
                     req, seen, errs, expired, outcome>>
  BY <1>1 DEF IInv, PlatformRefuses, AnswerKinds, Arrive, DefiniteNo, GateAnswers
<1>3. /\ wire' = [wire EXCEPT ![c] = 0] /\ recorded[c] = 0
      /\ wire'[c] = 0
  BY <1>2, Arrival DEF TypeOK
<1>4. TypeOK'
  BY <1>1, <1>2, <1>3, ReplyType DEF TypeOK, Request
<1>5. AtMostOnce' /\ RefusedRecordsNothing'
  BY <1>2, <1>3 DEF IInv, AtMostOnce, RefusedRecordsNothing, TypeOK
<1>6. ClearToAsk'
  BY <1>1, <1>2, <1>3, ReplyType DEF IInv, ClearToAsk, Clear, ClearPositions, TypeOK
<1>7. OutcomeWhenDone' /\ AnsweredHasAnswer' /\ HeldNoted'
  BY <1>1, <1>2, ReplyType DEF IInv, OutcomeWhenDone, AnsweredHasAnswer,
     HeldNoted, Holds, Desired
<1> QED
  BY <1>4, <1>5, <1>6, <1>7 DEF IInv

\* Recording uses up the request, so the sum stays one.
LEMMA RecordsKeepsInv ==
    ASSUME IInv, NEW c \in Callers, PlatformRecords(c)
    PROVE  IInv'
<1>1. /\ TypeOK /\ Arrive(c)
      /\ UNCHANGED <<vol, cooling, pc, answer, held, nodeFailed,
                     req, seen, errs, expired, outcome>>
      /\ opBy' = c /\ published' = FALSE
      /\ recorded' = [recorded EXCEPT ![c] = @ + 1]
  BY DEF IInv, PlatformRecords, Arrive
<1>2. /\ wire' = [wire EXCEPT ![c] = 0] /\ recorded[c] = 0
      /\ outcome[c] # "refused" /\ pc[c] \notin ClearPositions
      /\ ~(pc[c] = "answered" /\ answer[c] \in DefiniteNo)
  BY <1>1, Arrival
<1>r. recorded' = [recorded EXCEPT ![c] = 1]
  BY <1>1, <1>2
<1>t. wire' \in [Callers -> Nat] /\ recorded' \in [Callers -> Nat]
  BY <1>1, <1>2, <1>r DEF TypeOK
<1>3. TypeOK'
  BY <1>1, <1>t DEF TypeOK, Request
<1>4. AtMostOnce' /\ RefusedRecordsNothing' /\ ClearToAsk'
  BY <1>1, <1>2, <1>r DEF IInv, AtMostOnce, RefusedRecordsNothing, ClearToAsk, Clear,
     TypeOK
<1>5. OutcomeWhenDone' /\ AnsweredHasAnswer' /\ HeldNoted'
  BY <1>1 DEF IInv, OutcomeWhenDone, AnsweredHasAnswer, HeldNoted, Holds, Desired
<1> QED
  BY <1>3, <1>4, <1>5 DEF IInv

\* The same for an operation applied at once, which is answered as well.
LEMMA AppliesKeepsInv ==
    ASSUME IInv, NEW c \in Callers, PlatformAppliesAtOnce(c)
    PROVE  IInv'
<1>1. /\ TypeOK /\ Arrive(c) /\ Reply(c, "ok")
      /\ UNCHANGED <<opBy, published, nodeFailed, req, seen, errs, expired,
                     outcome>>
      /\ vol' = Applied(c) /\ cooling' = TRUE
      /\ recorded' = [recorded EXCEPT ![c] = @ + 1]
      /\ held' = [d \in Callers |-> held[d] \/ Holds(d, vol')]
  BY DEF IInv, PlatformAppliesAtOnce, Arrive, NoteHeld
<1>2. /\ wire' = [wire EXCEPT ![c] = 0] /\ recorded[c] = 0
      /\ outcome[c] # "refused" /\ pc[c] \notin ClearPositions
      /\ ~(pc[c] = "answered" /\ answer[c] \in DefiniteNo)
  BY <1>1, Arrival
<1>r. recorded' = [recorded EXCEPT ![c] = 1]
  BY <1>1, <1>2
<1>3. "ok" \in AnswerKinds /\ "ok" \notin DefiniteNo
  BY DEF AnswerKinds, DefiniteNo, GateAnswers
<1>4. held' \in [Callers -> BOOLEAN]
  BY <1>1 DEF TypeOK, Holds, Desired
<1>5. TypeOK'
  BY <1>1, <1>2, <1>r, <1>3, <1>4, ReplyType, AppliedType DEF TypeOK, Request
<1>6. AtMostOnce' /\ RefusedRecordsNothing'
  BY <1>1, <1>2, <1>r DEF IInv, AtMostOnce, RefusedRecordsNothing, TypeOK
<1>7. ClearToAsk'
  BY <1>1, <1>2, <1>r, <1>3, ReplyType DEF IInv, ClearToAsk, Clear, ClearPositions, TypeOK
<1>8. OutcomeWhenDone' /\ AnsweredHasAnswer' /\ HeldNoted'
  BY <1>1, <1>3, ReplyType DEF IInv, OutcomeWhenDone, AnsweredHasAnswer, HeldNoted,
     Holds, Desired
<1> QED
  BY <1>5, <1>6, <1>7, <1>8 DEF IInv

\* Publishing the marker answers the call whose operation it is.
LEMMA PublishesKeepsInv ==
    ASSUME IInv, PlatformPublishes
    PROVE  IInv'
<1>1. /\ TypeOK /\ opBy \in Callers /\ Reply(opBy, "ok") /\ published' = TRUE
      /\ UNCHANGED <<vol, opBy, cooling, wire, req, seen, errs, expired, outcome,
                     recorded, held, nodeFailed>>
  BY DEF IInv, PlatformPublishes, history, TypeOK
<1>2. "ok" \in AnswerKinds /\ "ok" \notin DefiniteNo
  BY DEF AnswerKinds, DefiniteNo, GateAnswers
<1>3. TypeOK'
  BY <1>1, <1>2, ReplyType DEF TypeOK, Request
<1>4. AtMostOnce' /\ RefusedRecordsNothing'
  BY <1>1 DEF IInv, AtMostOnce, RefusedRecordsNothing
<1>5. ClearToAsk'
  BY <1>1, <1>2, ReplyType DEF IInv, ClearToAsk, Clear, ClearPositions
<1>6. OutcomeWhenDone' /\ AnsweredHasAnswer' /\ HeldNoted'
  BY <1>1, <1>2, ReplyType DEF IInv, OutcomeWhenDone, AnsweredHasAnswer, HeldNoted,
     Holds, Desired
<1> QED
  BY <1>3, <1>4, <1>5, <1>6 DEF IInv

\* The node's confirmation changes the volume; what then holds is noted.
LEMMA ConfirmsKeepsInv ==
    ASSUME IInv, NodeConfirms
    PROVE  IInv'
<1>1. /\ TypeOK /\ opBy \in Callers
      /\ opBy' = NoCaller /\ published' = FALSE /\ cooling' = TRUE
      /\ vol' = Applied(opBy)
      /\ held' = [d \in Callers |-> held[d] \/ Holds(d, vol')]
      /\ UNCHANGED <<wire, req, pc, answer, seen, errs, expired, outcome, recorded,
                     nodeFailed>>
  BY DEF IInv, NodeConfirms, NoteHeld, TypeOK
<1>2. held' \in [Callers -> BOOLEAN]
  BY <1>1 DEF TypeOK, Holds, Desired
<1>3. TypeOK'
  BY <1>1, <1>2, AppliedType DEF TypeOK, Request
<1>4. AtMostOnce' /\ RefusedRecordsNothing' /\ ClearToAsk' /\ OutcomeWhenDone'
      /\ AnsweredHasAnswer'
  BY <1>1 DEF IInv, AtMostOnce, RefusedRecordsNothing, ClearToAsk, Clear,
     OutcomeWhenDone, AnsweredHasAnswer
<1>5. HeldNoted'
  BY <1>1 DEF HeldNoted, Holds, Desired
<1> QED
  BY <1>3, <1>4, <1>5 DEF IInv

\* Steps that leave the calls, their requests and the volume alone.
LEMMA QuietKeepsInv ==
    ASSUME IInv,
           UNCHANGED <<vol, wire, req, pc, answer, seen, errs, outcome, recorded,
                       held>>,
           opBy' \in Callers \cup {NoCaller}, published' \in BOOLEAN,
           cooling' \in BOOLEAN, expired' \in [Callers -> BOOLEAN],
           nodeFailed' \subseteq Callers
    PROVE  IInv'
<1>1. TypeOK'
  BY DEF IInv, TypeOK, Request
<1>2. AtMostOnce' /\ RefusedRecordsNothing' /\ ClearToAsk' /\ OutcomeWhenDone'
      /\ AnsweredHasAnswer' /\ HeldNoted'
  BY DEF IInv, AtMostOnce, RefusedRecordsNothing, ClearToAsk, Clear,
     OutcomeWhenDone, AnsweredHasAnswer, HeldNoted, Holds, Desired
<1> QED
  BY <1>1, <1>2 DEF IInv

\* A lost answer is not a definite one.
LEMMA LostKeepsInv ==
    ASSUME IInv, NEW c \in Callers, AnswerLost(c)
    PROVE  IInv'
<1>1. /\ TypeOK /\ Reply(c, "uncertain")
      /\ UNCHANGED <<vol, opBy, published, cooling, wire, req, seen, errs, expired,
                     outcome, recorded, held, nodeFailed>>
  BY DEF IInv, AnswerLost, platform, history
<1>2. "uncertain" \in AnswerKinds /\ "uncertain" \notin DefiniteNo
  BY DEF AnswerKinds, DefiniteNo, GateAnswers
<1>3. TypeOK'
  BY <1>1, <1>2, ReplyType DEF TypeOK, Request
<1>4. AtMostOnce' /\ RefusedRecordsNothing'
  BY <1>1 DEF IInv, AtMostOnce, RefusedRecordsNothing
<1>5. ClearToAsk'
  BY <1>1, <1>2, ReplyType DEF IInv, ClearToAsk, Clear, ClearPositions
<1>6. OutcomeWhenDone' /\ AnsweredHasAnswer' /\ HeldNoted'
  BY <1>1, <1>2, ReplyType DEF IInv, OutcomeWhenDone, AnsweredHasAnswer, HeldNoted,
     Holds, Desired
<1> QED
  BY <1>3, <1>4, <1>5, <1>6 DEF IInv

\* Every step keeps the invariant.
LEMMA NextKeepsInv == IInv /\ [Next]_vars => IInv'
<1> SUFFICES ASSUME IInv, [Next]_vars PROVE IInv'
  OBVIOUS
<1>0. TypeOK
  BY DEF IInv
<1>1. CASE PlatformPublishes
  BY <1>1, PublishesKeepsInv
<1>2. CASE NodeConfirms
  BY <1>2, ConfirmsKeepsInv
<1>3. CASE NodeFails
  <2>1. opBy \in Callers /\ nodeFailed' \subseteq Callers
    BY <1>0, <1>3 DEF NodeFails, TypeOK
  <2> QED
    BY <1>0, <1>3, <2>1, QuietKeepsInv DEF NodeFails, TypeOK
<1>4. CASE CooldownEnds
  BY <1>0, <1>4, QuietKeepsInv DEF CooldownEnds, TypeOK, history
<1>5. ASSUME NEW c \in Callers,
             PlatformRefuses(c) \/ PlatformRecords(c) \/ PlatformAppliesAtOnce(c)
      PROVE  IInv'
  BY <1>5, RefusesKeepsInv, RecordsKeepsInv, AppliesKeepsInv
<1>6. ASSUME NEW c \in Callers, Call(c) \/ Unreadable(c)
      PROVE  IInv'
  BY <1>6, CallKeepsInv, SendKeepsInv
<1>7. ASSUME NEW c \in Callers, AnswerLost(c)
      PROVE  IInv'
  BY <1>7, LostKeepsInv
<1>8. ASSUME NEW c \in Callers, Deadline(c)
      PROVE  IInv'
  <2>1. expired' \in [Callers -> BOOLEAN]
    BY <1>0, <1>8 DEF Deadline, TypeOK
  <2> QED
    BY <1>0, <1>8, <2>1, QuietKeepsInv DEF Deadline, TypeOK, platform, history
<1>9. CASE UNCHANGED vars
  BY <1>0, <1>9, QuietKeepsInv DEF vars, TypeOK
<1> QED
  BY <1>1, <1>2, <1>3, <1>4, <1>5, <1>6, <1>7, <1>8, <1>9 DEF Next, Platform

\* The initial states satisfy the invariant.
LEMMA InitInv == Init => IInv
<1> SUFFICES ASSUME Init PROVE IInv
  OBVIOUS
<1>1. held \in [Callers -> BOOLEAN]
  BY DEF Init, Holds, Desired
<1>v. vol \in [exists : BOOLEAN, inst : Instances \cup {NoInstance}, plan : Plans]
  BY DEF Init
<1>c. /\ wire \in [Callers -> Nat] /\ recorded \in [Callers -> Nat]
      /\ errs \in [Callers -> 0..MaxReadErrors]
      /\ expired \in [Callers -> BOOLEAN]
      /\ seen \in [Callers -> Actions \cup {"none"}]
  BY DEF Init, MaxReadErrors
<1>p. /\ pc \in [Callers -> Positions] /\ answer \in [Callers -> AnswerKinds]
      /\ outcome \in [Callers -> Outcomes]
  BY DEF Init, Positions, AnswerKinds, Outcomes
<1>2. TypeOK
  BY <1>1, <1>v, <1>c, <1>p DEF Init, TypeOK
<1>3. AtMostOnce /\ RefusedRecordsNothing /\ ClearToAsk /\ OutcomeWhenDone
      /\ AnsweredHasAnswer
  BY DEF Init, AtMostOnce, RefusedRecordsNothing, ClearToAsk, Clear,
     OutcomeWhenDone, AnsweredHasAnswer
<1>4. HeldNoted
  BY DEF Init, HeldNoted
<1> QED
  BY <1>2, <1>3, <1>4 DEF IInv

-----------------------------------------------------------------------------
(* Theorems.                                                               *)

\* IInv holds in every reachable state.
THEOREM Invariance == Spec => []IInv
BY InitInv, NextKeepsInv, PTL DEF Spec

\* Type correctness of the concurrent calls and the platform.
THEOREM TypeCorrect == Spec => []TypeOK
<1>1. IInv => TypeOK
  BY DEF IInv
<1> QED
  BY <1>1, Invariance, PTL

\* However many calls run and whatever is lost or late, a call leaves at most
\* one operation on the platform.
THEOREM OneOperationPerCall == Spec => []AtMostOnce
<1>1. IInv => AtMostOnce
  BY DEF IInv
<1> QED
  BY <1>1, Invariance, PTL

\* A call that reports a refusal has nothing recorded, and no request of it is
\* left that could be recorded later.
THEOREM RefusalIsDefinite == Spec => []RefusedRecordsNothing
<1>1. IInv => RefusedRecordsNothing
  BY DEF IInv
<1> QED
  BY <1>1, Invariance, PTL

-----------------------------------------------------------------------------
(* The package implements its promise.                                     *)

\* What a call reports, by its outcome.
LEMMA PromisedValue ==
    ASSUME NEW c \in Callers
    PROVE  /\ outcome[c] = "none" => Promised(c) = "open"
           /\ outcome[c] = "refused" => Promised(c) = "refused"
           /\ outcome[c] = "success" => Promised(c) = "success"
           /\ outcome[c] \notin {"none", "refused", "success"} => Promised(c) = "other"
BY DEF Promised

\* Initially every call is open and has nothing recorded.
LEMMA InitPromised == Init => Promise!Init
<1> SUFFICES ASSUME Init PROVE Promise!Init
  OBVIOUS
<1>1. held \in [Callers -> BOOLEAN]
  BY DEF Init, Holds, Desired
<1>2. reported = [c \in Callers |-> "open"]
  BY PromisedValue DEF Init, reported
<1> QED
  BY <1>1, <1>2 DEF Init, Promise!Init

\* A call reports success only on a read that shows what it asked for.
LEMMA SuccessHolds ==
    ASSUME IInv, NEW c \in Callers, Call(c) \/ Unreadable(c),
           outcome[c] = "none", outcome'[c] = "success"
    PROVE  Holds(c, vol)
<1>0. TypeOK /\ outcome \in [Callers -> Outcomes]
  BY DEF IInv, TypeOK
<1>1. ASSUME NEW v, Conclude(c, v)  PROVE v = "success"
  BY <1>0, <1>1 DEF Conclude, Positions
<1>2. ASSUME Send(c) \/ SendCut(c) \/ Pause(c) \/ Unreadable(c)  PROVE FALSE
  BY <1>1, <1>2 DEF Send, SendCut, Pause, Unreadable
<1>3. ASSUME Classify(c)  PROVE FALSE
  <2>1. answer[c] # "none" /\ AfterAnswer(c) = "success"
    BY <1>1, <1>3 DEF IInv, AnsweredHasAnswer, Classify
  <2> QED
    BY <1>0, <2>1, AnswerVerdict
<1>4. ASSUME NEW o, o # "success", ReadsGone(c), Conclude(c, Gone(c, o))
      PROVE  Holds(c, vol)
  BY <1>1, <1>4 DEF ReadsGone, Gone, Holds
<1>5. ASSUME ReadBack(c)  PROVE Holds(c, vol)
  <2>1. ASSUME Conclude(c, AfterUncertain(c))  PROVE Desired(c, vol)
    BY <1>1, <2>1 DEF AfterUncertain
  <2> QED
    BY <1>1, <1>4, <1>5, <2>1 DEF ReadBack, Holds
<1>6. ASSUME Recheck(c)  PROVE Holds(c, vol)
  <2>1. ASSUME Conclude(c, AfterRefusal(c))  PROVE Desired(c, vol)
    BY <1>1, <2>1 DEF AfterRefusal
  <2> QED
    BY <1>1, <1>4, <1>6, <2>1 DEF Recheck, Holds
<1>7. ASSUME WaitIdle(c)  PROVE Holds(c, vol)
  <2>1. ASSUME Conclude(c, AfterIdle(c))  PROVE Desired(c, vol)
    BY <1>1, <2>1 DEF AfterIdle
  <2> QED
    BY <1>1, <1>4, <1>7, <2>1 DEF WaitIdle, Holds
<1>8. ASSUME Poll(c)  PROVE Holds(c, vol)
  <2>1. ASSUME Conclude(c, AfterPoll(c))  PROVE Desired(c, vol)
    BY <1>1, <2>1 DEF AfterPoll
  <2> QED
    BY <1>1, <1>4, <1>8, <2>1 DEF Poll, Holds
<1> QED
  BY <1>2, <1>3, <1>5, <1>6, <1>7, <1>8 DEF Call

\* A step of a call moves only its own outcome, and only while it has none.
LEMMA CallMovesOutcome ==
    ASSUME IInv, NEW c \in Callers, Call(c) \/ Unreadable(c)
    PROVE  /\ UNCHANGED <<recorded, held>> /\ outcome[c] = "none"
           /\ \A d \in Callers : d # c => outcome'[d] = outcome[d]
<1>1. outcome[c] = "none" /\ outcome \in [Callers -> Outcomes]
  BY DEF IInv, TypeOK, OutcomeWhenDone, Call, Send, SendCut, Classify, ReadBack,
     Recheck, WaitIdle, Pause, Poll, Unreadable
<1>2. PICK v : Conclude(c, v)
  BY DEF Call, Send, SendCut, Classify, ReadBack, Recheck, WaitIdle, Pause, Poll,
     Unreadable
<1>3. UNCHANGED <<recorded, held>>
  BY DEF Call, Send, SendCut, Classify, ReadBack, Recheck, WaitIdle, Pause, Poll,
     Unreadable, history
<1> QED
  BY <1>1, <1>2, <1>3 DEF Conclude

\* So it is a report of the promise, or no step of it.
LEMMA CallPromised ==
    ASSUME IInv, IInv', NEW c \in Callers, Call(c) \/ Unreadable(c)
    PROVE  [Promise!Next]_<<recorded, held, reported>>
<1>1. /\ UNCHANGED <<recorded, held>> /\ outcome[c] = "none"
      /\ \A d \in Callers : d # c => outcome'[d] = outcome[d]
  BY CallMovesOutcome
<1>2. \A d \in Callers : d # c => Promised(d)' = Promised(d)
  BY <1>1 DEF Promised
<1>3. CASE outcome'[c] = "none"
  BY <1>1, <1>2, <1>3 DEF reported, Promised
<1>4. CASE outcome'[c] # "none"
  <2>1. /\ Promised(c) = "open" /\ Promised(c)' \in Promise!Reports
        /\ Promised(c)' = "refused" => outcome'[c] = "refused"
        /\ Promised(c)' = "success" => outcome'[c] = "success"
    BY <1>1, <1>4 DEF Promised, Promise!Reports
  <2>2. outcome'[c] = "refused" => recorded[c] = 0
    BY <1>1 DEF IInv, RefusedRecordsNothing, TypeOK
  <2>3. outcome'[c] = "success" => held[c]
    BY <1>1, SuccessHolds DEF IInv, HeldNoted
  <2>4. reported' = [reported EXCEPT ![c] = Promised(c)'] /\ reported[c] = "open"
    BY <1>2, <2>1 DEF reported
  <2>5. Promise!Report(c)
    BY <1>1, <2>1, <2>2, <2>3, <2>4 DEF Promise!Report
  <2> QED
    BY <2>5 DEF Promise!Next
<1> QED
  BY <1>3, <1>4

\* A step of the world never takes back what was held and reports nothing.
LEMMA WorldPromised ==
    ASSUME IInv, IInv', UNCHANGED <<recorded, outcome>>,
           \A c \in Callers : held[c] => held'[c]
    PROVE  Promise!World
<1>1. held' \in [Callers -> BOOLEAN]
  BY DEF IInv, TypeOK
<1>2. UNCHANGED reported
  BY DEF reported, Promised
<1> QED
  BY <1>1, <1>2 DEF Promise!World, Promise!HeldGrows

\* Recording an operation is the promise's own step.
LEMMA RecordPromised ==
    ASSUME IInv, IInv', NEW c \in Callers, Arrive(c),
           recorded' = [recorded EXCEPT ![c] = @ + 1],
           \A d \in Callers : held[d] => held'[d]
    PROVE  Promise!Record(c)
<1>1. recorded[c] = 0 /\ outcome[c] # "refused" /\ UNCHANGED outcome
  BY Arrival DEF Arrive
<1>2. recorded' = [recorded EXCEPT ![c] = 1]
  BY <1>1
<1>3. held' \in [Callers -> BOOLEAN]
  BY DEF IInv, TypeOK
<1>4. reported[c] # "refused" /\ UNCHANGED reported
  BY <1>1 DEF reported, Promised
<1> QED
  BY <1>1, <1>2, <1>3, <1>4 DEF Promise!Record, Promise!HeldGrows

\* Every step of the package and the platform is a step of the promise.
LEMMA NextPromised ==
    ASSUME IInv, IInv', [Next]_vars
    PROVE  [Promise!Next]_<<recorded, held, reported>>
<1>1. ASSUME NEW c \in Callers, Call(c) \/ Unreadable(c)
      PROVE  [Promise!Next]_<<recorded, held, reported>>
  BY <1>1, CallPromised
<1>2. ASSUME NEW c \in Callers, PlatformRecords(c)
      PROVE  Promise!Next
  <2>1. Promise!Record(c)
    BY <1>2, RecordPromised DEF PlatformRecords
  <2> QED
    BY <2>1 DEF Promise!Next
<1>3. ASSUME NEW c \in Callers, PlatformAppliesAtOnce(c)
      PROVE  Promise!Next
  <2>1. Promise!Record(c)
    BY <1>3, RecordPromised DEF PlatformAppliesAtOnce, NoteHeld
  <2> QED
    BY <2>1 DEF Promise!Next
<1>4. ASSUME NEW c \in Callers, PlatformRefuses(c) \/ AnswerLost(c) \/ Deadline(c)
      PROVE  Promise!World
  BY <1>4, WorldPromised DEF PlatformRefuses, AnswerLost, Deadline, Arrive, history
<1>5. ASSUME PlatformPublishes \/ NodeFails \/ CooldownEnds  PROVE Promise!World
  BY <1>5, WorldPromised DEF PlatformPublishes, NodeFails, CooldownEnds, history
<1>6. ASSUME NodeConfirms  PROVE Promise!World
  BY <1>6, WorldPromised DEF NodeConfirms, NoteHeld
<1>7. ASSUME UNCHANGED vars  PROVE Promise!World
  BY <1>7, WorldPromised DEF vars
<1> QED
  BY <1>1, <1>2, <1>3, <1>4, <1>5, <1>6, <1>7 DEF Next, Platform, Promise!Next

\* The package implements its promise: whatever the network does and whoever
\* else works on the volume, a call records at most one operation, none at all
\* once it reported a refusal, and reports success only for a state it saw.
THEOREM ImplementsPromise == Spec => KeepsPromise
<1>1. IInv /\ IInv' /\ [Next]_vars => [Promise!Next]_(Promise!promise)
  BY NextPromised DEF Promise!promise
<1> QED
  BY <1>1, InitPromised, Invariance, PTL DEF Spec, KeepsPromise, Promise!Spec

-----------------------------------------------------------------------------
(* A call never sends again after doubt.                                   *)

\* A call asks again only after a definite refusal, and not when the operation
\* it waited out was of its own action.
DueToAsk ==
    \A c \in Callers :
       /\ pc[c] \in {"recheck", "waitIdle"} => answer[c] \in DefiniteNo
       /\ pc[c] = "pause" => answer[c] \in DefiniteNo /\ seen[c] = "none"
       /\ pc[c] = "send" => answer[c] # "uncertain" /\ seen[c] # req[c].action

\* The steps of a call, by where they lead.
LEMMA CallKeepsDue ==
    ASSUME IInv, DueToAsk, NEW c \in Callers, Call(c) \/ Unreadable(c)
    PROVE  DueToAsk'
<1> USE DEF Conclude, Positions
<1>0. /\ TypeOK /\ pc \in [Callers -> Positions]
      /\ seen \in [Callers -> Actions \cup {"none"}]
      /\ UNCHANGED <<req, answer>>
  BY DEF IInv, TypeOK, Call, Send, SendCut, Classify, ReadBack, Recheck, WaitIdle,
     Pause, Poll, Unreadable
<1>a. req[c].action # "none" /\ "uncertain" \notin DefiniteNo
  BY <1>0, RequestAction, ActionsAssumption DEF TypeOK, DefiniteNo, GateAnswers
<1>1. ASSUME \A d \in Callers : d # c => pc'[d] = pc[d] /\ seen'[d] = seen[d],
             pc'[c] \in {"recheck", "waitIdle"} => answer[c] \in DefiniteNo,
             pc'[c] = "pause" => answer[c] \in DefiniteNo /\ seen'[c] = "none",
             pc'[c] = "send" => answer[c] # "uncertain" /\ seen'[c] # req[c].action
      PROVE  DueToAsk'
  BY <1>0, <1>1 DEF DueToAsk
<1>2. CASE Send(c) \/ SendCut(c)
  BY <1>0, <1>1, <1>2 DEF Send, SendCut
<1>3. CASE Classify(c)
  <2>1. answer[c] # "none" /\ UNCHANGED seen
        /\ AfterAnswer(c) \in Positions \cup Outcomes
        /\ AfterAnswer(c) \notin {"send", "waitIdle", "pause"}
        /\ (AfterAnswer(c) = "recheck" => answer[c] \in DefiniteNo)
    BY <1>0, <1>3, AnswerVerdict DEF IInv, AnsweredHasAnswer, Classify, Outcomes,
       PendingCauses
  <2> QED
    BY <1>0, <1>1, <1>3, <2>1 DEF Classify
<1>4. CASE ReadBack(c)
  <2>1. PICK v \in {"unknown", "success", "poll"} : Conclude(c, v)
    BY <1>4, Verdicts DEF ReadBack
  <2> QED
    BY <1>0, <1>1, <1>4, <2>1 DEF ReadBack
<1>5. CASE Recheck(c)
  <2>1. PICK v \in {"refused", "success", "waitIdle", "pause"} :
           Conclude(c, v) /\ (v = "pause" => ReadsVolume(c) /\ Marker = "none")
    <3>1. CASE expired[c] /\ Conclude(c, "refused")
      BY <3>1
    <3>2. CASE Conclude(c, Gone(c, "refused"))
      BY <3>2, Verdicts
    <3>3. CASE ReadsVolume(c) /\ Conclude(c, AfterRefusal(c))
      <4>1. AfterRefusal(c) = "pause" => Marker = "none"
        BY DEF AfterRefusal
      <4> QED
        BY <3>3, <4>1, Verdicts
    <3> QED
      BY <1>5, <3>1, <3>2, <3>3 DEF Recheck
  <2>2. seen' = IF ReadsVolume(c) THEN [seen EXCEPT ![c] = Marker] ELSE seen
    BY <1>5 DEF Recheck
  <2>3. answer[c] \in DefiniteNo
    BY <1>5 DEF DueToAsk, Recheck
  <2> QED
    BY <1>0, <1>1, <2>1, <2>2, <2>3
<1>6. CASE WaitIdle(c)
  <2>1. PICK v \in {"pendingDeadline", "success", "pendingGone", "failed", "send"} :
           Conclude(c, v) /\ (v = "send" => seen[c] # req[c].action)
    <3>1. AfterIdle(c) = "send" => seen[c] # req[c].action
      BY DEF AfterIdle
    <3> QED
      BY <1>6, <3>1, Verdicts DEF WaitIdle
  <2>2. answer[c] \in DefiniteNo /\ UNCHANGED seen
    BY <1>6 DEF DueToAsk, WaitIdle
  <2> QED
    BY <1>0, <1>1, <1>a, <2>1, <2>2
<1>7. CASE Pause(c)
  <2>1. PICK v \in {"send", "pendingDeadline"} : Conclude(c, v)
    BY <1>7 DEF Pause
  <2>2. answer[c] \in DefiniteNo /\ seen[c] = "none" /\ UNCHANGED seen
    BY <1>7 DEF DueToAsk, Pause
  <2> QED
    BY <1>0, <1>1, <1>a, <2>1, <2>2
<1>8. CASE Poll(c)
  <2>1. PICK v \in {"pendingDeadline", "success", "gone", "poll", "failed"} :
           Conclude(c, v)
    BY <1>8, Verdicts DEF Poll
  <2> QED
    BY <1>0, <1>1, <1>8, <2>1 DEF Poll
<1>9. CASE Unreadable(c)
  <2>1. PICK v \in {"unknown", "refused", "pendingUnreadable", "poll", "unreadable"} :
           Conclude(c, v)
    BY <1>9 DEF Unreadable
  <2> QED
    BY <1>0, <1>1, <1>9, <2>1 DEF Unreadable
<1> QED
  BY <1>2, <1>3, <1>4, <1>5, <1>6, <1>7, <1>8, <1>9 DEF Call

\* Every step keeps DueToAsk: the platform answers only a waiting call.
LEMMA NextKeepsDue ==
    ASSUME IInv, DueToAsk, [Next]_vars
    PROVE  DueToAsk'
<1>0. TypeOK
  BY DEF IInv
<1>1. ASSUME NEW c \in Callers, NEW a \in AnswerKinds, Reply(c, a),
             UNCHANGED <<req, seen>>
      PROVE  DueToAsk'
  BY <1>0, <1>1, ReplyType DEF DueToAsk
<1>2. ASSUME UNCHANGED <<req, seen, pc, answer>>
      PROVE  DueToAsk'
  BY <1>2 DEF DueToAsk
<1>3. {"denied", "notFound", "busy", "cooldown", "refused", "ok", "uncertain"}
         \subseteq AnswerKinds
  BY DEF AnswerKinds, DefiniteNo, GateAnswers
<1>4. ASSUME NEW c \in Callers,
             \/ PlatformRefuses(c) \/ PlatformRecords(c) \/ PlatformAppliesAtOnce(c)
             \/ AnswerLost(c) \/ Deadline(c)
      PROVE  DueToAsk'
  BY <1>1, <1>2, <1>3, <1>4 DEF PlatformRefuses, PlatformRecords,
     PlatformAppliesAtOnce, AnswerLost, Deadline, Arrive
<1>5. CASE PlatformPublishes
  <2>1. opBy \in Callers
    BY <1>0, <1>5 DEF PlatformPublishes, TypeOK
  <2> QED
    BY <1>1, <1>3, <1>5, <2>1 DEF PlatformPublishes
<1>6. CASE NodeConfirms \/ NodeFails \/ CooldownEnds \/ UNCHANGED vars
  BY <1>2, <1>6 DEF NodeConfirms, NodeFails, CooldownEnds, vars
<1> QED
  BY <1>4, <1>5, <1>6, CallKeepsDue DEF Next, Platform

\* After an uncertain answer, a recorded operation or a waited-out operation of
\* its own action, a call never sends again.
THEOREM NeverSendsInDoubt == Spec => NoResendAfterDoubt
<1>1. Init => DueToAsk
  <2> SUFFICES ASSUME Init, NEW c \in Callers
               PROVE  seen[c] # req[c].action
    BY DEF Init, DueToAsk
  <2>1. req[c].action # "none" /\ seen[c] = "none"
    BY RequestAction, ActionsAssumption DEF Init
  <2> QED
    BY <2>1
<1>2. IInv /\ DueToAsk /\ [Next]_vars => DueToAsk'
  BY NextKeepsDue
<1>3. ASSUME IInv, DueToAsk, [Next]_vars, NEW c \in Callers, wire'[c] > wire[c]
      PROVE  /\ recorded[c] = 0 /\ wire[c] = 0
             /\ answer[c] # "uncertain" /\ seen[c] # req[c].action
  <2>0. TypeOK
    BY <1>3 DEF IInv
  <2>1. ~(wire'[c] = wire[c])
    BY <1>3, <2>0 DEF TypeOK
  <2>2. ASSUME NEW d \in Callers, Arrive(d)  PROVE FALSE
    BY <1>3, <2>0, <2>1, <2>2 DEF Arrive, TypeOK
  <2>3. ASSUME NEW d \in Callers, Call(d) \/ Unreadable(d), ~Send(d)  PROVE FALSE
    BY <2>1, <2>3 DEF Call, SendCut, Classify, ReadBack, Recheck, WaitIdle, Pause,
       Poll, Unreadable
  <2>4. ASSUME NEW d \in Callers, AnswerLost(d) \/ Deadline(d)  PROVE FALSE
    BY <2>1, <2>4 DEF AnswerLost, Deadline
  <2>5. ~(PlatformPublishes \/ NodeConfirms \/ NodeFails \/ CooldownEnds
          \/ UNCHANGED vars)
    BY <2>1 DEF PlatformPublishes, NodeConfirms, NodeFails, CooldownEnds, vars
  <2>6. PICK d \in Callers : Send(d)
    BY <1>3, <2>2, <2>3, <2>4, <2>5 DEF Next, Platform, PlatformRefuses,
       PlatformRecords, PlatformAppliesAtOnce
  <2>7. c = d
    BY <2>0, <2>1, <2>6 DEF Send, TypeOK
  <2>8. pc[c] = "send"
    BY <2>6, <2>7 DEF Send
  <2> QED
    BY <1>3, <2>8 DEF IInv, ClearToAsk, Clear, ClearPositions, DueToAsk
<1>4. IInv /\ DueToAsk /\ [Next]_vars => [SendsInTheClear]_vars
  BY <1>3 DEF SendsInTheClear
<1> QED
  BY <1>1, <1>2, <1>4, Invariance, PTL DEF Spec, NoResendAfterDoubt

-----------------------------------------------------------------------------
(* A call alone on the volume tells the truth for good.                    *)

\* A call past its first send has been answered.
Asked ==
    \A c \in Callers : pc[c] \notin {"send", "sent", "done"} => answer[c] # "none"

\* The operation the platform works on has been counted.
Accounted == opBy # NoCaller => recorded[opBy] = 1

\* A call alone waits for no other operation; it waits for its own only when
\* that was recorded, and one that is over either did or failed.
FitsAlone(c) ==
    /\ pc[c] # "waitIdle"
    /\ \/ pc[c] = "poll"
       \/ pc[c] = "answered" /\ answer[c] = "ok"
       => recorded[c] = 1 /\ (opBy = c => published)
    /\ opBy = c => vol.exists
    /\ recorded[c] = 1 /\ opBy # c => Holds(c, vol) \/ c \in nodeFailed

\* The two verdicts of SoloVerdictIsFinal.
FinalAlone(c) ==
    /\ outcome[c] = "success" => Holds(c, vol)
    /\ outcome[c] = "failed" =>
          c \in nodeFailed /\ opBy # c /\ wire[c] = 0 /\ ~Holds(c, vol)

SoloFits == \A c \in Callers : Alone(c) => FitsAlone(c)

\* The inductive invariant of a call alone.
SoloInv ==
    /\ IInv
    /\ Asked
    /\ Accounted
    /\ SoloFits
    /\ SoloVerdictIsFinal

\* What SoloInv says of one call alone.
LEMMA SoloHere ==
    ASSUME SoloInv, NEW c \in Callers, Alone(c)
    PROVE  FitsAlone(c) /\ FinalAlone(c) /\ opBy \in {c, NoCaller}
<1>1. FitsAlone(c) /\ FinalAlone(c)
  BY DEF SoloInv, SoloFits, SoloVerdictIsFinal, FinalAlone
<1>2. opBy \in Callers \cup {NoCaller}
  BY DEF SoloInv, IInv, TypeOK
<1>3. ASSUME opBy \in Callers \ {c}  PROVE FALSE
  <2>1. recorded[opBy] = 1
    BY <1>3, CallersAssumption DEF SoloInv, Accounted
  <2>2. recorded[opBy] = 0
    BY <1>3 DEF Alone
  <2> QED
    BY <2>1, <2>2
<1> QED
  BY <1>1, <1>2, <1>3

\* An operation applied to an existing volume does what its call asked for.
LEMMA AppliedHolds ==
    ASSUME TypeOK, NEW c \in Callers, vol.exists
    PROVE  Holds(c, Applied(c))
<1>1. PICK r \in Request : r = req[c]
  BY DEF TypeOK
<1>2. PICK b \in BOOLEAN, i \in Instances \cup {NoInstance}, p \in Plans :
         vol = [exists |-> b, inst |-> i, plan |-> p]
  BY DEF TypeOK
<1>3. r.action \in {"attach", "detach", "resize", "delete"}
  BY DEF Request
<1>4. CASE r.action \in {"attach", "detach"}
  BY <1>1, <1>2, <1>4 DEF Holds, Desired, Applied
<1>5. CASE r.action = "resize"
  BY <1>1, <1>2, <1>5 DEF Holds, Desired, Applied
<1>6. CASE r.action = "delete"
  BY <1>1, <1>2, <1>6 DEF Holds, Desired, Applied
<1> QED
  BY <1>3, <1>4, <1>5, <1>6

\* A step of one call ends the solitude of every other.
LEMMA StepEndsAlone ==
    ASSUME SoloInv, NEW c \in Callers, NEW d \in Callers, d # c,
           \/ Call(d) \/ Unreadable(d) \/ AnswerLost(d)
           \/ PlatformRefuses(d) \/ PlatformRecords(d) \/ PlatformAppliesAtOnce(d)
    PROVE  ~Alone(c)'
<1> USE DEF Positions
<1>0. /\ IInv /\ TypeOK /\ pc \in [Callers -> Positions]
      /\ recorded \in [Callers -> Nat]
      /\ pc[d] \notin {"send", "sent", "done"} => answer[d] # "none"
  BY DEF SoloInv, IInv, TypeOK, Asked
<1> SUFFICES ASSUME pc'[d] = "send", answer'[d] = "none", recorded'[d] = 0
             PROVE  FALSE
  BY DEF Alone
<1>1. ASSUME Send(d) \/ SendCut(d)  PROVE FALSE
  BY <1>0, <1>1 DEF Send, SendCut, Conclude
<1>2. ASSUME Classify(d) \/ ReadBack(d) \/ Recheck(d) \/ WaitIdle(d) \/ Pause(d)
             \/ Poll(d) \/ Unreadable(d)
      PROVE  FALSE
  BY <1>0, <1>2 DEF Classify, ReadBack, Recheck, WaitIdle, Pause, Poll, Unreadable
<1>3. ASSUME AnswerLost(d)  PROVE FALSE
  BY <1>0, <1>3 DEF AnswerLost, Reply
<1>4. ASSUME PlatformRefuses(d)  PROVE FALSE
  <2>1. PICK a : Reply(d, a)
    BY <1>4 DEF PlatformRefuses
  <2>2. pc[d] # "send"
    BY <1>0, <1>4, Arrival DEF PlatformRefuses, ClearPositions
  <2> QED
    BY <1>0, <2>1, <2>2 DEF Reply
<1>5. ASSUME PlatformRecords(d) \/ PlatformAppliesAtOnce(d)  PROVE FALSE
  <2>1. recorded'[d] = recorded[d] + 1 /\ recorded[d] \in Nat
    BY <1>0, <1>5 DEF PlatformRecords, PlatformAppliesAtOnce
  <2> QED
    BY <2>1
<1> QED
  BY <1>1, <1>2, <1>3, <1>4, <1>5 DEF Call

\* A call that is alone after a step of its own was alone before it.
LEMMA AloneBefore ==
    ASSUME SoloInv, NEW c \in Callers, Alone(c)',
           \/ Call(c) \/ Unreadable(c) \/ AnswerLost(c) \/ Deadline(c)
           \/ PlatformRefuses(c) \/ PlatformRecords(c) \/ PlatformAppliesAtOnce(c)
    PROVE  Alone(c)
<1>0. TypeOK
  BY DEF SoloInv, IInv
<1>1. \A d \in Callers \ {c} : /\ pc'[d] = pc[d] /\ answer'[d] = answer[d]
                               /\ recorded'[d] = recorded[d] /\ wire'[d] = wire[d]
  <2>1. CASE Call(c) \/ Unreadable(c) \/ Deadline(c)
    BY <1>0, <2>1 DEF Call, Send, SendCut, Classify, ReadBack, Recheck, WaitIdle,
       Pause, Poll, Unreadable, Deadline, Conclude, TypeOK, history
  <2>2. CASE AnswerLost(c)
    BY <1>0, <2>2 DEF AnswerLost, Reply, TypeOK, history
  <2>3. CASE PlatformRefuses(c)
    <3>1. PICK a : Reply(c, a)
      BY <2>3 DEF PlatformRefuses
    <3> QED
      BY <1>0, <2>3, <3>1 DEF PlatformRefuses, Arrive, Reply, TypeOK, history
  <2>4. CASE PlatformRecords(c) \/ PlatformAppliesAtOnce(c)
    BY <1>0, <2>4 DEF PlatformRecords, PlatformAppliesAtOnce, Arrive, Reply, TypeOK
  <2> QED
    BY <2>1, <2>2, <2>3, <2>4
<1> QED
  BY <1>1 DEF Alone

\* The verdicts of the call's own steps: what a step must establish when it
\* leads to waiting, to success or to failure.
LEMMA DecisionFits ==
    ASSUME SoloInv, NEW c \in Callers, Alone(c),
           NEW v \in (Positions \cup Outcomes) \ {"answered", "waitIdle", "none"},
           v = "poll" => recorded[c] = 1 /\ (opBy = c => published),
           v = "success" => Holds(c, vol),
           v = "failed" => c \in nodeFailed /\ opBy # c /\ wire[c] = 0
                              /\ ~Holds(c, vol),
           outcome[c] = "none",
           Conclude(c, v),
           UNCHANGED <<vol, opBy, published, req, recorded, nodeFailed>>,
           v \notin Positions => UNCHANGED wire
    PROVE  FitsAlone(c)' /\ FinalAlone(c)'
<1>0. /\ pc \in [Callers -> Positions] /\ outcome \in [Callers -> Outcomes]
      /\ FitsAlone(c)
  BY SoloHere DEF SoloInv, IInv, TypeOK
<1>1. Holds(c, vol)' = Holds(c, vol)
  BY DEF Holds, Desired
<1>2. CASE v \in Positions
  <2>1. pc'[c] = v /\ outcome'[c] = "none"
    BY <1>0, <1>2 DEF Conclude
  <2> QED
    BY <1>0, <1>1, <2>1 DEF FitsAlone, FinalAlone
<1>3. CASE v \notin Positions
  <2>1. pc'[c] = "done" /\ outcome'[c] = v /\ UNCHANGED wire
    BY <1>0, <1>3 DEF Conclude
  <2> QED
    BY <1>0, <1>1, <2>1 DEF FitsAlone, FinalAlone
<1> QED
  BY <1>2, <1>3

\* A marker a call alone sees is that of its own, recorded operation.
LEMMA MarkerIsOwn ==
    ASSUME SoloInv, NEW c \in Callers, Alone(c), Marker # "none"
    PROVE  opBy = c /\ published /\ recorded[c] = 1
<1>1. opBy = c /\ published
  BY SoloHere DEF Marker
<1>2. recorded[opBy] = 1
  BY <1>1, CallersAssumption DEF SoloInv, Accounted
<1> QED
  BY <1>1, <1>2

\* The completion wait of a call alone fails only after the node did.
LEMMA FailureIsReal ==
    ASSUME SoloInv, NEW c \in Callers, Alone(c), pc[c] = "poll", ReadsVolume(c),
           AfterPoll(c) = "failed"
    PROVE  c \in nodeFailed /\ opBy # c /\ wire[c] = 0 /\ ~Holds(c, vol)
<1>1. Marker # req[c].action /\ ~Desired(c, vol) /\ vol.exists
  BY DEF AfterPoll, ReadsVolume
<1>2. ~Holds(c, vol)
  BY <1>1 DEF Holds
<1>3. recorded[c] = 1 /\ (opBy = c => published)
  BY SoloHere DEF FitsAlone
<1>4. opBy # c
  BY <1>1, <1>3, CallersAssumption DEF Marker
<1>5. wire[c] = 0
  BY <1>3 DEF SoloInv, IInv, TypeOK, AtMostOnce
<1>6. c \in nodeFailed
  BY <1>2, <1>3, <1>4, SoloHere DEF FitsAlone
<1> QED
  BY <1>2, <1>4, <1>5, <1>6

\* A call alone that reads, decides or waits keeps to what fits and is final.
LEMMA CallFits ==
    ASSUME SoloInv, NEW c \in Callers, Alone(c), Call(c) \/ Unreadable(c)
    PROVE  FitsAlone(c)' /\ FinalAlone(c)'
<1> USE DEF Positions, Outcomes, PendingCauses, platform, history
<1>0. /\ IInv /\ TypeOK /\ FitsAlone(c) /\ outcome[c] = "none"
      /\ outcome \in [Callers -> Outcomes]
      /\ pc[c] = "recheck" => Clear(c)
  BY SoloHere, CallMovesOutcome DEF SoloInv, IInv, TypeOK, ClearToAsk, ClearPositions
<1>s. ASSUME NEW v, v = "success", Conclude(c, v)  PROVE Holds(c, vol)
  <2>1. outcome'[c] = "success"
    BY <1>0, <1>s DEF Conclude
  <2> QED
    BY <1>0, <2>1, SuccessHolds
<1>a. req[c].action # "none"
  BY <1>0, RequestAction, ActionsAssumption DEF TypeOK
<1>1. CASE Send(c)
  <2>1. PICK v \in {"pendingDeadline", "sent"} :
           Conclude(c, v) /\ (v \notin Positions => UNCHANGED wire)
    BY <1>1 DEF Send
  <2> QED
    BY <1>0, <1>1, <2>1, DecisionFits DEF Send
<1>2. CASE SendCut(c)
  BY <1>0, <1>2, DecisionFits DEF SendCut
<1>3. CASE Classify(c)
  <2>1. AfterAnswer(c) \in {"poll", "pendingDeadline", "readBack", "refused",
                            "recheck"}
    BY <1>0, <1>3, AnswerVerdict DEF IInv, AnsweredHasAnswer, Classify
  <2>2. ASSUME AfterAnswer(c) = "poll"
        PROVE  recorded[c] = 1 /\ (opBy = c => published)
    <3>1. answer[c] \in AnswerKinds /\ expired[c] \in BOOLEAN
      BY <1>0 DEF TypeOK
    <3>2. answer[c] # "none"
      BY <1>0, <1>3 DEF IInv, AnsweredHasAnswer, Classify
    <3>3. CASE answer[c] = "ok"
      BY <1>0, <1>3, <3>3 DEF Classify, FitsAlone
    <3>4. CASE answer[c] # "ok" /\ expired[c]
      BY <2>2, <3>4 DEF AfterAnswer, GateAnswers
    <3>5. CASE answer[c] = "uncertain" /\ ~expired[c]
      BY <2>2, <3>5 DEF AfterAnswer, GateAnswers
    <3>6. CASE answer[c] \in {"denied", "notFound"} /\ ~expired[c]
      BY <2>2, <3>6 DEF AfterAnswer, GateAnswers
    <3>7. CASE answer[c] \in GateAnswers \cup {"refused"} /\ ~expired[c]
      BY <2>2, <3>7 DEF AfterAnswer, GateAnswers
    <3> QED
      BY <3>1, <3>2, <3>3, <3>4, <3>5, <3>6, <3>7 DEF AnswerKinds, DefiniteNo
  <2> QED
    BY <1>0, <1>3, <2>1, <2>2, DecisionFits DEF Classify
<1>4. CASE ReadBack(c)
  <2>1. PICK v \in {"unknown", "success", "poll"} :
           Conclude(c, v) /\ (v = "poll" => Marker # "none")
    <3>1. AfterUncertain(c) = "poll" => Marker # "none"
      BY <1>a DEF AfterUncertain
    <3> QED
      BY <1>4, <3>1, Verdicts DEF ReadBack
  <2> QED
    BY <1>0, <1>s, <1>4, <2>1, MarkerIsOwn, DecisionFits DEF ReadBack
<1>5. CASE Recheck(c)
  <2>1. Marker = "none"
    BY <1>0, <1>5, MarkerIsOwn DEF Recheck, Clear
  <2>2. AfterRefusal(c) \in {"success", "pause", "refused"}
    BY <2>1 DEF AfterRefusal
  <2>3. PICK v \in {"refused", "success", "pause"} : Conclude(c, v)
    BY <1>5, <2>2, Verdicts DEF Recheck
  <2> QED
    BY <1>0, <1>s, <1>5, <2>3, DecisionFits DEF Recheck
<1>6. CASE WaitIdle(c)
  BY <1>0, <1>6 DEF WaitIdle, FitsAlone
<1>7. CASE Pause(c)
  <2>1. PICK v \in {"send", "pendingDeadline"} : Conclude(c, v)
    BY <1>7 DEF Pause
  <2> QED
    BY <1>0, <1>7, <2>1, DecisionFits DEF Pause
<1>8. CASE Poll(c)
  <2>1. recorded[c] = 1 /\ (opBy = c => published)
    BY <1>0, <1>8 DEF Poll, FitsAlone
  <2>2. PICK v \in {"pendingDeadline", "success", "gone", "poll", "failed"} :
           /\ Conclude(c, v)
           /\ v = "failed" => ReadsVolume(c) /\ AfterPoll(c) = "failed"
    <3>1. \A o \in {"gone"} : Gone(c, o) \in {"success", "gone"}
      BY Verdicts
    <3> QED
      BY <1>8, <3>1, Verdicts DEF Poll
  <2>3. v = "failed" => c \in nodeFailed /\ opBy # c /\ wire[c] = 0 /\ ~Holds(c, vol)
    BY <1>8, <2>2, FailureIsReal DEF Poll
  <2> QED
    BY <1>0, <1>s, <1>8, <2>1, <2>2, <2>3, DecisionFits DEF Poll
<1>9. CASE Unreadable(c)
  <2>1. PICK v \in {"unknown", "refused", "pendingUnreadable", "poll", "unreadable"} :
           Conclude(c, v) /\ (v = "poll" => pc[c] = "poll")
    BY <1>9 DEF Unreadable
  <2>2. v = "poll" => recorded[c] = 1 /\ (opBy = c => published)
    BY <1>0, <2>1 DEF FitsAlone
  <2> QED
    BY <1>0, <1>9, <2>1, <2>2, DecisionFits DEF Unreadable
<1> QED
  BY <1>1, <1>2, <1>3, <1>4, <1>5, <1>6, <1>7, <1>8, <1>9 DEF Call

\* What the platform does with a request of a call alone keeps to it as well.
LEMMA ArrivalFits ==
    ASSUME SoloInv, NEW c \in Callers, Alone(c),
           PlatformRefuses(c) \/ PlatformRecords(c) \/ PlatformAppliesAtOnce(c)
    PROVE  FitsAlone(c)' /\ FinalAlone(c)'
<1> USE DEF platform, history
<1>0. /\ IInv /\ TypeOK /\ FitsAlone(c) /\ FinalAlone(c) /\ Arrive(c)
      /\ UNCHANGED <<req, outcome>>
      /\ recorded \in [Callers -> Nat]
  BY SoloHere DEF SoloInv, IInv, TypeOK, PlatformRefuses, PlatformRecords,
     PlatformAppliesAtOnce, Arrive
<1>1. /\ wire[c] = 1 /\ recorded[c] = 0 /\ pc[c] \notin ClearPositions
      /\ pc[c] # "poll" /\ ~(pc[c] = "answered" /\ answer[c] = "ok")
      /\ outcome[c] # "failed"
  BY <1>0, Arrival DEF FitsAlone, FinalAlone
<1>2. CASE PlatformRefuses(c)
  <2>1. PICK a \in DefiniteNo : Reply(c, a)
    BY <1>2 DEF PlatformRefuses, DefiniteNo, GateAnswers
  <2>2. a \in AnswerKinds /\ a # "ok"
    BY <2>1 DEF DefiniteNo, GateAnswers, AnswerKinds
  <2>3. /\ pc'[c] \notin {"waitIdle", "poll"}
        /\ ~(pc'[c] = "answered" /\ answer'[c] = "ok")
    BY <1>0, <1>1, <2>1, <2>2, ReplyType DEF ClearPositions
  <2>4. UNCHANGED <<vol, opBy, published, recorded, nodeFailed>>
    BY <1>2 DEF PlatformRefuses
  <2>5. Holds(c, vol)' = Holds(c, vol)
    BY <1>0, <2>4 DEF Holds, Desired
  <2> QED
    BY <1>0, <1>1, <2>3, <2>4, <2>5 DEF FitsAlone, FinalAlone
<1>3. CASE PlatformRecords(c)
  <2>1. /\ UNCHANGED <<vol, pc, answer, nodeFailed>>
        /\ opBy' = c /\ recorded'[c] = 1 /\ vol.exists
    BY <1>0, <1>1, <1>3 DEF PlatformRecords, Admissible
  <2>2. Holds(c, vol)' = Holds(c, vol)
    BY <1>0, <2>1 DEF Holds, Desired
  <2> QED
    BY <1>0, <1>1, <2>1, <2>2 DEF FitsAlone, FinalAlone
<1>4. CASE PlatformAppliesAtOnce(c)
  <2>1. /\ UNCHANGED <<opBy, published, nodeFailed>> /\ opBy = NoCaller
        /\ vol' = Applied(c) /\ vol.exists /\ recorded'[c] = 1
        /\ Reply(c, "ok") /\ "ok" \in AnswerKinds
    BY <1>0, <1>1, <1>4 DEF PlatformAppliesAtOnce, Admissible, AnswerKinds
  <2>2. Holds(c, Applied(c))
    BY <1>0, <2>1, AppliedHolds
  <2>3. Holds(c, vol)'
    BY <1>0, <2>1, <2>2 DEF Holds, Desired
  <2>4. pc'[c] # "waitIdle" /\ opBy # c
    BY <1>0, <1>1, <2>1, ReplyType, CallersAssumption DEF ClearPositions
  <2> QED
    BY <1>0, <1>1, <2>1, <2>3, <2>4 DEF FitsAlone, FinalAlone
<1> QED
  BY <1>2, <1>3, <1>4

\* And so does the operation's own course: published, confirmed or failed.
LEMMA OperationFits ==
    ASSUME SoloInv, NEW c \in Callers, Alone(c)',
           PlatformPublishes \/ NodeConfirms \/ NodeFails
    PROVE  FitsAlone(c)' /\ FinalAlone(c)'
<1>0. /\ TypeOK /\ opBy \in Callers /\ recorded[opBy] = 1
      /\ UNCHANGED <<recorded, req, wire, outcome>>
  BY DEF SoloInv, IInv, TypeOK, Accounted, PlatformPublishes, NodeConfirms,
     NodeFails, history
<1>1. opBy = c
  BY <1>0 DEF Alone
<1>2. \A d \in Callers \ {c} : pc'[d] = pc[d] /\ answer'[d] = answer[d]
  BY <1>0, <1>1 DEF PlatformPublishes, NodeConfirms, NodeFails, Reply, TypeOK
<1>3. Alone(c)
  BY <1>0, <1>2 DEF Alone
<1>4. /\ FitsAlone(c) /\ FinalAlone(c) /\ vol.exists /\ outcome[c] # "failed"
      /\ opBy = c /\ c # NoCaller
  BY <1>1, <1>3, SoloHere, CallersAssumption DEF FitsAlone, FinalAlone
<1>5. CASE PlatformPublishes
  <2>1. /\ UNCHANGED <<vol, opBy, nodeFailed>> /\ published' = TRUE
        /\ Reply(c, "ok")
    BY <1>1, <1>5 DEF PlatformPublishes, history
  <2>2. pc'[c] # "waitIdle"
    BY <1>0, <1>4, <2>1 DEF Reply, TypeOK, FitsAlone
  <2>3. Holds(c, vol)' = Holds(c, vol)
    BY <1>0, <2>1 DEF Holds, Desired
  <2> QED
    BY <1>0, <1>1, <1>4, <2>1, <2>2, <2>3 DEF FitsAlone, FinalAlone
<1>6. CASE NodeConfirms
  <2>1. vol' = Applied(c) /\ opBy' = NoCaller /\ UNCHANGED <<pc, answer, nodeFailed>>
    BY <1>1, <1>6 DEF NodeConfirms
  <2>2. Holds(c, vol)'
    BY <1>0, <1>4, <2>1, AppliedHolds DEF Holds, Desired
  <2> QED
    BY <1>0, <1>1, <1>4, <2>1, <2>2 DEF FitsAlone, FinalAlone
<1>7. CASE NodeFails
  <2>1. /\ c \in nodeFailed' /\ opBy' = NoCaller /\ UNCHANGED <<vol, pc, answer>>
    BY <1>1, <1>7 DEF NodeFails
  <2>2. Holds(c, vol)' = Holds(c, vol)
    BY <1>0, <2>1 DEF Holds, Desired
  <2> QED
    BY <1>0, <1>1, <1>4, <2>1, <2>2 DEF FitsAlone, FinalAlone
<1> QED
  BY <1>5, <1>6, <1>7

\* Losing the answer, the deadline and the end of a cooldown change nothing that
\* a call alone relies on.
LEMMA QuietFits ==
    ASSUME SoloInv, NEW c \in Callers, Alone(c),
           \/ AnswerLost(c)
           \/ UNCHANGED <<vol, opBy, published, wire, req, pc, answer, outcome,
                          recorded, nodeFailed>>
    PROVE  FitsAlone(c)' /\ FinalAlone(c)'
<1>0. /\ TypeOK /\ FitsAlone(c) /\ FinalAlone(c)
      /\ UNCHANGED <<vol, opBy, published, wire, req, outcome, recorded, nodeFailed>>
  BY SoloHere DEF SoloInv, IInv, AnswerLost, platform, history
<1>1. Holds(c, vol)' = Holds(c, vol)
  BY <1>0 DEF Holds, Desired
<1>2. /\ pc'[c] \in {"waitIdle", "poll"} => pc[c] = pc'[c]
      /\ pc'[c] = "answered" /\ answer'[c] = "ok" =>
            pc[c] = "answered" /\ answer[c] = "ok"
  BY <1>0 DEF AnswerLost, Reply, TypeOK
<1> QED
  BY <1>0, <1>1, <1>2 DEF FitsAlone, FinalAlone

\* A call that has gone on from its request keeps the answer it got.
LEMMA NextKeepsAsked ==
    ASSUME SoloInv, [Next]_vars
    PROVE  Asked' /\ Accounted'
<1> USE DEF Positions, platform, history
<1>0. /\ IInv /\ TypeOK /\ Asked /\ Accounted
      /\ pc \in [Callers -> Positions] /\ answer \in [Callers -> AnswerKinds]
      /\ recorded \in [Callers -> Nat]
  BY DEF SoloInv, IInv, TypeOK
<1>1. ASSUME NEW c \in Callers, Call(c) \/ Unreadable(c)
      PROVE  Asked' /\ Accounted'
  <2>1. /\ UNCHANGED <<answer, opBy, recorded>>
        /\ \A d \in Callers \ {c} : pc'[d] = pc[d]
        /\ pc[c] \in {"send", "sent"} => pc'[c] \in {"sent", "done"}
    BY <1>0, <1>1 DEF Call, Send, SendCut, Classify, ReadBack, Recheck, WaitIdle,
       Pause, Poll, Unreadable, Conclude
  <2>2. pc[c] # "done"
    BY <1>1 DEF Call, Send, SendCut, Classify, ReadBack, Recheck, WaitIdle,
       Pause, Poll, Unreadable
  <2> QED
    BY <1>0, <2>1, <2>2 DEF Asked, Accounted
<1>2. ASSUME NEW c \in Callers, NEW a \in AnswerKinds, a # "none", Reply(c, a)
      PROVE  Asked'
  BY <1>0, <1>2, ReplyType DEF Asked
<1>3. {"denied", "notFound", "busy", "cooldown", "refused", "ok", "uncertain"}
         \subseteq AnswerKinds
  BY DEF AnswerKinds, DefiniteNo, GateAnswers
<1>4. ASSUME NEW c \in Callers, PlatformRefuses(c) \/ AnswerLost(c)
      PROVE  Asked' /\ Accounted'
  <2>1. UNCHANGED <<opBy, recorded>>
    BY <1>4 DEF PlatformRefuses, AnswerLost
  <2>2. PICK a \in AnswerKinds : a # "none" /\ Reply(c, a)
    BY <1>3, <1>4 DEF PlatformRefuses, AnswerLost
  <2> QED
    BY <1>0, <1>2, <2>1, <2>2 DEF Accounted
<1>5. ASSUME NEW c \in Callers, PlatformRecords(c)
      PROVE  Asked' /\ Accounted'
  <2>1. recorded[c] = 0 /\ UNCHANGED <<pc, answer>>
    BY <1>0, <1>5, Arrival DEF PlatformRecords
  <2>2. opBy' = c /\ recorded'[c] = 1
    BY <1>0, <1>5, <2>1 DEF PlatformRecords
  <2> QED
    BY <1>0, <2>1, <2>2 DEF Asked, Accounted
<1>6. ASSUME NEW c \in Callers, PlatformAppliesAtOnce(c)
      PROVE  Asked' /\ Accounted'
  <2>1. Reply(c, "ok") /\ opBy = NoCaller /\ UNCHANGED opBy
    BY <1>6 DEF PlatformAppliesAtOnce, Admissible
  <2> QED
    BY <1>0, <1>2, <1>3, <2>1 DEF Accounted
<1>7. CASE PlatformPublishes
  <2>1. opBy \in Callers /\ Reply(opBy, "ok") /\ UNCHANGED <<opBy, recorded>>
    BY <1>0, <1>7 DEF PlatformPublishes, TypeOK
  <2> QED
    BY <1>0, <1>2, <1>3, <2>1 DEF Accounted
<1>8. CASE NodeConfirms \/ NodeFails
  BY <1>0, <1>8 DEF NodeConfirms, NodeFails, Asked, Accounted
<1>9. CASE CooldownEnds \/ (\E c \in Callers : Deadline(c)) \/ UNCHANGED vars
  BY <1>0, <1>9 DEF CooldownEnds, Deadline, vars, Asked, Accounted
<1> QED
  BY <1>1, <1>4, <1>5, <1>6, <1>7, <1>8, <1>9 DEF Next, Platform

\* Every step keeps the invariant of a call alone.
LEMMA NextKeepsSolo ==
    ASSUME SoloInv, IInv', [Next]_vars
    PROVE  SoloInv'
<1>1. ASSUME NEW c \in Callers, Alone(c)'
      PROVE  FitsAlone(c)' /\ FinalAlone(c)'
  <2> USE DEF platform, history
  <2>1. CASE \E d \in Callers :
                \/ Call(d) \/ Unreadable(d) \/ AnswerLost(d)
                \/ PlatformRefuses(d) \/ PlatformRecords(d) \/ PlatformAppliesAtOnce(d)
    <3>1. PICK d \in Callers :
             \/ Call(d) \/ Unreadable(d) \/ AnswerLost(d)
             \/ PlatformRefuses(d) \/ PlatformRecords(d) \/ PlatformAppliesAtOnce(d)
      BY <2>1
    <3>2. d = c
      BY <1>1, <3>1, StepEndsAlone
    <3>3. Alone(c)
      BY <1>1, <3>1, <3>2, AloneBefore
    <3> QED
      BY <3>1, <3>2, <3>3, CallFits, ArrivalFits, QuietFits
  <2>2. CASE PlatformPublishes \/ NodeConfirms \/ NodeFails
    BY <1>1, <2>2, OperationFits
  <2>3. CASE CooldownEnds \/ (\E d \in Callers : Deadline(d)) \/ UNCHANGED vars
    <3>1. UNCHANGED <<vol, opBy, published, wire, req, pc, answer, outcome,
                      recorded, nodeFailed>>
      BY <2>3 DEF CooldownEnds, Deadline, vars
    <3>2. Alone(c)
      BY <1>1, <3>1 DEF Alone
    <3> QED
      BY <3>1, <3>2, QuietFits
  <2> QED
    BY <2>1, <2>2, <2>3 DEF Next, Platform
<1>2. SoloFits' /\ SoloVerdictIsFinal'
  BY <1>1 DEF SoloFits, SoloVerdictIsFinal, FinalAlone
<1> QED
  BY <1>2, NextKeepsAsked DEF SoloInv

\* A call alone on the volume tells the truth for good: when it reported success
\* the volume is as asked and stays so, even if a request whose answer was lost
\* arrives afterwards; when it reported failure the node did fail it, the volume
\* is without the change, and nothing of the call can still bring it about.
THEOREM SoloTruth == Spec => []SoloVerdictIsFinal
<1>1. Init => SoloInv
  <2> SUFFICES ASSUME Init  PROVE SoloInv
    OBVIOUS
  <2>1. IInv
    BY InitInv
  <2> QED
    BY <2>1, CallersAssumption DEF Init, SoloInv, Asked, Accounted, SoloFits,
       FitsAlone, SoloVerdictIsFinal
<1>2. IInv' /\ SoloInv /\ [Next]_vars => SoloInv'
  BY NextKeepsSolo
<1>3. SoloInv => SoloVerdictIsFinal
  BY DEF SoloInv
<1> QED
  BY <1>1, <1>2, <1>3, Invariance, PTL DEF Spec
=============================================================================
