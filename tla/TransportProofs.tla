-------------------------- MODULE TransportProofs --------------------------
(***************************************************************************)
(* For any number of calls, keys and attempts: the types of Transport, an  *)
(* idempotency key changes the platform once, reported successes are real, *)
(* a first refusal is final, and a call of the Once helpers implements     *)
(* OneShot, the send the operation models are built on.                    *)
(***************************************************************************)
EXTENDS Transport, TLAPS

\* Something was changed by the call, or under its key.
Real(c) ==
    \E r \in effects : r[1] = c \/ (mode[c] \in Keys /\ mode[r[1]] = mode[c])

\* Every copy of a request was sent, and is counted.
Counted == \A r \in wire \cup effects : r[2] <= attempt[r[1]]

\* A copy is carried out when it leaves the wire.
CarriedLeft == wire \cap effects = {}

\* A call about to send, or pausing before it, has an attempt left.
Room ==
    \A c \in Calls :
       /\ attempt[c] <= Limit(c)
       /\ pc[c] \in {"ready", "backoff"} => attempt[c] < Limit(c)

\* The keys with an effect are the keys whose answer is remembered.
CacheFits ==
    /\ \A r \in effects : mode[r[1]] \in Keys => mode[r[1]] \in cached
    /\ \A k \in cached : \E r \in effects : mode[r[1]] = k

\* A success, heard or reported, is real.
OkIsReal ==
    \A c \in Calls :
       pc[c] = "ok" \/ (pc[c] = "answered" /\ answer[c] = "ok") => Real(c)

\* The attempt that was refused has gone without an effect.
RefusedGone ==
    \A c \in Calls :
       pc[c] = "no" \/ (pc[c] = "answered" /\ answer[c] \in {"no", "gated"}) =>
          <<c, attempt[c]>> \notin wire \cup effects

\* The inductive invariant.
IInv ==
    /\ TypeOK
    /\ Counted
    /\ CarriedLeft
    /\ Room
    /\ CacheFits
    /\ OncePerKey
    /\ OkIsReal
    /\ RefusedGone

-----------------------------------------------------------------------------
\* A call has at least one attempt and at most MaxAttempts.
LEMMA LimitType ==
    ASSUME NEW c \in Calls
    PROVE  Limit(c) \in 1..MaxAttempts
BY MaxAttemptsAssumption DEF Limit

\* An attempt is a call and a number.
LEMMA AttemptParts ==
    ASSUME NEW r \in Attempts
    PROVE  /\ r[1] \in Calls
           /\ r[2] \in 1..MaxAttempts
           /\ r = <<r[1], r[2]>>
BY DEF Attempts

\* What an answer that arrives leaves of positions and answers: only the call
\* of that attempt, waiting for it, is disturbed.
LEMMA ReplyEffect ==
    ASSUME TypeOK, NEW r \in Attempts, NEW a \in Answers \ {"none"}, Reply(r, a)
    PROVE  /\ pc' \in [Calls -> {"ready", "open", "answered", "backoff", "ok",
                                 "no", "doubt"}]
           /\ answer' \in [Calls -> Answers]
           /\ \A c \in Calls :
                 \/ pc'[c] = pc[c] /\ answer'[c] = answer[c]
                 \/ /\ c = r[1] /\ r[2] = attempt[c] /\ pc[c] = "open"
                    /\ pc'[c] = "answered" /\ answer'[c] = a
<1>1. r[1] \in Calls
  BY AttemptParts
<1>2. CASE pc[r[1]] = "open" /\ attempt[r[1]] = r[2]
  <2>1. Answer(r[1], a)
    BY <1>2 DEF Reply
  <2> QED
    BY <1>1, <1>2, <2>1 DEF Answer, TypeOK
<1>3. CASE ~(pc[r[1]] = "open" /\ attempt[r[1]] = r[2])
  <2>1. UNCHANGED <<answer, pc>>
    BY <1>3 DEF Reply
  <2> QED
    BY <2>1 DEF TypeOK
<1> QED
  BY <1>2, <1>3

\* A copy leaves the platform with the answer a; the effects grow by what it
\* carried out, if anything.
LEMMA LeaveKeepsInv ==
    ASSUME IInv, NEW r \in Attempts, Leave(r),
           NEW a \in Answers \ {"none"}, Reply(r, a),
           effects \subseteq effects', effects' \subseteq effects \cup {r},
           a \in {"no", "gated"} => r \notin effects',
           a = "ok" => \E s \in effects' :
                          \/ s[1] = r[1]
                          \/ mode[r[1]] \in Keys /\ mode[s[1]] = mode[r[1]],
           cached' \subseteq Keys, CacheFits', OncePerKey'
    PROVE  IInv'
<1>1. r \in wire /\ wire' = wire \ {r} /\ UNCHANGED <<mode, attempt, ended>>
  BY DEF Leave
<1>2. /\ pc' \in [Calls -> {"ready", "open", "answered", "backoff", "ok", "no",
                            "doubt"}]
      /\ answer' \in [Calls -> Answers]
      /\ \A c \in Calls :
            \/ pc'[c] = pc[c] /\ answer'[c] = answer[c]
            \/ /\ c = r[1] /\ r[2] = attempt[c] /\ pc[c] = "open"
               /\ pc'[c] = "answered" /\ answer'[c] = a
  BY ReplyEffect DEF IInv
<1>3. TypeOK'
  BY <1>1, <1>2 DEF IInv, TypeOK
<1>4. Counted'
  BY <1>1 DEF IInv, Counted
<1>5. CarriedLeft'
  BY <1>1 DEF IInv, CarriedLeft
<1>6. Room'
  BY <1>1, <1>2 DEF IInv, Room, Limit
<1>7. OkIsReal'
  BY <1>1, <1>2 DEF IInv, OkIsReal, Real
<1>8. RefusedGone'
  <2> SUFFICES ASSUME NEW c \in Calls,
                      \/ pc'[c] = "no"
                      \/ pc'[c] = "answered" /\ answer'[c] \in {"no", "gated"}
               PROVE  <<c, attempt[c]>> \notin wire' \cup effects'
    BY <1>1 DEF RefusedGone
  <2>1. CASE pc'[c] = pc[c] /\ answer'[c] = answer[c]
    BY <1>1, <2>1 DEF IInv, RefusedGone
  <2>2. CASE /\ c = r[1] /\ r[2] = attempt[c] /\ pc[c] = "open"
             /\ pc'[c] = "answered" /\ answer'[c] = a
    <3>1. r = <<c, attempt[c]>>
      BY <2>2, AttemptParts
    <3> QED
      BY <1>1, <2>2, <3>1
  <2> QED
    BY <1>2, <2>1, <2>2
<1> QED
  BY <1>3, <1>4, <1>5, <1>6, <1>7, <1>8 DEF IInv

\* A step of the calling goroutine that sends nothing.
LEMMA LocalKeepsInv ==
    ASSUME IInv, NEW c \in Calls,
           NEW p \in {"ready", "open", "answered", "backoff", "ok", "no", "doubt"},
           GoTo(c, p), answer' \in [Calls -> Answers],
           \A d \in Calls \ {c} : answer'[d] = answer[d],
           UNCHANGED <<mode, attempt, ended, platform>>,
           p \in {"ready", "backoff"} => attempt[c] < Limit(c),
           p = "ok" => Real(c),
           p = "no" => <<c, attempt[c]>> \notin wire \cup effects,
           p = "answered" => answer'[c] \in {"busy", "failed", "lost"}
    PROVE  IInv'
<1> USE DEF platform, GoTo
<1>1. TypeOK'
  BY DEF IInv, TypeOK
<1>2. Counted' /\ CarriedLeft' /\ CacheFits' /\ OncePerKey'
  BY DEF IInv, Counted, CarriedLeft, CacheFits, OncePerKey
<1>3. Room'
  BY DEF IInv, TypeOK, Room, Limit
<1>4. OkIsReal'
  BY DEF IInv, TypeOK, OkIsReal, Real
<1>5. RefusedGone'
  BY DEF IInv, TypeOK, RefusedGone
<1> QED
  BY <1>1, <1>2, <1>3, <1>4, <1>5 DEF IInv

LEMMA InitInv == Init => IInv
BY LimitType, MaxAttemptsAssumption DEF Init, IInv, TypeOK, Modes, Attempts,
   Answers, Counted, CarriedLeft, Room, CacheFits, OncePerKey, OkIsReal,
   RefusedGone, Limit

LEMMA CarryKeepsInv ==
    ASSUME IInv, NEW r \in Attempts, Carry(r)
    PROVE  IInv'
<1>1. /\ Leave(r) /\ Reply(r, "ok")
      /\ effects' = effects \cup {r}
      /\ mode[r[1]] \in Keys => mode[r[1]] \notin cached
      /\ cached' = IF mode[r[1]] \in Keys THEN cached \cup {mode[r[1]]} ELSE cached
      /\ mode' = mode
  BY DEF Carry, HasKey, Leave
<1>2. cached' \subseteq Keys
  BY <1>1 DEF IInv, TypeOK
<1>3. CacheFits'
  BY <1>1 DEF IInv, CacheFits
<1>4. OncePerKey'
  BY <1>1 DEF IInv, OncePerKey, CacheFits
<1>5. \E s \in effects' : s[1] = r[1]
  BY <1>1
<1> QED
  BY <1>1, <1>2, <1>3, <1>4, <1>5, LeaveKeepsInv DEF Answers

LEMMA ReplayKeepsInv ==
    ASSUME IInv, NEW r \in Attempts, Replay(r)
    PROVE  IInv'
<1>1. /\ Leave(r) /\ Reply(r, "ok")
      /\ UNCHANGED <<effects, cached, mode>>
      /\ mode[r[1]] \in Keys /\ mode[r[1]] \in cached
  BY DEF Replay, HasKey, Leave
<1>2. cached' \subseteq Keys /\ CacheFits' /\ OncePerKey'
  BY <1>1 DEF IInv, TypeOK, CacheFits, OncePerKey
<1>3. \E s \in effects' : mode[s[1]] = mode[r[1]]
  BY <1>1 DEF IInv, CacheFits
<1> QED
  BY <1>1, <1>2, <1>3, LeaveKeepsInv DEF Answers

LEMMA TurnDownKeepsInv ==
    ASSUME IInv, NEW r \in Attempts, TurnDown(r)
    PROVE  IInv'
<1>1. Leave(r) /\ UNCHANGED <<effects, cached, mode>>
  BY DEF TurnDown, Leave
<1>2. PICK a \in {"denied", "no", "gated", "busy", "failed"} : Reply(r, a)
  BY DEF TurnDown
<1>3. cached' \subseteq Keys /\ CacheFits' /\ OncePerKey'
  BY <1>1 DEF IInv, TypeOK, CacheFits, OncePerKey
<1>4. r \notin effects'
  BY <1>1 DEF Leave, IInv, CarriedLeft
<1> QED
  BY <1>1, <1>2, <1>3, <1>4, LeaveKeepsInv DEF Answers

LEMMA SendKeepsInv ==
    ASSUME IInv, NEW c \in Calls, Send(c)
    PROVE  IInv'
<1>1. CASE ended[c]
  BY <1>1, LocalKeepsInv DEF Send, IInv, TypeOK, platform
<1>2. CASE ~ended[c]
  <2> DEFINE r == <<c, attempt[c] + 1>>
  <2>1. /\ pc[c] = "ready" /\ GoTo(c, "open")
        /\ attempt' = [attempt EXCEPT ![c] = @ + 1]
        /\ wire' = wire \cup {r}
        /\ UNCHANGED <<mode, answer, ended, effects, cached>>
    BY <1>2 DEF Send
  <2>2. /\ attempt[c] \in 0..MaxAttempts /\ attempt[c] < Limit(c)
        /\ Limit(c) \in 1..MaxAttempts
    BY <2>1, LimitType DEF IInv, TypeOK, Room
  <2>3. r \in Attempts
    BY <2>2, MaxAttemptsAssumption DEF Attempts
  <2>4. r \notin effects
    BY <2>2, MaxAttemptsAssumption DEF IInv, Counted
  <2>5. TypeOK'
    BY <2>1, <2>2, <2>3, MaxAttemptsAssumption DEF IInv, TypeOK, GoTo
  <2>6. Counted'
    <3> SUFFICES ASSUME NEW s \in wire' \cup effects'
                 PROVE  s[2] <= attempt'[s[1]]
      BY DEF Counted
    <3>1. CASE s = r
      BY <3>1, <2>1, <2>2, MaxAttemptsAssumption DEF IInv, TypeOK
    <3>2. CASE s # r
      <4>1. s \in wire \cup effects /\ s \in Attempts
        BY <3>2, <2>1 DEF IInv, TypeOK
      <4>2. s[2] <= attempt[s[1]] /\ s[1] \in Calls /\ s[2] \in 1..MaxAttempts
        BY <4>1, AttemptParts DEF IInv, Counted
      <4> QED
        BY <4>2, <2>1, MaxAttemptsAssumption DEF IInv, TypeOK
    <3> QED
      BY <3>1, <3>2
  <2>7. CarriedLeft'
    BY <2>1, <2>4 DEF IInv, CarriedLeft
  <2>8. Room'
    BY <2>1, <2>2, MaxAttemptsAssumption DEF IInv, TypeOK, Room, Limit, GoTo
  <2>9. CacheFits' /\ OncePerKey'
    BY <2>1 DEF IInv, CacheFits, OncePerKey
  <2>10. OkIsReal'
    BY <2>1 DEF IInv, TypeOK, OkIsReal, Real, GoTo
  <2>11. RefusedGone'
    BY <2>1 DEF IInv, TypeOK, RefusedGone, GoTo
  <2> QED
    BY <2>5, <2>6, <2>7, <2>8, <2>9, <2>10, <2>11 DEF IInv
<1> QED
  BY <1>1, <1>2

LEMMA DecideKeepsInv ==
    ASSUME IInv, NEW c \in Calls, Decide(c)
    PROVE  IInv'
<1>1. /\ pc[c] = "answered"
      /\ GoTo(c, IF Retryable(c) THEN "backoff" ELSE Verdict(c))
      /\ UNCHANGED <<mode, attempt, ended, platform>>
      /\ answer' \in [Calls -> Answers]
      /\ \A d \in Calls \ {c} : answer'[d] = answer[d]
  BY DEF Decide, IInv, TypeOK, Answers
<1>2. CASE Retryable(c)
  BY <1>1, <1>2, LocalKeepsInv DEF Retryable
<1>3. CASE ~Retryable(c)
  <2>1. Verdict(c) \in {"ok", "no", "doubt"} /\ GoTo(c, Verdict(c))
    BY <1>1, <1>3 DEF Verdict
  <2>2. Verdict(c) = "ok" => Real(c)
    BY <1>1 DEF Verdict, IInv, OkIsReal
  <2>3. Verdict(c) = "no" => <<c, attempt[c]>> \notin wire \cup effects
    BY <1>1 DEF Verdict, IInv, RefusedGone
  <2> QED
    BY <1>1, <2>1, <2>2, <2>3, LocalKeepsInv
<1> QED
  BY <1>2, <1>3

LEMMA BackoffKeepsInv ==
    ASSUME IInv, NEW c \in Calls, Backoff(c)
    PROVE  IInv'
<1>1. /\ pc[c] = "backoff"
      /\ UNCHANGED <<mode, attempt, answer, ended, platform>>
      /\ answer' \in [Calls -> Answers]
      /\ GoTo(c, "ready") \/ GoTo(c, "doubt")
  BY DEF Backoff, IInv, TypeOK
<1>2. attempt[c] < Limit(c)
  BY <1>1 DEF IInv, Room
<1> QED
  BY <1>1, <1>2, LocalKeepsInv

LEMMA LoseKeepsInv ==
    ASSUME IInv, NEW c \in Calls, Lose(c)
    PROVE  IInv'
<1>1. PICK a \in {"busy", "failed", "lost"} : Answer(c, a)
  BY DEF Lose
<1>2. /\ GoTo(c, "answered") /\ answer'[c] = a
      /\ answer' \in [Calls -> Answers]
      /\ \A d \in Calls \ {c} : answer'[d] = answer[d]
  BY <1>1 DEF Answer, GoTo, IInv, TypeOK, Answers
<1> QED
  BY <1>2, LocalKeepsInv DEF Lose

LEMMA EndKeepsInv ==
    ASSUME IInv, NEW c \in Calls, End(c)
    PROVE  IInv'
BY DEF End, platform, IInv, TypeOK, Counted, CarriedLeft, Room, Limit, CacheFits,
   OncePerKey, OkIsReal, Real, RefusedGone

LEMMA StutterKeepsInv == IInv /\ UNCHANGED vars => IInv'
BY DEF vars, platform, IInv, TypeOK, Counted, CarriedLeft, Room, Limit, CacheFits,
   OncePerKey, OkIsReal, Real, RefusedGone

LEMMA NextKeepsInv == IInv /\ [Next]_vars => IInv'
<1> SUFFICES ASSUME IInv, [Next]_vars PROVE IInv'
  OBVIOUS
<1>1. CASE \E r \in wire : Carry(r) \/ Replay(r) \/ TurnDown(r)
  BY <1>1, CarryKeepsInv, ReplayKeepsInv, TurnDownKeepsInv DEF IInv, TypeOK
<1>2. CASE \E c \in Calls : Step(c) \/ Lose(c) \/ End(c)
  BY <1>2, SendKeepsInv, DecideKeepsInv, BackoffKeepsInv, LoseKeepsInv,
     EndKeepsInv DEF Step
<1>3. CASE UNCHANGED vars
  BY <1>3, StutterKeepsInv
<1> QED
  BY <1>1, <1>2, <1>3 DEF Next

LEMMA Inductive == Spec => []IInv
BY InitInv, NextKeepsInv, PTL DEF Spec

-----------------------------------------------------------------------------
(* What follows from the invariant.                                        *)

\* The types hold for any number of calls, keys and attempts.
THEOREM TypeCorrect == Spec => []TypeOK
<1>1. IInv => TypeOK
  BY DEF IInv
<1> QED
  BY <1>1, Inductive, PTL

\* An idempotency key changes the platform once, whatever is retried,
\* re-applied or still under way (doItemWithHeaders).
THEOREM KeyAppliesOnce == Spec => []OncePerKey
<1>1. IInv => OncePerKey
  BY DEF IInv
<1> QED
  BY <1>1, Inductive, PTL

\* A call that reports success changed something itself or under its key.
THEOREM SuccessReal == Spec => []SuccessIsReal
<1>1. IInv => SuccessIsReal
  BY DEF IInv, OkIsReal, Real, SuccessIsReal
<1> QED
  BY <1>1, Inductive, PTL

\* A refusal of the first attempt leaves nothing behind and nothing on its way.
THEOREM FirstRefusalFinal == Spec => []FirstRefusalIsFinal
<1>1. ASSUME IInv PROVE FirstRefusalIsFinal
  <2> SUFFICES ASSUME NEW c \in Calls, pc[c] = "no", attempt[c] = 1,
                      NEW r \in effects \cup wire, r[1] = c
               PROVE  FALSE
    BY DEF FirstRefusalIsFinal
  <2>1. r \in Attempts /\ r[2] <= 1
    BY <1>1 DEF IInv, TypeOK, Counted
  <2>2. r = <<c, 1>>
    BY <2>1, AttemptParts, MaxAttemptsAssumption
  <2> QED
    BY <1>1, <2>2 DEF IInv, RefusedGone
<1> QED
  BY <1>1, Inductive, PTL

-----------------------------------------------------------------------------
(* The refinement of OneShot.                                              *)

Once(c) == mode[c] = "once"

\* A call of the Once helpers has one attempt, whose effect is its only one.
LEMMA OneAttempt ==
    ASSUME IInv, NEW c \in Calls, Once(c), NEW r \in wire \cup effects, r[1] = c
    PROVE  r = <<c, 1>> /\ attempt[c] = 1
<1>1. r \in Attempts /\ r[2] <= attempt[c] /\ attempt[c] <= 1
  BY DEF IInv, TypeOK, Counted, Room, Limit, Once
<1> QED
  BY <1>1, AttemptParts, MaxAttemptsAssumption DEF IInv, TypeOK

\* Steps that change nothing of the Once calls stutter.
LEMMA Stutters ==
    ASSUME mode' = mode,
           \A c \in Calls : Once(c) =>
              /\ (\E r \in effects' : r[1] = c) <=> (\E r \in effects : r[1] = c)
              /\ Returned(c)' <=> Returned(c)
              /\ Returned(c) => pc'[c] = pc[c]
    PROVE  UNCHANGED Abstract!oneShot
BY DEF Abstract!oneShot, Once

\* A Once call returns with a verdict its effects agree with.
LEMMA Returning ==
    ASSUME IInv, NEW c \in Calls, NEW p \in {"ok", "no", "doubt"},
           ~Returned(c), GoTo(c, p), UNCHANGED <<mode, attempt, wire, effects>>,
           p = "ok" => Real(c),
           p = "no" => <<c, attempt[c]>> \notin wire \cup effects
    PROVE  [Abstract!Next]_Abstract!oneShot
<1>1. /\ pc' = [pc EXCEPT ![c] = p] /\ mode' = mode /\ effects' = effects
      /\ pc'[c] = p /\ \A d \in Calls \ {c} : pc'[d] = pc[d]
  BY DEF GoTo, IInv, TypeOK
<1>2. CASE ~Once(c)
  <2>1. UNCHANGED Abstract!oneShot
    BY <1>1, <1>2, Stutters DEF Returned, Once
  <2> QED
    BY <2>1
<1>3. CASE Once(c)
  <2> DEFINE done == [d \in Calls |->
               IF mode[d] = "once" /\ \E r \in effects : r[1] = d THEN 1 ELSE 0]
             verdict == [d \in Calls |->
               IF mode[d] = "once" /\ Returned(d) THEN pc[d] ELSE "open"]
  <2>1. p = "ok" => done[c] = 1
    BY <1>3, KeysAssumption DEF Real, Once
  <2>2. p = "no" => done[c] = 0
    <3> SUFFICES ASSUME p = "no", NEW r \in effects, r[1] = c PROVE FALSE
      BY <1>3 DEF Once
    <3> QED
      BY <1>3, OneAttempt
  <2>3. verdict[c] = "open"
    OBVIOUS
  <2>4. verdict' = [verdict EXCEPT ![c] = p]
    <3>1. ASSUME NEW d \in Calls
          PROVE  verdict'[d] = [verdict EXCEPT ![c] = p][d]
      BY <1>1, <1>3 DEF Returned, Once
    <3> HIDE DEF verdict
    <3>2. /\ verdict' = [d \in Calls |-> verdict'[d]]
          /\ verdict = [d \in Calls |-> verdict[d]]
      BY DEF verdict
    <3> QED
      BY <3>1, <3>2
  <2>5. UNCHANGED done
    BY <1>1
  <2>6. Abstract!Return(c)
    BY <2>1, <2>2, <2>3, <2>4, <2>5 DEF Abstract!Return
  <2> QED
    BY <2>6 DEF Abstract!Next
<1> QED
  BY <1>2, <1>3

LEMMA CarryMaps ==
    ASSUME IInv, NEW r \in wire, Carry(r)
    PROVE  [Abstract!Next]_Abstract!oneShot
<1> DEFINE c == r[1]
<1>1. r \in Attempts /\ c \in Calls /\ r = <<c, r[2]>>
  BY AttemptParts DEF IInv, TypeOK
<1>2. mode' = mode /\ effects' = effects \cup {r} /\ Reply(r, "ok")
  BY DEF Carry, Leave
<1>3. \A d \in Calls : (Returned(d)' <=> Returned(d))
                          /\ (Returned(d) => pc'[d] = pc[d])
  <2>1. \A d \in Calls : pc'[d] = pc[d] \/ (pc[d] = "open" /\ pc'[d] = "answered")
    BY <1>1, <1>2, ReplyEffect DEF IInv, Answers
  <2> QED
    BY <2>1 DEF Returned
<1>4. CASE ~Once(c)
  <2>1. UNCHANGED Abstract!oneShot
    BY <1>2, <1>3, <1>4, Stutters DEF Once
  <2> QED
    BY <2>1
<1>5. CASE Once(c)
  <2> DEFINE done == [d \in Calls |->
               IF mode[d] = "once" /\ \E s \in effects : s[1] = d THEN 1 ELSE 0]
             verdict == [d \in Calls |->
               IF mode[d] = "once" /\ Returned(d) THEN pc[d] ELSE "open"]
  <2>1. r = <<c, 1>> /\ attempt[c] = 1
    BY <1>1, <1>5, OneAttempt
  <2>2. ~ \E s \in effects : s[1] = c
    <3> SUFFICES ASSUME NEW s \in effects, s[1] = c PROVE FALSE
      OBVIOUS
    <3>1. s = <<c, 1>>
      BY <1>1, <1>5, OneAttempt
    <3> QED
      BY <2>1, <3>1 DEF IInv, CarriedLeft
  <2>3. done[c] = 0
    BY <1>1, <2>2
  <2>4. verdict[c] \notin {"ok", "no"}
    <3>1. pc[c] # "ok"
      BY <1>1, <1>5, <2>2, KeysAssumption DEF IInv, OkIsReal, Real, Once
    <3>2. pc[c] # "no"
      BY <1>1, <2>1 DEF IInv, RefusedGone
    <3> QED
      BY <1>1, <3>1, <3>2 DEF Returned
  <2>5. done' = [done EXCEPT ![c] = 1]
    <3>1. ASSUME NEW d \in Calls
          PROVE  done'[d] = [done EXCEPT ![c] = 1][d]
      BY <1>1, <1>2, <1>5 DEF Once
    <3> HIDE DEF done
    <3>2. /\ done' = [d \in Calls |-> done'[d]]
          /\ done = [d \in Calls |-> done[d]]
      BY DEF done
    <3> QED
      BY <3>1, <3>2
  <2>6. UNCHANGED verdict
    BY <1>2, <1>3
  <2>7. Abstract!CarryOut(c)
    BY <2>3, <2>4, <2>5, <2>6 DEF Abstract!CarryOut
  <2> QED
    BY <1>1, <2>7 DEF Abstract!Next
<1> QED
  BY <1>4, <1>5

\* A copy that leaves without an effect.
LEMMA QuietLeaveMaps ==
    ASSUME IInv, NEW r \in wire, NEW a \in Answers \ {"none"}, Reply(r, a),
           UNCHANGED <<mode, effects>>
    PROVE  UNCHANGED Abstract!oneShot
<1>1. \A d \in Calls : pc'[d] = pc[d] \/ (pc[d] = "open" /\ pc'[d] = "answered")
  BY ReplyEffect DEF IInv, TypeOK
<1> QED
  BY <1>1, Stutters DEF Returned

\* A step of the calling goroutine that does not return.
LEMMA InsideMaps ==
    ASSUME IInv, NEW c \in Calls, NEW p \in {"ready", "open", "answered", "backoff"},
           ~Returned(c), pc' = [pc EXCEPT ![c] = p], UNCHANGED <<mode, effects>>
    PROVE  UNCHANGED Abstract!oneShot
BY Stutters DEF Returned, IInv, TypeOK

LEMMA StepMaps ==
    ASSUME IInv, NEW c \in Calls, Step(c) \/ Lose(c) \/ End(c)
    PROVE  [Abstract!Next]_Abstract!oneShot
<1>1. CASE Send(c)
  BY <1>1, InsideMaps, Returning DEF Send, GoTo, Returned
<1>2. CASE Decide(c)
  <2>1. /\ pc[c] = "answered" /\ UNCHANGED <<mode, attempt, wire, effects>>
        /\ GoTo(c, IF Retryable(c) THEN "backoff" ELSE Verdict(c))
    BY <1>2 DEF Decide, platform
  <2>2. CASE Retryable(c)
    BY <2>1, <2>2, InsideMaps DEF GoTo, Returned
  <2>3. CASE ~Retryable(c)
    <3>1. Verdict(c) \in {"ok", "no", "doubt"} /\ GoTo(c, Verdict(c))
      BY <2>1, <2>3 DEF Verdict
    <3>2. Verdict(c) = "ok" => Real(c)
      BY <2>1 DEF Verdict, IInv, OkIsReal
    <3>3. Verdict(c) = "no" => <<c, attempt[c]>> \notin wire \cup effects
      BY <2>1 DEF Verdict, IInv, RefusedGone
    <3> QED
      BY <2>1, <3>1, <3>2, <3>3, Returning DEF Returned
  <2> QED
    BY <2>2, <2>3
<1>3. CASE Backoff(c)
  BY <1>3, InsideMaps, Returning DEF Backoff, GoTo, Returned, platform
<1>4. CASE Lose(c)
  BY <1>4, InsideMaps DEF Lose, Answer, Returned, platform
<1>5. CASE End(c)
  BY <1>5, Stutters DEF End, Returned, platform
<1> QED
  BY <1>1, <1>2, <1>3, <1>4, <1>5 DEF Step

LEMMA NextMaps == IInv /\ [Next]_vars => [Abstract!Next]_Abstract!oneShot
<1> SUFFICES ASSUME IInv, [Next]_vars
             PROVE  [Abstract!Next]_Abstract!oneShot
  OBVIOUS
<1>1. ASSUME NEW r \in wire, Carry(r) PROVE [Abstract!Next]_Abstract!oneShot
  BY <1>1, CarryMaps
<1>2. ASSUME NEW r \in wire, Replay(r) PROVE [Abstract!Next]_Abstract!oneShot
  BY <1>2, QuietLeaveMaps DEF Replay, Leave, Answers
<1>3. ASSUME NEW r \in wire, TurnDown(r) PROVE [Abstract!Next]_Abstract!oneShot
  BY <1>3, QuietLeaveMaps DEF TurnDown, Leave, Answers
<1>4. ASSUME NEW c \in Calls, Step(c) \/ Lose(c) \/ End(c)
      PROVE  [Abstract!Next]_Abstract!oneShot
  BY <1>4, StepMaps
<1>5. CASE UNCHANGED vars
  BY <1>5, Stutters DEF vars, platform, Returned
<1> QED
  BY <1>1, <1>2, <1>3, <1>4, <1>5 DEF Next

LEMMA InitMaps == Init => Abstract!Init
BY DEF Init, Abstract!Init, Returned

\* A call of doItemOnce or doVoidOnce is the send VolumeOp and VolumeSnapshot
\* are built on: carried out at most once, definite answers being true.
THEOREM OnceIsOneShot == Spec => ImplementsOneShot
BY Inductive, InitMaps, NextMaps, PTL DEF Spec, Abstract!Spec, ImplementsOneShot
=============================================================================
