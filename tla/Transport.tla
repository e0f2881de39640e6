----------------------------- MODULE Transport -----------------------------
(***************************************************************************)
(* The HTTP transport of package client: doWithAttempts and the helpers    *)
(* that choose how often a request may be replayed.                        *)
(*   once     doItemOnce, doVoidOnce: one attempt;                         *)
(*   plain    doItem, doVoid, doList, doRaw: replayed on 429 and 5xx;      *)
(*   a key    doItemWithHeaders with that Idempotency-Key: replayed too,   *)
(*            every attempt carrying the key.                              *)
(* A 5xx may come from a gateway that gave up on a request the platform is *)
(* still carrying out, so several attempts of one call can be under way    *)
(* together.  Calls with one key are applies of one configuration.         *)
(***************************************************************************)
EXTENDS Naturals

CONSTANTS
    Calls,
    Keys,
    MaxAttempts     \* maxRetryAttempts

ASSUME MaxAttemptsAssumption == MaxAttempts \in Nat \ {0}
ASSUME KeysAssumption == Keys \cap {"once", "plain"} = {}

VARIABLES
    mode,       \* how each call is sent; never changes
    pc,         \* where each call is
    attempt,    \* attempts sent so far
    answer,     \* the class of the answer to the last attempt
    ended,      \* the call's context has ended
    wire,       \* attempts on their way to the platform or inside it
    effects,    \* attempts that changed something
    cached      \* keys whose 2xx answer the platform replays (for 24 hours)

platform == <<wire, effects, cached>>
vars == <<mode, pc, attempt, answer, ended, platform>>

Modes    == {"once", "plain"} \cup Keys
Attempts == Calls \X (1..MaxAttempts)

\* "ok": a 2xx with success; "denied": a 2xx with success:false; "no": a 4xx
\* but for 429; "gated": a 429 with the reason of the platform's operation gate;
\* "busy": any other 429; "failed": a 5xx; "lost": a transport error or an
\* unreadable body.
Answers == {"none", "ok", "denied", "no", "gated", "busy", "failed", "lost"}

TypeOK ==
    /\ mode \in [Calls -> Modes]
    /\ pc \in [Calls -> {"ready", "open", "answered", "backoff", "ok", "no",
                         "doubt"}]
    /\ attempt \in [Calls -> 0..MaxAttempts]
    /\ answer \in [Calls -> Answers]
    /\ ended \in [Calls -> BOOLEAN]
    /\ wire \subseteq Attempts
    /\ effects \subseteq Attempts
    /\ cached \subseteq Keys

Returned(c) == pc[c] \in {"ok", "no", "doubt"}

-----------------------------------------------------------------------------
(* The platform and the network (outside this repository).                 *)

Answer(c, a) ==
    /\ answer' = [answer EXCEPT ![c] = a]
    /\ pc' = [pc EXCEPT ![c] = "answered"]

\* The caller hears only of the attempt it is waiting for.
Reply(r, a) ==
    IF pc[r[1]] = "open" /\ attempt[r[1]] = r[2]
      THEN Answer(r[1], a)
      ELSE UNCHANGED <<answer, pc>>

Leave(r) ==
    /\ r \in wire
    /\ wire' = wire \ {r}
    /\ UNCHANGED <<mode, attempt, ended>>

\* Mutant: only the first attempt carries the key.
HasKeyOnce(r) == mode[r[1]] \in Keys /\ r[2] = 1

\* The extra headers are set again on the request of every attempt.
HasKey(r) == mode[r[1]] \in Keys

\* The request is carried out; the idempotency middleware remembers the key.
Carry(r) ==
    /\ Leave(r)
    /\ HasKey(r) => mode[r[1]] \notin cached
    /\ effects' = effects \cup {r}
    /\ cached' = IF HasKey(r) THEN cached \cup {mode[r[1]]} ELSE cached
    /\ Reply(r, "ok")

\* The middleware answers from its cache.
Replay(r) ==
    /\ Leave(r)
    /\ HasKey(r) /\ mode[r[1]] \in cached
    /\ Reply(r, "ok")
    /\ UNCHANGED <<effects, cached>>

\* The platform turns the request down: it changes nothing.  A 429 of its
\* operation gate is among these answers (client/volume.go:151: definite).
TurnDown(r) ==
    /\ Leave(r)
    /\ \E a \in {"denied", "no", "gated", "busy", "failed"} : Reply(r, a)
    /\ UNCHANGED <<effects, cached>>

\* A gateway's 5xx or 429, a broken connection or the client's timeout: the
\* attempt itself may still be under way.
Lose(c) ==
    /\ pc[c] = "open"
    /\ \E a \in {"busy", "failed", "lost"} : Answer(c, a)
    /\ UNCHANGED <<mode, attempt, ended, platform>>

End(c) ==
    /\ ~ended[c] /\ ~Returned(c)
    /\ ended' = [ended EXCEPT ![c] = TRUE]
    /\ UNCHANGED <<mode, pc, attempt, answer, platform>>

-----------------------------------------------------------------------------
(* doWithAttempts.                                                         *)

GoTo(c, position) == pc' = [pc EXCEPT ![c] = position]

\* Mutant: the Once helpers share the retry count of the others.
LimitShared(c) == MaxAttempts

Limit(c) == IF mode[c] = "once" THEN 1 ELSE MaxAttempts

\* A fresh request per attempt; with the context ended nothing leaves.
Send(c) ==
    /\ pc[c] = "ready"
    /\ IF ended[c]
         THEN GoTo(c, "doubt") /\ UNCHANGED <<attempt, wire>>
         ELSE /\ GoTo(c, "open")
              /\ attempt' = [attempt EXCEPT ![c] = @ + 1]
              /\ wire' = wire \cup {<<c, attempt[c] + 1>>}
    /\ UNCHANGED <<mode, answer, ended, effects, cached>>

Retryable(c) ==
    answer[c] \in {"gated", "busy", "failed"} /\ attempt[c] < Limit(c)

\* Mutant: a 2xx is a success whatever its success flag says.
VerdictBlind(c) ==
    IF answer[c] \in {"ok", "denied"} THEN "ok"
    ELSE IF answer[c] \in {"no", "gated"} THEN "no" ELSE "doubt"

\* Mutant: every 429 is taken for a refusal.
VerdictHasty(c) ==
    IF answer[c] = "ok" THEN "ok"
    ELSE IF answer[c] \in {"no", "gated", "busy"} THEN "no" ELSE "doubt"

\* What responseError and the decoding tell the caller: success, an APIError
\* that means a refusal, or an error that proves nothing.  A 429 "cannot
\* establish that work never started" (client/request.go:45) but for the gate's.
Verdict(c) ==
    IF answer[c] = "ok" THEN "ok"
    ELSE IF answer[c] \in {"no", "gated"} THEN "no" ELSE "doubt"

Decide(c) ==
    /\ pc[c] = "answered"
    /\ GoTo(c, IF Retryable(c) THEN "backoff" ELSE Verdict(c))
    /\ answer' = [answer EXCEPT ![c] = "none"]
    /\ UNCHANGED <<mode, attempt, ended, platform>>

\* Mutant: the pause between attempts ignores the context, and the timer
\* starts again when it ends.
BackoffDeaf(c) ==
    /\ pc[c] = "backoff" /\ ~ended[c]
    /\ GoTo(c, "ready")
    /\ UNCHANGED <<mode, attempt, answer, ended, platform>>

Backoff(c) ==
    /\ pc[c] = "backoff"
    /\ \/ GoTo(c, "ready")
       \/ ended[c] /\ GoTo(c, "doubt")
    /\ UNCHANGED <<mode, attempt, answer, ended, platform>>

-----------------------------------------------------------------------------
Init ==
    /\ mode \in [Calls -> Modes]
    /\ pc = [c \in Calls |-> "ready"]
    /\ attempt = [c \in Calls |-> 0]
    /\ answer = [c \in Calls |-> "none"]
    /\ ended = [c \in Calls |-> FALSE]
    /\ wire = {}
    /\ effects = {}
    /\ cached = {}

Step(c) == Send(c) \/ Decide(c) \/ Backoff(c)

Next ==
    \/ \E r \in wire : Carry(r) \/ Replay(r) \/ TurnDown(r)
    \/ \E c \in Calls : Step(c) \/ Lose(c) \/ End(c)

Spec == Init /\ [][Next]_vars

\* The calling goroutine runs on and http.Client.Timeout ends every attempt.
\* Neither the platform nor the caller's context is asked for anything.
Fairness == \A c \in Calls : WF_vars(Step(c)) /\ WF_vars(Lose(c))

FairSpec == Spec /\ Fairness

-----------------------------------------------------------------------------
(* Properties.                                                             *)

\* However many attempts of however many applies of one configuration are
\* under way together, an idempotency key changes the platform once.
OncePerKey ==
    \A r, s \in effects :
       mode[r[1]] \in Keys /\ mode[s[1]] = mode[r[1]] => r = s

\* A call that reports success changed something, or another call with its
\* key did.
SuccessIsReal ==
    \A c \in Calls : pc[c] = "ok" =>
       \E r \in effects :
          r[1] = c \/ (mode[c] \in Keys /\ mode[r[1]] = mode[c])

\* A refusal of the first attempt is final: nothing of that call happened and
\* nothing will.  (After a replay it is not: the refusal may be the answer to
\* the second copy of a request that was carried out.)
FirstRefusalIsFinal ==
    \A c \in Calls : pc[c] = "no" /\ attempt[c] = 1 =>
       \A r \in effects \cup wire : r[1] # c

\* Every call returns, whatever the platform does.
Returns == \A c \in Calls : <>Returned(c)

\* A call of the Once helpers is what OneShot describes.
OnceCalls == { c \in Calls : mode[c] = "once" }

Abstract == INSTANCE OneShot WITH
    Requests <- Calls,
    done <- [c \in Calls |->
               IF mode[c] = "once" /\ \E r \in effects : r[1] = c THEN 1 ELSE 0],
    verdict <- [c \in Calls |->
               IF mode[c] = "once" /\ Returned(c) THEN pc[c] ELSE "open"]

ImplementsOneShot == Abstract!Spec
=============================================================================
