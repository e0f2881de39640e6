------------------------------ MODULE OneShot ------------------------------
(***************************************************************************)
(* What a caller of a request that is never replayed may assume, and what  *)
(* VolumeOp and VolumeSnapshot do assume of a send:                        *)
(*   - the platform carries the request out at most once, possibly after   *)
(*     the caller was told nothing definite;                               *)
(*   - "ok" means that it did, "no" that it did not and never will; a 429  *)
(*     is a "no" only when the platform's operation gate gives it;         *)
(*   - everything else leaves the outcome open.                            *)
(***************************************************************************)
EXTENDS Naturals

CONSTANT Requests

VARIABLES
    done,       \* how often the platform carried out each request
    verdict     \* "open" until the call returns

oneShot == <<done, verdict>>

Init ==
    /\ done = [r \in Requests |-> 0]
    /\ verdict = [r \in Requests |-> "open"]

CarryOut(r) ==
    /\ done[r] = 0 /\ verdict[r] \notin {"ok", "no"}
    /\ done' = [done EXCEPT ![r] = 1]
    /\ UNCHANGED verdict

Return(r) ==
    /\ verdict[r] = "open"
    /\ \E v \in {"ok", "no", "doubt"} :
          /\ v = "ok" => done[r] = 1
          /\ v = "no" => done[r] = 0
          /\ verdict' = [verdict EXCEPT ![r] = v]
    /\ UNCHANGED done

Next == \E r \in Requests : CarryOut(r) \/ Return(r)

Spec == Init /\ [][Next]_oneShot
=============================================================================
