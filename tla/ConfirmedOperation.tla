------------------------- MODULE ConfirmedOperation -------------------------
(***************************************************************************)
(* What package volumeop promises the caller of one volume operation,      *)
(* whatever the network and the other callers do:                          *)
(*   - a call leaves at most one operation on the platform, even when its  *)
(*     request arrives after the call returned;                            *)
(*   - a call that reports a refusal leaves none, then or later;           *)
(*   - a call that reports success saw the requested state come about.     *)
(***************************************************************************)
EXTENDS Naturals

CONSTANT Callers

VARIABLES
    recorded,   \* how many operations the platform recorded for each call
    held,       \* did the requested state hold during the call?
    report      \* "open", then what the call reported

promise == <<recorded, held, report>>

Reports == {"refused", "success", "other"}

Init ==
    /\ recorded = [c \in Callers |-> 0]
    /\ held \in [Callers -> BOOLEAN]
    /\ report = [c \in Callers |-> "open"]

\* The world may bring about what a call wants; it is never forgotten.
HeldGrows ==
    /\ held' \in [Callers -> BOOLEAN]
    /\ \A c \in Callers : held[c] => held'[c]

Record(c) ==
    /\ recorded[c] = 0 /\ report[c] # "refused"
    /\ recorded' = [recorded EXCEPT ![c] = 1]
    /\ HeldGrows
    /\ UNCHANGED report

World == HeldGrows /\ UNCHANGED <<recorded, report>>

Report(c) ==
    /\ report[c] = "open"
    /\ \E r \in Reports :
          /\ r = "refused" => recorded[c] = 0
          /\ r = "success" => held[c]
          /\ report' = [report EXCEPT ![c] = r]
    /\ UNCHANGED <<recorded, held>>

Next == World \/ \E c \in Callers : Record(c) \/ Report(c)

Spec == Init /\ [][Next]_promise
=============================================================================
