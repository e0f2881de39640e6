---------------------------- MODULE MCTransport ----------------------------
(* Two calls with up to three attempts, one fewer than maxRetryAttempts    *)
(* (client/client.go:24): enough for a first, a middle and a last one; the *)
(* proofs hold for any number.  The calls are interchangeable, so each     *)
(* pair of modes is taken in one order; two plain calls share nothing, so  *)
(* one beside another mode is enough.                                      *)
EXTENDS Transport

Rank(c) == IF mode[c] = "once" THEN 1 ELSE IF mode[c] = "plain" THEN 2 ELSE 3

PairedInit ==
    /\ Init
    /\ \A c, d \in Calls :
          c < d => Rank(c) <= Rank(d) /\ ~(Rank(c) = 2 /\ Rank(d) = 2)

PairedSpec == PairedInit /\ [][Next]_vars /\ Fairness
=============================================================================
