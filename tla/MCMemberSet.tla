--------------------------- MODULE MCMemberSet ---------------------------
(* MemberSet with one IP set of two cidrs, one of them with two comments and *)
(* one also as a bare IP; one security group of two rules and two instances; *)
(* and two policies that share two members.  Only policies share anything.   *)
EXTENDS MemberSet

CONSTANTS A, B

Member(a, s, n, b) == [attr |-> a, slot |-> s, note |-> n, bare |-> b]

BlocksOfKind == [k \in Kinds |-> IF k = "backup_policy" THEN {A, B} ELSE {A}]
SomeEntries  == {Member("entries", "c1", n, FALSE) : n \in {"k1", "k2"}}
                \cup {Member("entries", "c2", "k1", b) : b \in BOOLEAN}
SomeRules    == {Member("rules", s, "", FALSE) : s \in {"r1", "r2"}}
SomeAttached == {Member("instances", s, "", FALSE) : s \in {"i1", "i2"}}
SomeHeld     == {Member("members", s, "", FALSE) : s \in {"m1", "m2"}}
=============================================================================
