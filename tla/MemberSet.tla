------------------------------ MODULE MemberSet ------------------------------
(***************************************************************************)
(* Resources that keep SETS in another object: the entries of iaas_ip_set, *)
(* the rules and the attached instances of iaas_security_group, and the    *)
(* members of iaas_instance_backup_policy and iaas_db_backup_policy.  The  *)
(* API has no call that sets the whole set: Update compares the plan with  *)
(* the state and sends one request per difference, in an order of its own, *)
(* then reads the set back.  The first failing request ends the update.    *)
(*                                                                         *)
(* The objects exist throughout; creating and deleting them is in          *)
(* ResourceLifecycle.  The blocks of one kind are planned together and     *)
(* updated concurrently, other people edit the sets, and an answer can be  *)
(* lost after the request was carried out.                                 *)
(***************************************************************************)
EXTENDS Naturals, Sequences

CONSTANTS
    BlocksOf,   \* the resource blocks of the configuration, for each kind
    Entries,    \* members of ip_set.entries
    Rules,      \* members of security_group.rules
    Attached,   \* members of security_group.instance_ids
    Held,       \* members of a backup policy
    MaxFaults,  \* bound: failing requests and reads
    MaxEdits    \* bound: edits by others

\* The server keeps a bare IP as a /32 or /128.
Stored(i) == [i EXCEPT !.bare = FALSE]

\* A member: the attribute it belongs to, what identifies it, what else the
\* configuration says of it, and whether it is a bare IP.  Only an entry of an
\* IP set can be one, and it may be written with its mask as well.
ASSUME MembersAssumption ==
    \A i \in Entries \cup Rules \cup Attached \cup Held :
        /\ i = [attr |-> i.attr, slot |-> i.slot, note |-> i.note, bare |-> i.bare]
        /\ i.bare \in BOOLEAN
        /\ i.bare => Stored(i) \in Entries
ASSUME KindsAssumption ==
    \A i \in Rules \cup Attached \cup Held : ~i.bare
ASSUME BoundsAssumption == MaxFaults \in Nat /\ MaxEdits \in Nat

VARIABLES
    kind,       \* of the resources: one kind in a behaviour
    moves,      \* the platform moves a member held by another policy
    conf,       \* the configuration of each block
    rows,       \* the platform: the members of each block
    state,      \* Terraform's state of each block
    up,         \* the block in this apply
    left,       \* the steps its update has left
    touched,    \* history: edited by others since the block was last read
    faults, edits

fixed == <<kind, moves, conf>>
vars == <<fixed, rows, state, up, left, touched, faults, edits>>

Kinds == {"ip_set", "security_group", "backup_policy"}
Items(k) == CASE k = "ip_set" -> Entries
              [] k = "security_group" -> Rules \cup Attached
              [] k = "backup_policy" -> Held
Attrs(k) == {i.attr : i \in Items(k)}
Blocks == BlocksOf[kind]
AllBlocks == UNION {BlocksOf[k] : k \in Kinds}
Of(a, s) == {i \in s : i.attr = a}

\* The value of a block's sets: the members, and the attributes that are null.
Values(k) == {v \in [set : SUBSET Items(k), null : SUBSET Attrs(k)] :
                 \A a \in v.null : Of(a, v.set) = {}}

TypeOK ==
    /\ kind \in Kinds /\ moves \in BOOLEAN
    /\ conf \in [Blocks -> Values(kind)]
    /\ state \in [Blocks -> Values(kind)]
    /\ rows \in [Blocks -> SUBSET {Stored(i) : i \in Items(kind)}]
    /\ up \in [Blocks -> {"idle", "running", "ok", "failed"}]
    /\ \A b \in Blocks : up[b] # "running" => left[b] = <<>>
    /\ touched \subseteq Blocks
    /\ faults \in 0..MaxFaults /\ edits \in 0..MaxEdits
    \* What the platform keeps unique.
    /\ kind = "ip_set" => \A b \in Blocks : \A i, j \in rows[b] :
                              i.slot = j.slot => i = j
    /\ kind = "backup_policy" =>
           \A b, c \in Blocks : b # c => rows[b] \cap rows[c] = {}

-----------------------------------------------------------------------------
(* The platform (outside this repository).                                 *)

\* A member that stands in the way of i in block b: of an IP set an entry with
\* its cidr, of a backup policy the same member in another policy.
InTheWay(b, i) ==
    \/ kind = "ip_set" /\ \E j \in rows[b] : j.slot = i.slot
    \/ kind = "backup_policy" /\ ~moves
       /\ \E c \in Blocks \ {b} : i \in rows[c]

\* Some of the batch is as asked for already: a duplicate, or gone.
Already(b, op, batch) ==
    IF op = "add" THEN batch \cap rows[b] # {} ELSE batch \ rows[b] # {}

MayAccept(b, op, batch) ==
    op = "add" => \A i \in batch \ rows[b] : ~InTheWay(b, i)
MayRefuse(b, op, batch) == ~MayAccept(b, op, batch) \/ Already(b, op, batch)

Carried(b, op, batch) ==
    [c \in Blocks |->
        IF c = b
          THEN IF op = "add" THEN rows[b] \cup batch ELSE rows[b] \ batch
          ELSE IF op = "add" /\ kind = "backup_policy"
                 THEN rows[c] \ batch ELSE rows[c]]

-----------------------------------------------------------------------------
(* The provider.                                                           *)

\* The sets a read gives: an empty one stays null if it was null before.
SetsFromAPI(b, prior) ==
    [set |-> rows[b], null |-> {a \in prior.null : Of(a, rows[b]) = {}}]

\* A loop of Update; one with nothing to do is left out.
Loop(op, attr, items) ==
    IF items = {} THEN <<>> ELSE << [op |-> op, attr |-> attr, items |-> items] >>

\* What is to go and what is to come, by the whole member: a changed comment is
\* another entry.
Deletes(attr, was, plan) == Loop("delete", attr, Of(attr, was.set \ plan.set))
Adds(attr, was, plan)    == Loop("add", attr, Of(attr, plan.set \ was.set))

\* Mutant: the new entries are added before the old ones are deleted.
EntryLoopsAddFirst(was, plan) ==
    Adds("entries", was, plan) \o Deletes("entries", was, plan)

\* Old entries go first: a cidr is unique, and a new comment is a new entry.
EntryLoops(was, plan) ==
    Deletes("entries", was, plan) \o Adds("entries", was, plan)

GroupLoops(was, plan) ==
    Deletes("rules", was, plan) \o Adds("rules", was, plan)
    \o Adds("instances", was, plan) \o Deletes("instances", was, plan)

PolicyLoops(was, plan) ==
    Adds("members", was, plan) \o Deletes("members", was, plan)

\* The loops of Update, in their order.
Differences(was, plan) ==
    CASE kind = "ip_set" -> EntryLoops(was, plan)
      [] kind = "security_group" -> GroupLoops(was, plan)
      [] kind = "backup_policy" -> PolicyLoops(was, plan)

\* The instances of a security group go in one request, all else one by one.
InOne(step) == kind = "security_group" /\ step.attr = "instances"

\* Mutant: what a failed update had left is carried into the next apply.
EndKeepsWork(b, how) == up' = [up EXCEPT ![b] = how] /\ UNCHANGED left

\* An update returns; what it had left is planned anew.
End(b, how) == /\ up' = [up EXCEPT ![b] = how]
               /\ left' = [left EXCEPT ![b] = <<>>]

\* Terraform refreshes and plans; the blocks with a difference are updated.
Plan ==
    /\ \A b \in Blocks : up[b] # "running"
    /\ state' = [b \in Blocks |-> SetsFromAPI(b, state[b])]
    /\ up' = [b \in Blocks |->
                 IF state'[b] = conf[b] THEN "ok" ELSE "running"]
    /\ left' = [b \in Blocks |-> Differences(state'[b], conf[b])]
    /\ touched' = {}
    /\ UNCHANGED <<fixed, rows, faults, edits>>

\* The next request of the update: any member of the loop's set, or all of it.
Batches(step) == IF InOne(step) THEN {step.items}
                                ELSE {{i} : i \in step.items}

Rest(b, batch) ==
    LET step == Head(left[b])
        more == step.items \ batch
    IN  IF more = {} THEN Tail(left[b])
        ELSE <<[step EXCEPT !.items = more]>> \o Tail(left[b])

\* What the server receives of a batch.
Sent(batch) == {Stored(i) : i \in batch}

Request(b) ==
    /\ up[b] = "running" /\ left[b] # <<>>
    /\ \E batch \in Batches(Head(left[b])) :
          LET op == Head(left[b]).op IN
          \/ /\ MayAccept(b, op, Sent(batch))
             /\ rows' = Carried(b, op, Sent(batch))
             /\ left' = [left EXCEPT ![b] = Rest(b, batch)]
             /\ UNCHANGED up
          \/ /\ MayRefuse(b, op, Sent(batch))
             /\ End(b, "failed")
             /\ UNCHANGED rows
    /\ UNCHANGED <<fixed, state, touched, faults, edits>>

\* The request fails, or its answer is lost after it was carried out (and its
\* replay refused as a duplicate): the update ends and the state stays.
RequestFails(b) ==
    /\ up[b] = "running" /\ left[b] # <<>>
    /\ faults < MaxFaults /\ faults' = faults + 1
    /\ \E batch \in Batches(Head(left[b])) :
          LET op == Head(left[b]).op IN
          rows' \in {rows} \cup (IF MayAccept(b, op, Sent(batch))
                                   THEN {Carried(b, op, Sent(batch))} ELSE {})
    /\ End(b, "failed")
    /\ UNCHANGED <<fixed, state, touched, edits>>

\* Mutant: the plan is written to the state as it stands.
ReadBackTrusts(b) ==
    /\ up[b] = "running" /\ left[b] = <<>>
    /\ state' = [state EXCEPT ![b] = conf[b]]
    /\ End(b, "ok")
    /\ touched' = touched \ {b}
    /\ UNCHANGED <<fixed, rows, faults, edits>>

\* The update ends with a read; Terraform takes a result that is not the plan
\* for an error.
ReadBack(b) ==
    /\ up[b] = "running" /\ left[b] = <<>>
    /\ state' = [state EXCEPT ![b] = SetsFromAPI(b, conf[b])]
    /\ End(b, IF state'[b] = conf[b] THEN "ok" ELSE "failed")
    /\ touched' = touched \ {b}
    /\ UNCHANGED <<fixed, rows, faults, edits>>

ReadBackFails(b) ==
    /\ up[b] = "running" /\ left[b] = <<>>
    /\ faults < MaxFaults /\ faults' = faults + 1
    /\ End(b, "failed")
    /\ UNCHANGED <<fixed, rows, state, touched, edits>>

-----------------------------------------------------------------------------
(* Other people, in the console or through the API.                        *)

SomebodyEdits(b) ==
    /\ edits < MaxEdits /\ edits' = edits + 1
    /\ \E op \in {"add", "delete"}, i \in Items(kind) :
          /\ ~i.bare /\ ~Already(b, op, {i}) /\ MayAccept(b, op, {i})
          /\ rows' = Carried(b, op, {i})
    /\ touched' = touched \cup {c \in Blocks : rows'[c] # rows[c]}
    /\ UNCHANGED <<fixed, state, up, left, faults>>

-----------------------------------------------------------------------------
\* No two policies are configured with one member, no two entries with one cidr.
Consistent(k, c) ==
    /\ k = "backup_policy" =>
          \A b, d \in Blocks : b # d => c[b].set \cap c[d].set = {}
    /\ k = "ip_set" => \A b \in Blocks : \A i, j \in c[b].set :
                          i.slot = j.slot => i = j

\* Each block may hold anything, left by an earlier configuration or by others,
\* and a set that is empty may be null in its state or not.
Init ==
    /\ kind \in Kinds
    /\ moves \in (IF kind = "backup_policy" THEN BOOLEAN ELSE {FALSE})
    /\ conf \in {c \in [Blocks -> Values(kind)] : Consistent(kind, c)}
    /\ state \in {s \in [Blocks -> Values(kind)] :
                     Consistent(kind, s)
                     /\ \A b \in Blocks : \A i \in s[b].set : ~i.bare}
    /\ rows = [b \in Blocks |-> state[b].set]
    /\ up = [b \in Blocks |-> "idle"]
    /\ left = [b \in Blocks |-> <<>>]
    /\ touched = {} /\ faults = 0 /\ edits = 0

Next ==
    \/ Plan
    \/ \E b \in Blocks : \/ Request(b) \/ RequestFails(b)
                         \/ ReadBack(b) \/ ReadBackFails(b)
                         \/ SomebodyEdits(b)

Spec == Init /\ [][Next]_vars

\* Terraform is run again after every apply, and an apply that runs goes on.
FairSpec == /\ Spec
            /\ WF_vars(Plan)
            /\ \A b \in AllBlocks :
                  WF_vars(b \in Blocks /\ (Request(b) \/ ReadBack(b)))

-----------------------------------------------------------------------------
(* Properties.                                                             *)

\* A block whose update ended without an error has exactly the members it is
\* configured with, whatever the other blocks of the apply do after it, until
\* somebody else changes them.  (The read-backs that end Update, and the order
\* and the targets of the requests before them.)
OkMeansDone ==
    \A b \in Blocks :
        up[b] = "ok" => b \in touched \/ rows[b] = conf[b].set

Settled == \A b \in Blocks : /\ up[b] = "ok"
                             /\ state[b] = conf[b]
                             /\ rows[b] = conf[b].set

\* Policies that are each configured with a member another of them holds, on a
\* platform that refuses to move it: every update attaches before it detaches,
\* so none of them gets to give its member up.
Exchange ==
    /\ kind = "backup_policy" /\ ~moves
    /\ \E s \in SUBSET Blocks \ {{}} : \A b \in s :
          \E c \in s \ {b} : rows[c] \cap conf[b].set # {}

\* An entry written as a bare IP is read back as a /32: the result never is the
\* plan.
BareEntry == \E b \in Blocks : \E i \in conf[b].set : i.bare

\* Applied again and again, the blocks come to have what is configured, and
\* Terraform has nothing left to plan, once faults and edits stop; but for an
\* exchange, and for a bare IP.  (The order of the loops, the comparison by the
\* whole member, and null against empty in the reads.)
Converges == <>[](Settled \/ Exchange \/ BareEntry)
=============================================================================
