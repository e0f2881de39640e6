--------------------------- MODULE MemberSetProofs ---------------------------
(***************************************************************************)
(* For any blocks, members, faults and edits: the types of MemberSet, with *)
(* what the platform keeps unique, and that a block whose update ended     *)
(* without an error keeps exactly its members until others change them.    *)
(***************************************************************************)
EXTENDS MemberSet, SequenceTheorems, TLAPS

\* A loop of b's update: what it adds is configured.
LoopsOf(b) ==
    {l \in [op : {"add", "delete"}, attr : {"entries", "rules", "instances", "members"},
            items : SUBSET Items(kind)] :
        l.op = "add" => l.items \subseteq conf[b].set}

LeftFits ==
    /\ left = [b \in Blocks |-> left[b]]
    /\ \A b \in Blocks : left[b] \in Seq(LoopsOf(b))

\* The inductive invariant.
IInv ==
    /\ TypeOK
    /\ Consistent(kind, conf)
    /\ LeftFits
    /\ OkMeansDone

-----------------------------------------------------------------------------
(* Members.                                                                *)

LEMMA StoredFacts ==
    ASSUME kind \in Kinds, NEW i \in Items(kind)
    PROVE  /\ Stored(i) \in Items(kind)
           /\ ~i.bare => Stored(i) = i
           /\ kind # "ip_set" => ~i.bare
<1>1. i \in Entries \cup Rules \cup Attached \cup Held
  BY DEF Items, Kinds
<1>2. /\ i = [attr |-> i.attr, slot |-> i.slot, note |-> i.note, bare |-> i.bare]
      /\ i.bare \in BOOLEAN
      /\ i.bare => Stored(i) \in Entries
  BY <1>1, MembersAssumption
<1>3. kind # "ip_set" => ~i.bare
  BY KindsAssumption DEF Items, Kinds
<1>4. ASSUME ~i.bare PROVE Stored(i) = i
  <2> DEFINE new == Stored(i)
  <2>1. new = [i EXCEPT !.bare = FALSE]
    BY DEF Stored
  <2>2. i.bare = FALSE
    BY <1>2, <1>4
  <2> HIDE DEF new
  <2>3. new = [attr |-> i.attr, slot |-> i.slot, note |-> i.note, bare |-> FALSE]
    BY <1>2, <2>1
  <2>4. new = i
    BY <1>2, <2>2, <2>3
  <2> QED
    BY <2>4 DEF new
<1>5. Stored(i) \in Items(kind)
  BY <1>2, <1>3, <1>4 DEF Items, Kinds
<1> QED
  BY <1>3, <1>4, <1>5

\* What is sent of configured members: of a policy, those very members.
LEMMA SentFacts ==
    ASSUME kind \in Kinds, NEW batch \in SUBSET Items(kind)
    PROVE  /\ Sent(batch) \subseteq {Stored(i) : i \in Items(kind)}
           /\ Sent(batch) \subseteq Items(kind)
           /\ kind # "ip_set" => Sent(batch) = batch
<1>1. Sent(batch) \subseteq {Stored(i) : i \in Items(kind)}
  BY DEF Sent
<1>2. Sent(batch) \subseteq Items(kind)
  BY StoredFacts DEF Sent
<1>3. ASSUME kind # "ip_set" PROVE Sent(batch) = batch
  <2>1. \A i \in batch : Stored(i) = i
    BY <1>3, StoredFacts
  <2> QED
    BY <2>1 DEF Sent
<1> QED
  BY <1>1, <1>2, <1>3

LEMMA StoredAreItems ==
    ASSUME kind \in Kinds
    PROVE  {Stored(i) : i \in Items(kind)} \subseteq Items(kind)
BY StoredFacts

-----------------------------------------------------------------------------
(* Loops.                                                                  *)

LEMMA LoopType ==
    ASSUME NEW b \in Blocks, NEW op \in {"add", "delete"},
           NEW attr \in {"entries", "rules", "instances", "members"},
           NEW items \in SUBSET Items(kind), op = "add" => items \subseteq conf[b].set
    PROVE  /\ Loop(op, attr, items) \in Seq(LoopsOf(b))
           /\ items = {} => Loop(op, attr, items) = <<>>
<1>1. [op |-> op, attr |-> attr, items |-> items] \in LoopsOf(b)
  BY DEF LoopsOf
<1> DEFINE l == [op |-> op, attr |-> attr, items |-> items]
<1>2. <<l>> \in Seq(LoopsOf(b))
  <2> HIDE DEF l
  <2>1. l \in LoopsOf(b)
    BY <1>1 DEF l
  <2> QED
    BY <2>1
<1> QED
  BY <1>2 DEF Loop

LEMMA DeletesType ==
    ASSUME NEW b \in Blocks, NEW was, NEW plan, was.set \subseteq Items(kind),
           NEW attr \in {"entries", "rules", "instances", "members"}
    PROVE  /\ Deletes(attr, was, plan) \in Seq(LoopsOf(b))
           /\ was = plan => Deletes(attr, was, plan) = <<>>
<1>1. /\ Of(attr, was.set \ plan.set) \in SUBSET Items(kind)
      /\ was = plan => Of(attr, was.set \ plan.set) = {}
  BY DEF Of
<1> QED
  BY <1>1, LoopType DEF Deletes

LEMMA AddsType ==
    ASSUME NEW b \in Blocks, NEW was, conf[b].set \subseteq Items(kind),
           NEW attr \in {"entries", "rules", "instances", "members"}
    PROVE  /\ Adds(attr, was, conf[b]) \in Seq(LoopsOf(b))
           /\ was = conf[b] => Adds(attr, was, conf[b]) = <<>>
<1>1. /\ Of(attr, conf[b].set \ was.set) \in SUBSET Items(kind)
      /\ Of(attr, conf[b].set \ was.set) \subseteq conf[b].set
      /\ was = conf[b] => Of(attr, conf[b].set \ was.set) = {}
  BY DEF Of
<1> QED
  BY <1>1, LoopType DEF Adds

\* The loops of an update add what is configured, and are none when there is no
\* difference.
LEMMA DifferencesType ==
    ASSUME kind \in Kinds, NEW b \in Blocks, NEW was,
           was.set \subseteq Items(kind), conf[b].set \subseteq Items(kind)
    PROVE  /\ Differences(was, conf[b]) \in Seq(LoopsOf(b))
           /\ was = conf[b] => Differences(was, conf[b]) = <<>>
<1>1. \A attr \in {"entries", "rules", "instances", "members"} :
         /\ Deletes(attr, was, conf[b]) \in Seq(LoopsOf(b))
         /\ Adds(attr, was, conf[b]) \in Seq(LoopsOf(b))
         /\ was = conf[b] => /\ Deletes(attr, was, conf[b]) = <<>>
                             /\ Adds(attr, was, conf[b]) = <<>>
  BY DeletesType, AddsType
<1>2. \A s, t \in Seq(LoopsOf(b)) :
         s \o t \in Seq(LoopsOf(b)) /\ (s = <<>> /\ t = <<>> => s \o t = <<>>)
  OBVIOUS
<1>3. /\ EntryLoops(was, conf[b]) \in Seq(LoopsOf(b))
      /\ was = conf[b] => EntryLoops(was, conf[b]) = <<>>
  BY <1>1, <1>2 DEF EntryLoops
<1>4. /\ GroupLoops(was, conf[b]) \in Seq(LoopsOf(b))
      /\ was = conf[b] => GroupLoops(was, conf[b]) = <<>>
  BY <1>1, <1>2 DEF GroupLoops
<1>5. /\ PolicyLoops(was, conf[b]) \in Seq(LoopsOf(b))
      /\ was = conf[b] => PolicyLoops(was, conf[b]) = <<>>
  BY <1>1, <1>2 DEF PolicyLoops
<1> QED
  BY <1>3, <1>4, <1>5 DEF Differences, Kinds

-----------------------------------------------------------------------------
(* Requests.                                                               *)

\* The rows of the platform, and what it keeps unique of them.
RowsFit ==
    /\ rows \in [Blocks -> SUBSET {Stored(i) : i \in Items(kind)}]
    /\ kind = "ip_set" => \A b \in Blocks : \A i, j \in rows[b] :
                              i.slot = j.slot => i = j
    /\ kind = "backup_policy" =>
           \A b, c \in Blocks : b # c => rows[b] \cap rows[c] = {}

\* What is carried out keeps unique what is to be.
LEMMA CarriedFits ==
    ASSUME TypeOK, NEW b \in Blocks, NEW op, UNCHANGED kind,
           NEW batch \in SUBSET {Stored(i) : i \in Items(kind)},
           MayAccept(b, op, batch),
           kind = "ip_set" => \A i, j \in batch : i = j,
           rows' = Carried(b, op, batch)
    PROVE  RowsFit'
<1>1. /\ RowsFit /\ kind' = kind /\ Blocks' = Blocks
  BY DEF TypeOK, RowsFit, Blocks
<1>2. \A c \in Blocks :
         rows'[c] = IF c = b
                      THEN IF op = "add" THEN rows[b] \cup batch ELSE rows[b] \ batch
                      ELSE IF op = "add" /\ kind = "backup_policy"
                             THEN rows[c] \ batch ELSE rows[c]
  BY DEF Carried
<1>3. rows' \in [Blocks -> SUBSET {Stored(i) : i \in Items(kind)}]
  BY <1>1 DEF Carried, RowsFit
<1>4. ASSUME kind = "ip_set", NEW c \in Blocks, NEW i \in rows'[c], NEW j \in rows'[c],
             i.slot = j.slot
      PROVE  i = j
  <2>1. CASE i \in rows[c] /\ j \in rows[c]
    BY <1>1, <1>4, <2>1 DEF RowsFit
  <2>2. CASE i \in batch /\ j \in batch
    BY <1>4, <2>2
  <2>3. ASSUME c = b, op = "add", NEW x \in batch \ rows[b], NEW y \in rows[b]
        PROVE  x.slot # y.slot
    BY <1>4, <2>3 DEF MayAccept, InTheWay
  <2> QED
    BY <1>2, <1>4, <2>1, <2>2, <2>3
<1>5. ASSUME kind = "backup_policy", NEW c \in Blocks, NEW d \in Blocks, c # d
      PROVE  rows'[c] \cap rows'[d] = {}
  BY <1>1, <1>2, <1>5 DEF RowsFit
<1> QED
  BY <1>1, <1>3, <1>4, <1>5 DEF RowsFit

\* A request of b takes nothing from a block that has what is configured.
LEMMA CarriedSpares ==
    ASSUME IInv, NEW b \in Blocks, NEW op, NEW batch \in SUBSET Items(kind),
           op = "add" => batch \subseteq conf[b].set,
           rows' = Carried(b, op, Sent(batch)),
           UNCHANGED <<fixed, touched>>,
           up' = [up EXCEPT ![b] = "running"] \/ up' = [up EXCEPT ![b] = "failed"]
    PROVE  OkMeansDone'
<1>1. /\ TypeOK /\ kind \in Kinds /\ up \in [Blocks -> {"idle", "running", "ok", "failed"}]
      /\ Blocks' = Blocks /\ kind' = kind /\ conf' = conf
  BY DEF IInv, TypeOK, fixed, Blocks
<1> SUFFICES ASSUME NEW c \in Blocks, up'[c] = "ok", c \notin touched
             PROVE  rows'[c] = conf[c].set
  BY <1>1 DEF OkMeansDone
<1>2. c # b /\ up[c] = "ok"
  BY <1>1
<1>3. rows[c] = conf[c].set
  BY <1>2 DEF IInv, OkMeansDone
<1>4. ASSUME op = "add", kind = "backup_policy"
      PROVE  conf[c].set \cap Sent(batch) = {}
  <2>1. Sent(batch) = batch
    BY <1>1, <1>4, SentFacts
  <2> QED
    BY <1>2, <1>4, <2>1 DEF IInv, Consistent
<1> QED
  BY <1>2, <1>3, <1>4 DEF Carried

\* The requests a loop may send next.
LEMMA NextBatch ==
    ASSUME IInv, NEW b \in Blocks, left[b] # <<>>,
           NEW batch \in Batches(Head(left[b]))
    PROVE  /\ Head(left[b]) \in LoopsOf(b)
           /\ batch \in SUBSET Items(kind)
           /\ Head(left[b]).op = "add" => batch \subseteq conf[b].set
           /\ kind = "ip_set" => \A i, j \in Sent(batch) : i = j
           /\ Rest(b, batch) \in Seq(LoopsOf(b))
<1> DEFINE step == Head(left[b])
<1>1. left[b] \in Seq(LoopsOf(b))
  BY DEF IInv, LeftFits
<1>2. step \in LoopsOf(b) /\ Tail(left[b]) \in Seq(LoopsOf(b))
  BY <1>1, HeadTailProperties
<1>3. /\ step.items \subseteq Items(kind)
      /\ step.op = "add" => step.items \subseteq conf[b].set
      /\ step \in [op : {"add", "delete"},
                   attr : {"entries", "rules", "instances", "members"},
                   items : SUBSET Items(kind)]
  BY <1>2 DEF LoopsOf
<1> HIDE DEF step
<1>4. batch = step.items \/ (~InOne(step) /\ \E i \in step.items : batch = {i})
  BY DEF Batches, step
<1>5. kind = "ip_set" => \A i, j \in Sent(batch) : i = j
  BY <1>4 DEF Sent, Batches, InOne, step
<1>6. Rest(b, batch) \in Seq(LoopsOf(b))
  <2> DEFINE more == step.items \ batch
  <2>1. CASE more = {}
    BY <1>2, <2>1 DEF Rest, step
  <2>2. CASE more # {}
    <3> DEFINE rest == [step EXCEPT !.items = more]
    <3>1. rest \in LoopsOf(b)
      <4>1. more \in SUBSET Items(kind)
        BY <1>3
      <4> HIDE DEF more
      <4>2. rest = [op |-> step.op, attr |-> step.attr, items |-> more]
        BY <1>3
      <4>3. rest.op = "add" => rest.items \subseteq conf[b].set
        BY <1>3, <4>2 DEF more
      <4> QED
        BY <1>3, <4>1, <4>2, <4>3 DEF LoopsOf
    <3>2. Rest(b, batch) = <<rest>> \o Tail(left[b])
      BY <2>2 DEF Rest, step
    <3> HIDE DEF rest
    <3>3. <<rest>> \in Seq(LoopsOf(b))
      BY <3>1
    <3> QED
      BY <1>2, <3>2, <3>3, ConcatProperties
  <2> QED
    BY <2>1, <2>2
<1> QED
  BY <1>2, <1>3, <1>4, <1>5, <1>6 DEF step

-----------------------------------------------------------------------------
(* The steps.                                                              *)

\* What a read gives is a value of the block.
LEMMA ReadValue ==
    ASSUME TypeOK, NEW b \in Blocks, NEW prior \in Values(kind)
    PROVE  SetsFromAPI(b, prior) \in Values(kind)
<1>1. rows[b] \subseteq Items(kind)
  BY StoredAreItems DEF TypeOK
<1> DEFINE null == {a \in prior.null : Of(a, rows[b]) = {}}
<1>2. null \subseteq Attrs(kind)
  BY DEF Values
<1>3. [set |-> rows[b], null |-> null]
         \in [set : SUBSET Items(kind), null : SUBSET Attrs(kind)]
  BY <1>1, <1>2
<1>4. \A a \in null : Of(a, rows[b]) = {}
  OBVIOUS
<1> HIDE DEF null
<1>5. [set |-> rows[b], null |-> null] \in Values(kind)
  BY <1>3, <1>4 DEF Values
<1> QED
  BY <1>5 DEF SetsFromAPI, null

\* What stays the same for the whole of a behaviour.
LEMMA FixedStays ==
    ASSUME TypeOK, UNCHANGED fixed
    PROVE  /\ kind' = kind /\ conf' = conf /\ moves' = moves /\ Blocks' = Blocks
           /\ kind \in Kinds /\ moves \in BOOLEAN
           /\ conf \in [Blocks -> Values(kind)]
           /\ Values(kind)' = Values(kind) /\ Items(kind)' = Items(kind)
           /\ Consistent(kind, conf)' <=> Consistent(kind, conf)
           /\ \A b : LoopsOf(b)' = LoopsOf(b)
           /\ \A b \in Blocks : conf[b].set \subseteq Items(kind)
BY DEF TypeOK, fixed, Blocks, Values, Items, Consistent, LoopsOf

\* An update that ends has nothing left, and the others have what they had.
LEMMA EndFacts ==
    ASSUME IInv, NEW b \in Blocks, UNCHANGED fixed, NEW how \in {"ok", "failed"},
           End(b, how)
    PROVE  /\ up' \in [Blocks -> {"idle", "running", "ok", "failed"}]
           /\ \A c \in Blocks : up'[c] # "running" => left'[c] = <<>>
           /\ LeftFits'
           /\ up' = [up EXCEPT ![b] = how] /\ up'[b] = how
           /\ \A c \in Blocks : c # b => up'[c] = up[c]
<1>1. /\ Blocks' = Blocks /\ \A c : LoopsOf(c)' = LoopsOf(c)
      /\ up \in [Blocks -> {"idle", "running", "ok", "failed"}]
  BY FixedStays DEF IInv, TypeOK
<1>2. /\ left = [c \in Blocks |-> left[c]]
      /\ \A c \in Blocks : left[c] \in Seq(LoopsOf(c))
  BY DEF IInv, LeftFits
<1>3. /\ up' = [up EXCEPT ![b] = how] /\ left' = [left EXCEPT ![b] = <<>>]
  BY DEF End
<1>4. left' = [c \in Blocks |-> IF c = b THEN <<>> ELSE left[c]]
  BY <1>2, <1>3
<1>5. LeftFits'
  BY <1>1, <1>2, <1>4 DEF LeftFits
<1>6. \A c \in Blocks : up'[c] # "running" => left'[c] = <<>>
  BY <1>1, <1>3, <1>4 DEF IInv, TypeOK
<1> QED
  BY <1>1, <1>3, <1>5, <1>6

LEMMA PlanKeeps ==
    ASSUME IInv, Plan
    PROVE  IInv'
<1>1. /\ TypeOK /\ UNCHANGED <<fixed, rows, faults, edits>> /\ touched' = {}
      /\ state' = [b \in Blocks |-> SetsFromAPI(b, state[b])]
      /\ up' = [b \in Blocks |-> IF state'[b] = conf[b] THEN "ok" ELSE "running"]
      /\ left' = [b \in Blocks |-> Differences(state'[b], conf[b])]
  BY DEF IInv, Plan
<1>2. /\ kind' = kind /\ conf' = conf /\ moves' = moves /\ Blocks' = Blocks
      /\ kind \in Kinds
      /\ Values(kind)' = Values(kind) /\ Items(kind)' = Items(kind)
      /\ Consistent(kind, conf)'
      /\ \A b : LoopsOf(b)' = LoopsOf(b)
      /\ \A b \in Blocks : conf[b].set \subseteq Items(kind)
  BY <1>1, FixedStays DEF IInv
<1>3. state' \in [Blocks -> Values(kind)]
  BY <1>1, ReadValue DEF TypeOK
<1>4. ASSUME NEW b \in Blocks
      PROVE  /\ left'[b] \in Seq(LoopsOf(b))
             /\ state'[b] = conf[b] => left'[b] = <<>> /\ rows[b] = conf[b].set
  <2>1. state'[b] = SetsFromAPI(b, state[b]) /\ state'[b].set = rows[b]
    BY <1>1 DEF SetsFromAPI
  <2>2. state'[b].set \subseteq Items(kind)
    BY <1>3 DEF Values
  <2>3. left'[b] = Differences(state'[b], conf[b])
    BY <1>1
  <2> DEFINE was == state'[b]
  <2> HIDE DEF was
  <2>4. /\ Differences(was, conf[b]) \in Seq(LoopsOf(b))
        /\ was = conf[b] => Differences(was, conf[b]) = <<>>
    BY <1>2, <2>2, DifferencesType DEF was
  <2> QED
    BY <2>1, <2>3, <2>4 DEF was
<1>5. /\ up' \in [Blocks -> {"idle", "running", "ok", "failed"}]
      /\ \A b \in Blocks : up'[b] # "running" => state'[b] = conf[b]
  BY <1>1
<1>6. TypeOK'
  BY <1>1, <1>2, <1>3, <1>4, <1>5 DEF TypeOK, fixed
<1>7. LeftFits'
  <2>1. left' = [b \in Blocks |-> left'[b]]
    BY <1>1
  <2> QED
    BY <1>2, <1>4, <2>1 DEF LeftFits
<1>8. OkMeansDone'
  BY <1>1, <1>2, <1>4, <1>5 DEF OkMeansDone
<1> QED
  BY <1>2, <1>6, <1>7, <1>8 DEF IInv

\* The whole of TypeOK but what the platform holds, for the steps of one block.
LEMMA TypeOfStep ==
    ASSUME TypeOK, UNCHANGED fixed, RowsFit', state' \in [Blocks -> Values(kind)],
           up' \in [Blocks -> {"idle", "running", "ok", "failed"}],
           \A b \in Blocks : up'[b] # "running" => left'[b] = <<>>,
           touched' \subseteq Blocks,
           faults' \in 0..MaxFaults, edits' \in 0..MaxEdits
    PROVE  TypeOK'
<1>1. /\ kind' = kind /\ conf' = conf /\ moves' = moves /\ Blocks' = Blocks
      /\ kind \in Kinds /\ moves \in BOOLEAN
      /\ conf \in [Blocks -> Values(kind)]
      /\ Values(kind)' = Values(kind)
  BY FixedStays
<1> QED
  BY <1>1 DEF TypeOK, RowsFit

LEMMA RequestKeeps ==
    ASSUME IInv, NEW b \in Blocks, Request(b)
    PROVE  IInv'
<1>1. /\ TypeOK /\ up[b] = "running" /\ left[b] # <<>>
      /\ UNCHANGED <<fixed, state, touched, faults, edits>>
  BY DEF IInv, Request
<1>2. /\ kind' = kind /\ conf' = conf /\ Blocks' = Blocks /\ kind \in Kinds
      /\ Consistent(kind, conf)' /\ \A c : LoopsOf(c)' = LoopsOf(c)
  BY <1>1, FixedStays DEF IInv
<1>3. PICK batch \in Batches(Head(left[b])) :
         LET op == Head(left[b]).op IN
         \/ /\ MayAccept(b, op, Sent(batch))
            /\ rows' = Carried(b, op, Sent(batch))
            /\ left' = [left EXCEPT ![b] = Rest(b, batch)]
            /\ UNCHANGED up
         \/ /\ MayRefuse(b, op, Sent(batch))
            /\ End(b, "failed")
            /\ UNCHANGED rows
  BY DEF Request
<1>4. /\ batch \in SUBSET Items(kind)
      /\ Head(left[b]).op = "add" => batch \subseteq conf[b].set
      /\ kind = "ip_set" => \A i, j \in Sent(batch) : i = j
      /\ Rest(b, batch) \in Seq(LoopsOf(b))
  BY <1>1, NextBatch
<1>5. Sent(batch) \subseteq {Stored(i) : i \in Items(kind)}
  BY <1>2, <1>4, SentFacts
<1>6. CASE /\ MayAccept(b, Head(left[b]).op, Sent(batch))
           /\ rows' = Carried(b, Head(left[b]).op, Sent(batch))
           /\ left' = [left EXCEPT ![b] = Rest(b, batch)]
           /\ UNCHANGED up
  <2>1. RowsFit'
    BY <1>1, <1>2, <1>4, <1>5, <1>6, CarriedFits
  <2>2. up' = [up EXCEPT ![b] = "running"]
    BY <1>1, <1>6 DEF TypeOK
  <2>3. OkMeansDone'
    BY <1>1, <1>4, <1>6, <2>2, CarriedSpares
  <2>4. /\ left = [c \in Blocks |-> left[c]]
        /\ \A c \in Blocks : left[c] \in Seq(LoopsOf(c))
    BY DEF IInv, LeftFits
  <2>5. left' = [c \in Blocks |-> IF c = b THEN Rest(b, batch) ELSE left[c]]
    BY <1>6, <2>4
  <2>6. LeftFits'
    BY <1>2, <1>4, <2>4, <2>5 DEF LeftFits
  <2>7. \A c \in Blocks : up'[c] # "running" => left'[c] = <<>>
    BY <1>1, <1>6, <2>5 DEF TypeOK
  <2>8. TypeOK'
    BY <1>1, <1>6, <2>1, <2>7, TypeOfStep DEF TypeOK
  <2> QED
    BY <1>2, <2>3, <2>6, <2>8 DEF IInv
<1>7. CASE End(b, "failed") /\ UNCHANGED rows
  <2>1. /\ up' \in [Blocks -> {"idle", "running", "ok", "failed"}]
        /\ \A c \in Blocks : up'[c] # "running" => left'[c] = <<>>
        /\ LeftFits' /\ up'[b] = "failed"
        /\ \A c \in Blocks : c # b => up'[c] = up[c]
    BY <1>1, <1>7, EndFacts
  <2>2. RowsFit'
    BY <1>1, <1>2, <1>7 DEF TypeOK, RowsFit
  <2>3. TypeOK'
    BY <1>1, <2>1, <2>2, TypeOfStep DEF TypeOK
  <2>4. OkMeansDone'
    BY <1>1, <1>2, <1>7, <2>1 DEF IInv, OkMeansDone
  <2> QED
    BY <1>2, <2>1, <2>3, <2>4 DEF IInv
<1> QED
  BY <1>3, <1>6, <1>7

LEMMA RequestFailsKeeps ==
    ASSUME IInv, NEW b \in Blocks, RequestFails(b)
    PROVE  IInv'
<1>1. /\ TypeOK /\ up[b] = "running" /\ left[b] # <<>> /\ End(b, "failed")
      /\ UNCHANGED <<fixed, state, touched, edits>>
      /\ faults < MaxFaults /\ faults' = faults + 1
  BY DEF IInv, RequestFails
<1>2. /\ kind' = kind /\ conf' = conf /\ Blocks' = Blocks /\ kind \in Kinds
      /\ Consistent(kind, conf)'
  BY <1>1, FixedStays DEF IInv
<1>3. faults' \in 0..MaxFaults
  BY <1>1, BoundsAssumption DEF TypeOK
<1>4. /\ up' \in [Blocks -> {"idle", "running", "ok", "failed"}]
      /\ \A c \in Blocks : up'[c] # "running" => left'[c] = <<>>
      /\ LeftFits' /\ up'[b] = "failed" /\ up' = [up EXCEPT ![b] = "failed"]
      /\ \A c \in Blocks : c # b => up'[c] = up[c]
  BY <1>1, EndFacts
<1>5. CASE rows' = rows
  <2>1. RowsFit'
    BY <1>1, <1>2, <1>5 DEF TypeOK, RowsFit
  <2>2. OkMeansDone'
    BY <1>1, <1>2, <1>4, <1>5 DEF IInv, OkMeansDone
  <2>3. TypeOK'
    BY <1>1, <1>3, <1>4, <2>1, TypeOfStep DEF TypeOK
  <2> QED
    BY <1>2, <1>4, <2>2, <2>3 DEF IInv
<1>6. CASE rows' # rows
  <2>1. PICK batch \in Batches(Head(left[b])) :
           /\ MayAccept(b, Head(left[b]).op, Sent(batch))
           /\ rows' = Carried(b, Head(left[b]).op, Sent(batch))
    BY <1>6 DEF RequestFails
  <2>2. /\ batch \in SUBSET Items(kind)
        /\ Head(left[b]).op = "add" => batch \subseteq conf[b].set
        /\ kind = "ip_set" => \A i, j \in Sent(batch) : i = j
    BY <1>1, NextBatch
  <2>3. Sent(batch) \subseteq {Stored(i) : i \in Items(kind)}
    BY <1>2, <2>2, SentFacts
  <2>4. RowsFit'
    BY <1>1, <1>2, <2>1, <2>2, <2>3, CarriedFits
  <2>5. OkMeansDone'
    BY <1>1, <1>4, <2>1, <2>2, CarriedSpares
  <2>6. TypeOK'
    BY <1>1, <1>3, <1>4, <2>4, TypeOfStep DEF TypeOK
  <2> QED
    BY <1>2, <1>4, <2>5, <2>6 DEF IInv
<1> QED
  BY <1>5, <1>6

LEMMA ReadBackKeeps ==
    ASSUME IInv, NEW b \in Blocks, ReadBack(b)
    PROVE  IInv'
<1>1. /\ TypeOK /\ touched' = touched \ {b}
      /\ state' = [state EXCEPT ![b] = SetsFromAPI(b, conf[b])]
      /\ End(b, IF state'[b] = conf[b] THEN "ok" ELSE "failed")
      /\ UNCHANGED <<fixed, rows, faults, edits>>
  BY DEF IInv, ReadBack
<1>2. /\ kind' = kind /\ conf' = conf /\ Blocks' = Blocks
      /\ conf \in [Blocks -> Values(kind)] /\ Consistent(kind, conf)'
  BY <1>1, FixedStays DEF IInv
<1>3. SetsFromAPI(b, conf[b]) \in Values(kind)
  BY <1>1, <1>2, ReadValue
<1>4. state' \in [Blocks -> Values(kind)] /\ state'[b] = SetsFromAPI(b, conf[b])
  BY <1>1, <1>3 DEF TypeOK
<1>5. state'[b].set = rows[b]
  BY <1>4 DEF SetsFromAPI
<1>6. PICK how \in {"ok", "failed"} : /\ End(b, how)
                                      /\ how = "ok" => state'[b] = conf[b]
  BY <1>1
<1>7. /\ up' \in [Blocks -> {"idle", "running", "ok", "failed"}]
      /\ \A c \in Blocks : up'[c] # "running" => left'[c] = <<>>
      /\ LeftFits' /\ up'[b] = how
      /\ \A c \in Blocks : c # b => up'[c] = up[c]
  BY <1>1, <1>6, EndFacts
<1>8. RowsFit'
  BY <1>1, <1>2 DEF TypeOK, RowsFit
<1>9. TypeOK'
  BY <1>1, <1>4, <1>7, <1>8, TypeOfStep DEF TypeOK
<1>10. OkMeansDone'
  <2> SUFFICES ASSUME NEW c \in Blocks, up'[c] = "ok", c \notin touched'
               PROVE  rows'[c] = conf[c].set
    BY <1>2 DEF OkMeansDone
  <2>1. CASE c = b
    BY <1>1, <1>5, <1>6, <1>7, <2>1
  <2>2. CASE c # b
    BY <1>1, <1>7, <2>2 DEF IInv, OkMeansDone
  <2> QED
    BY <2>1, <2>2
<1> QED
  BY <1>2, <1>7, <1>9, <1>10 DEF IInv

LEMMA ReadBackFailsKeeps ==
    ASSUME IInv, NEW b \in Blocks, ReadBackFails(b)
    PROVE  IInv'
<1>1. /\ TypeOK /\ End(b, "failed") /\ UNCHANGED <<fixed, rows, state, touched, edits>>
      /\ faults < MaxFaults /\ faults' = faults + 1
  BY DEF IInv, ReadBackFails
<1>2. /\ kind' = kind /\ conf' = conf /\ Blocks' = Blocks /\ Consistent(kind, conf)'
  BY <1>1, FixedStays DEF IInv
<1>3. faults' \in 0..MaxFaults
  BY <1>1, BoundsAssumption DEF TypeOK
<1>4. /\ up' \in [Blocks -> {"idle", "running", "ok", "failed"}]
      /\ \A c \in Blocks : up'[c] # "running" => left'[c] = <<>>
      /\ LeftFits' /\ up'[b] = "failed"
      /\ \A c \in Blocks : c # b => up'[c] = up[c]
  BY <1>1, EndFacts
<1>5. RowsFit'
  BY <1>1, <1>2 DEF TypeOK, RowsFit
<1>6. TypeOK'
  BY <1>1, <1>3, <1>4, <1>5, TypeOfStep DEF TypeOK
<1>7. OkMeansDone'
  BY <1>1, <1>2, <1>4 DEF IInv, OkMeansDone
<1> QED
  BY <1>2, <1>4, <1>6, <1>7 DEF IInv

LEMMA SomebodyEditsKeeps ==
    ASSUME IInv, NEW b \in Blocks, SomebodyEdits(b)
    PROVE  IInv'
<1>1. /\ TypeOK /\ UNCHANGED <<fixed, state, up, left, faults>>
      /\ edits < MaxEdits /\ edits' = edits + 1
      /\ touched' = touched \cup {c \in Blocks : rows'[c] # rows[c]}
  BY DEF IInv, SomebodyEdits
<1>2. /\ kind' = kind /\ conf' = conf /\ Blocks' = Blocks /\ kind \in Kinds
      /\ Consistent(kind, conf)' /\ \A c : LoopsOf(c)' = LoopsOf(c)
  BY <1>1, FixedStays DEF IInv
<1>3. PICK op \in {"add", "delete"}, i \in Items(kind) :
         ~i.bare /\ MayAccept(b, op, {i}) /\ rows' = Carried(b, op, {i})
  BY DEF SomebodyEdits
<1>4. {i} \in SUBSET {Stored(j) : j \in Items(kind)}
  BY <1>2, <1>3, StoredFacts
<1>5. RowsFit'
  BY <1>1, <1>2, <1>3, <1>4, CarriedFits
<1>6. edits' \in 0..MaxEdits
  BY <1>1, BoundsAssumption DEF TypeOK
<1>7. TypeOK'
  BY <1>1, <1>5, <1>6, TypeOfStep DEF TypeOK
<1>8. OkMeansDone'
  BY <1>1, <1>2 DEF IInv, OkMeansDone
<1>9. LeftFits'
  BY <1>1, <1>2 DEF IInv, LeftFits
<1> QED
  BY <1>2, <1>7, <1>8, <1>9 DEF IInv

LEMMA InitInv == Init => IInv
<1> SUFFICES ASSUME Init PROVE IInv
  OBVIOUS
<1>1. /\ kind \in Kinds /\ moves \in BOOLEAN
      /\ conf \in [Blocks -> Values(kind)] /\ Consistent(kind, conf)
      /\ state \in [Blocks -> Values(kind)] /\ Consistent(kind, state)
      /\ \A b \in Blocks : \A i \in state[b].set : ~i.bare
      /\ rows = [b \in Blocks |-> state[b].set]
      /\ up = [b \in Blocks |-> "idle"] /\ left = [b \in Blocks |-> <<>>]
      /\ touched = {} /\ faults = 0 /\ edits = 0
  BY DEF Init
<1>2. ASSUME NEW b \in Blocks
      PROVE  state[b].set \in SUBSET {Stored(i) : i \in Items(kind)}
  <2>1. state[b].set \subseteq Items(kind)
    BY <1>1 DEF Values
  <2>2. \A i \in state[b].set : Stored(i) = i
    BY <1>1, <2>1, StoredFacts
  <2> QED
    BY <2>1, <2>2
<1>3. rows \in [Blocks -> SUBSET {Stored(i) : i \in Items(kind)}]
  BY <1>1, <1>2
<1>4. /\ kind = "ip_set" => \A b \in Blocks : \A i, j \in rows[b] :
                                i.slot = j.slot => i = j
      /\ kind = "backup_policy" =>
             \A b, c \in Blocks : b # c => rows[b] \cap rows[c] = {}
  BY <1>1 DEF Consistent
<1>5. faults \in 0..MaxFaults /\ edits \in 0..MaxEdits
  BY <1>1, BoundsAssumption
<1>6. TypeOK
  BY <1>1, <1>3, <1>4, <1>5 DEF TypeOK
<1>7. LeftFits
  <2>1. \A b \in Blocks : left[b] = <<>>
    BY <1>1
  <2>2. \A b \in Blocks : <<>> \in Seq(LoopsOf(b))
    OBVIOUS
  <2> QED
    BY <1>1, <2>1, <2>2 DEF LeftFits
<1>8. OkMeansDone
  BY <1>1 DEF OkMeansDone
<1> QED
  BY <1>1, <1>6, <1>7, <1>8 DEF IInv

LEMMA StutterKeeps == IInv /\ UNCHANGED vars => IInv'
<1> SUFFICES ASSUME IInv, UNCHANGED vars PROVE IInv'
  OBVIOUS
<1>1. /\ kind' = kind /\ moves' = moves /\ conf' = conf /\ rows' = rows
      /\ state' = state /\ up' = up /\ left' = left /\ touched' = touched
      /\ faults' = faults /\ edits' = edits /\ Blocks' = Blocks
  BY DEF vars, fixed, Blocks
<1>2. TypeOK'
  BY <1>1 DEF IInv, TypeOK, Values, Items
<1>3. LeftFits'
  BY <1>1 DEF IInv, LeftFits, LoopsOf, Items
<1>4. Consistent(kind, conf)' /\ OkMeansDone'
  BY <1>1 DEF IInv, Consistent, OkMeansDone
<1> QED
  BY <1>2, <1>3, <1>4 DEF IInv

LEMMA NextKeeps == IInv /\ [Next]_vars => IInv'
<1> SUFFICES ASSUME IInv, [Next]_vars PROVE IInv'
  OBVIOUS
<1>1. CASE Plan
  BY <1>1, PlanKeeps
<1>2. ASSUME NEW b \in Blocks, Request(b) PROVE IInv'
  BY <1>2, RequestKeeps
<1>3. ASSUME NEW b \in Blocks, RequestFails(b) PROVE IInv'
  BY <1>3, RequestFailsKeeps
<1>4. ASSUME NEW b \in Blocks, ReadBack(b) PROVE IInv'
  BY <1>4, ReadBackKeeps
<1>5. ASSUME NEW b \in Blocks, ReadBackFails(b) PROVE IInv'
  BY <1>5, ReadBackFailsKeeps
<1>6. ASSUME NEW b \in Blocks, SomebodyEdits(b) PROVE IInv'
  BY <1>6, SomebodyEditsKeeps
<1>7. CASE UNCHANGED vars
  BY <1>7, StutterKeeps
<1> QED
  BY <1>1, <1>2, <1>3, <1>4, <1>5, <1>6, <1>7 DEF Next

-----------------------------------------------------------------------------
(* Results.                                                                *)

\* The invariant on which the others rest.
THEOREM Invariance == Spec => []IInv
<1>1. Init => IInv
  BY InitInv
<1>2. IInv /\ [Next]_vars => IInv'
  BY NextKeeps
<1> QED
  BY <1>1, <1>2, PTL DEF Spec

\* The sets of each block stay sets of its kind's members, a null attribute is
\* an empty one, and what the platform keeps unique stays so through every
\* order of the requests of the blocks and the edits of others.
THEOREM TypeCorrect == Spec => []TypeOK
<1>1. IInv => TypeOK
  BY DEF IInv
<1> QED
  BY <1>1, Invariance, PTL

\* A block whose update ended without an error has exactly the members it is
\* configured with, whatever the updates that go on beside it send, until
\* somebody else changes them.
THEOREM OkStaysDone == Spec => []OkMeansDone
<1>1. IInv => OkMeansDone
  BY DEF IInv
<1> QED
  BY <1>1, Invariance, PTL
=============================================================================
