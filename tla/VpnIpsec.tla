------------------------------ MODULE VpnIpsec ------------------------------
(***************************************************************************)
(* The resource iaas_vpn_ipsec_connection under Terraform: one block on    *)
(* one gateway, applied again and again.  Every write is recorded at once  *)
(* and confirmed by the gateway's node later.  The pre-shared key is never *)
(* returned: Read goes by the key's version, kept in private state.        *)
(*                                                                         *)
(* Others work on the gateway too: they rotate the key, remove the         *)
(* connection, make one of the same name or write to a sibling.  Answers   *)
(* get lost, requests arrive late, and the provider may be killed.         *)
(***************************************************************************)
EXTENDS Naturals, FiniteSets

CONSTANTS
    MaxConns,   \* connections ever made under the block's name
    Keys,       \* pre-shared keys
    Opts,       \* values of the other attributes that change in place
    MaxOthers,  \* steps of the others
    MaxLate     \* requests on their way whose call is over

ASSUME ConnsAssumption == MaxConns \in Nat
ASSUME KeysAssumption == Keys \subseteq Nat \ {0} /\ Keys # {}
ASSUME OptsAssumption == Opts \subseteq Nat \ {0} /\ Opts # {}
ASSUME OthersAssumption == MaxOthers \in Nat
ASSUME LateAssumption == MaxLate \in Nat

VARIABLES
    conn,       \* connections under the block's name (and with its networks)
    pending,    \* writes the node has not confirmed: ids, and Sibling
    failed,     \* ipsec_apply_state is "failed"
    install,    \* ipsec_state: the packages on the gateway
    wire,       \* requests on their way
    others,     \* steps of the others so far
    want,       \* the configuration
    pc,         \* where the apply or the destroy is
    asked,      \* is the request of this position out?
    replacing,  \* the delete is the first half of a replacement
    state,      \* the Terraform state, the private one included
    resp,       \* the state this call will return
    clean,      \* nobody else touched the block's connections since the apply
                \* began and, once it is over, it had no error
    freed       \* connections whose removal was reported confirmed

platform == <<conn, pending, failed, install>>
vars == <<platform, wire, others, want, pc, asked, replacing, state, resp,
          clean, freed>>

Ids     == 1..MaxConns
NoId    == 0
Sibling == 0    \* in pending: a write to another connection of the gateway
NoKey   == 0    \* the key is null
NoOpt   == 0
NoVer   == 0    \* no key version recorded
Lives   == {"unused", "live", "removed"}

\* "told": the practitioner was told that it may exist.  "untold": nobody says so,
\* because the provider was killed, or a 429 answered a create that is recorded all
\* the same.
Origins == {"ours", "told", "untold", "foreign"}
Conns   == [life : Lives, key : Keys, ver : Nat, opt : Opts, origin : Origins]
States  == [id : Ids \cup {NoId}, key : Keys \cup {NoKey}, ver : Nat,
            opt : Opts \cup {NoOpt}, tainted : BOOLEAN]
NoState == [id |-> NoId, key |-> NoKey, ver |-> NoVer, opt |-> NoOpt,
            tainted |-> FALSE]
Configs  == { c \in [key : Keys, opt : Opts] : c.opt <= c.key }   \* (a bound)
Requests == [op : {"create"}, key : Keys, opt : Opts, origin : Origins] \cup
            [op : {"patch"}, id : Ids, key : Keys \cup {NoKey},
             opt : Opts \cup {NoOpt}] \cup
            [op : {"delete"}, id : Ids]
Sending  == {"create", "patch", "delete"}

TypeOK ==
    /\ conn \in [Ids -> Conns]
    /\ pending \subseteq Ids \cup {Sibling}
    /\ failed \in BOOLEAN
    /\ install \in {"none", "installing", "ready", "failed"}
    /\ wire \subseteq Requests
    /\ others \in 0..MaxOthers
    /\ want \in Configs
    /\ pc \in Sending \cup {"idle", "refresh", "wait", "gwWait"}
    /\ asked \in BOOLEAN
    /\ replacing \in BOOLEAN
    /\ state \in States
    /\ resp \in States
    /\ clean \in BOOLEAN
    /\ freed \subseteq Ids
    /\ state.id = NoId => state = NoState

\* Nothing reads the rest of a row that is not live.
Blank(life) == [life |-> life, key |-> CHOOSE k \in Keys : TRUE, ver |-> 0,
                opt |-> CHOOSE o \in Opts : TRUE, origin |-> "foreign"]

Live(i) == i \in Ids /\ conn[i].life = "live"

-----------------------------------------------------------------------------
(* The provider: requests.                                                 *)

\* vpnIpsecUpdateBody: only what differs from the state.
PatchBody ==
    [op |-> "patch", id |-> state.id,
     key |-> IF want.key # state.key THEN want.key ELSE NoKey,
     opt |-> IF want.opt # state.opt THEN want.opt ELSE NoOpt]

Request ==
    IF pc = "create"
      THEN [op |-> "create", key |-> want.key, opt |-> want.opt, origin |-> "ours"]
    ELSE IF pc = "patch" THEN PatchBody
    ELSE [op |-> "delete", id |-> state.id]

Heard(r) == asked /\ r = Request

\* What is carried out may still be answered with a 5xx: then the call goes on
\* as if it had heard nothing.
Answered(r, clear) == clear /\ Heard(r)

Send ==
    /\ pc \in Sending /\ ~asked
    /\ asked' = TRUE
    /\ wire' = wire \cup {Request}
    /\ UNCHANGED <<platform, others, want, pc, replacing, state, resp, clean,
                   freed>>

\* After a 5xx the transport sends an update or a delete again; a create never.
Resend ==
    /\ pc \in {"patch", "delete"} /\ asked
    /\ Request \notin wire
    /\ wire' = wire \cup {Request}
    /\ UNCHANGED <<platform, others, want, pc, asked, replacing, state, resp,
                   clean, freed>>

\* The call returns with the state st.
Return(st, ok) ==
    /\ pc' = "idle"
    /\ clean' = (clean /\ ok)
    /\ asked' = FALSE
    /\ replacing' = FALSE
    /\ state' = st
    /\ resp' = NoState

\* An error before anything was saved: the state stays as it was.
Fail == Return(state, FALSE) /\ UNCHANGED <<want, freed>>

Marked(r, how) ==
    IF r.op = "create" /\ r.origin = "ours" THEN [r EXCEPT !.origin = how] ELSE r

\* A call is over while its request may still be on its way.
MayBeLate == Cardinality(wire) <= MaxLate

\* What this call recorded, and what of it is still on its way, is out of its hands.
LetGo(how) ==
    /\ wire' = { Marked(r, how) : r \in wire }
    /\ conn' = [i \in Ids |->
                  IF conn[i].life = "live" /\ conn[i].origin = "ours" /\ i # state.id
                    THEN [conn[i] EXCEPT !.origin = how] ELSE conn[i]]

\* Mutant: a 5xx is waited out like the refusals that recorded nothing.
UncertainRetried ==
    /\ asked' = FALSE
    /\ UNCHANGED <<wire, conn, pc, want, replacing, state, resp, clean, freed>>

\* vpnIpsecUncertain: a transport error, an expired context or a 5xx to the one
\* attempt of a create.  The message names what may have been left behind.
Uncertain == LetGo("told") /\ Fail

CreateLost ==
    /\ pc = "create" /\ asked /\ MayBeLate
    /\ Uncertain
    /\ UNCHANGED <<pending, failed, install, others>>

AnswerLost ==
    /\ pc \in {"patch", "delete"} /\ asked /\ MayBeLate
    /\ Fail
    /\ UNCHANGED <<platform, wire, others>>

\* retryWait takes every 429 for a refusal that recorded nothing and the create is
\* sent again, though the client says that a 429 does not establish that: the
\* first copy may be recorded, now or later.  (An update recorded behind a 429 is
\* Patch without a clear answer, then Resend.)
Throttled ==
    /\ pc = "create" /\ asked /\ MayBeLate
    /\ LetGo("untold")
    /\ asked' = FALSE
    /\ UNCHANGED <<pending, failed, install, others, want, pc, replacing, state,
                   resp, clean, freed>>

\* Before the send: the list of the connections cannot be read, or the time for
\* waiting out the refusals is over.
GiveUp ==
    /\ pc \in {"create", "patch"} /\ ~asked
    /\ Fail
    /\ UNCHANGED <<platform, wire, others>>

-----------------------------------------------------------------------------
(* The platform (outside this repository).                                 *)

Leave(r) ==
    /\ r \in wire
    /\ wire' = wire \ {r}
    /\ UNCHANGED <<others, want, freed>>

\* A change nobody here waits for counts as somebody else's.
CleanAfter(r) == clean' = (clean /\ Heard(r))

Refuse(r) ==
    /\ Leave(r)
    /\ IF Heard(r) THEN Return(state, FALSE)
                   ELSE UNCHANGED <<pc, asked, replacing, state, resp, clean>>
    /\ UNCHANGED platform

\* 409 ipsec_installing, or a 429 that did refuse: the write is sent again.
TurnAway(r) ==
    /\ Leave(r)
    /\ r.op \in {"create", "patch"}
    /\ asked' = (asked /\ ~Heard(r))
    /\ UNCHANGED <<platform, pc, replacing, state, resp, clean>>

Unconfirmed(ids) ==
    /\ pending' = pending \cup ids
    /\ failed' = FALSE

Free == /\ \A i \in Ids : ~Live(i)     \* or: name_taken
        /\ pending \cap Ids = {}       \* or: destination_overlap

Made(i, key, opt, origin) ==
    /\ Free /\ install \in {"none", "ready"}
    /\ conn[i].life = "unused"
    /\ \A j \in 1..(i - 1) : conn[j].life # "unused"
    /\ conn' = [conn EXCEPT ![i] = [life |-> "live", key |-> key, ver |-> 1,
                                    opt |-> opt, origin |-> origin]]
    /\ Unconfirmed({i})
    /\ install' = IF install = "none" THEN "installing" ELSE install

\* Create saves the id, the key and the key's version, then waits.
Record(r, i, clear) ==
    /\ r.op = "create" /\ Leave(r)
    /\ Made(i, r.key, r.opt, r.origin)
    /\ IF Answered(r, clear)
         THEN /\ pc' = "wait" /\ asked' = FALSE
              /\ resp' = [id |-> i, key |-> want.key, ver |-> 1, opt |-> r.opt,
                          tainted |-> FALSE]
         ELSE UNCHANGED <<pc, asked, resp>>
    /\ CleanAfter(r)
    /\ UNCHANGED <<replacing, state>>

\* An unchanged value changes nothing.
Merged(c, r) ==
    LET key == IF r.key = NoKey THEN c.key ELSE r.key
        opt == IF r.opt = NoOpt THEN c.opt ELSE r.opt
    IN  [c EXCEPT !.key = key, !.opt = opt,
                  !.ver = IF key = c.key THEN c.ver ELSE c.ver + 1]

\* Mutant: every update records the key's version.
RecordedVerAlways(r, ver) == ver

\* Mutant: no update does.
RecordedVerNever(r, ver) == state.ver

\* setPSKVersion: only an update that sent the key records its version.
RecordedVer(r, ver) == IF r.key # NoKey THEN ver ELSE state.ver

\* Update takes what it returns from the answer and the plan.
Patch(r, clear) ==
    /\ r.op = "patch" /\ Leave(r)
    /\ Live(r.id) /\ install = "ready"
    /\ conn' = [conn EXCEPT ![r.id] = Merged(conn[r.id], r)]
    /\ IF conn' = conn THEN UNCHANGED <<pending,
                                        failed>> ELSE Unconfirmed({r.id})
    /\ IF Answered(r, clear)
         THEN /\ pc' = "wait" /\ asked' = FALSE
              /\ resp' = [state EXCEPT !.key = want.key, !.opt = conn'[r.id].opt,
                                       !.ver = RecordedVer(r, conn'[r.id].ver)]
         ELSE UNCHANGED <<pc, asked, resp>>
    /\ CleanAfter(r)
    /\ UNCHANGED <<install, replacing, state>>

\* The removal is recorded; the networks stay reserved until it is confirmed.
Remove(r, clear) ==
    /\ r.op = "delete" /\ Leave(r)
    /\ Live(r.id)
    /\ conn' = [conn EXCEPT ![r.id] = Blank("removed")]
    /\ Unconfirmed({r.id})
    /\ IF Answered(r, clear) THEN pc' = "gwWait" /\ asked' = FALSE
                   ELSE UNCHANGED <<pc, asked>>
    /\ CleanAfter(r)
    /\ UNCHANGED <<install, replacing, state, resp>>

Installed ==
    /\ install = "installing"
    /\ install' \in {"ready", "failed"}
    /\ UNCHANGED <<conn, pending, failed, wire, others, want, pc, asked,
                   replacing, state, resp, clean, freed>>

Repaired ==
    /\ install = "failed" /\ install' = "ready"
    /\ UNCHANGED <<conn, pending, failed, wire, others, want, pc, asked,
                   replacing, state, resp, clean, freed>>

\* The node confirms a generation (all that is left is newer), or fails it.
NodeAnswers ==
    /\ install = "ready" /\ pending # {}
    /\ \/ failed' = FALSE /\ pending' \in SUBSET pending /\ pending' # pending
       \/ failed' = TRUE /\ UNCHANGED pending
    /\ UNCHANGED <<conn, install, wire, others, want, pc, asked, replacing,
                   state, resp, clean, freed>>

Other ==
    /\ others < MaxOthers
    /\ others' = others + 1
    /\ UNCHANGED <<wire, want, pc, asked, replacing, state, resp, freed>>

Rotate(i, key) ==
    /\ Other
    /\ Live(i) /\ key # conn[i].key
    /\ conn' = [conn EXCEPT ![i].key = key, ![i].ver = @ + 1]
    /\ Unconfirmed({i})
    /\ clean' = FALSE
    /\ UNCHANGED install

OtherRemoves(i) ==
    /\ Other
    /\ Live(i)
    /\ conn' = [conn EXCEPT ![i] = Blank("removed")]
    /\ Unconfirmed({i})
    /\ clean' = FALSE
    /\ UNCHANGED install

OtherCreates(i) ==
    /\ Other
    /\ \E key \in Keys, opt \in Opts : Made(i, key, opt, "foreign")
    /\ UNCHANGED clean

SiblingWrites ==
    /\ Other
    /\ install = "ready"
    /\ Unconfirmed({Sibling})
    /\ UNCHANGED <<conn, install, clean>>

-----------------------------------------------------------------------------
(* The provider: what happens between the requests.                        *)

localOnly == <<platform, wire, others, want>>

\* (Bound: the configuration only moves forward.)
Edit ==
    /\ pc = "idle"
    /\ \E c \in Configs : /\ c # want
                          /\ c.key >= want.key /\ c.opt >= want.opt
                          /\ want' = c
    /\ clean' = FALSE
    /\ UNCHANGED <<platform, wire, others, pc, asked, replacing, state, resp,
                   freed>>

Apply ==
    /\ pc = "idle"
    /\ pc' = IF state.id = NoId THEN "create" ELSE "refresh"
    /\ clean' = TRUE
    /\ UNCHANGED <<localOnly, asked, replacing, state, resp, freed>>

UserDestroys ==
    /\ pc = "idle" /\ state.id # NoId
    /\ pc' = "delete" /\ replacing' = FALSE
    /\ clean' = FALSE
    /\ UNCHANGED <<localOnly, asked, state, resp, freed>>

\* The advice of uncertainCreateMessage, for a connection that is theirs, or what
\* they do when the next apply finds the name taken.  It is this block's from here.
Import(i) ==
    /\ pc = "idle" /\ state.id = NoId
    /\ Live(i) /\ conn[i].origin \in {"told", "untold"}
    /\ conn' = [conn EXCEPT ![i].origin = "ours"]
    /\ state' = [NoState EXCEPT !.id = i, !.opt = conn[i].opt]
    /\ clean' = FALSE
    /\ UNCHANGED <<pending, failed, install, wire, others, want, pc, asked,
                   replacing, resp, freed>>

\* The provider or Terraform is killed: what the call would have returned is lost.
Killed ==
    /\ pc # "idle" /\ MayBeLate
    /\ LetGo("untold")
    /\ Fail
    /\ UNCHANGED <<pending, failed, install, others>>

\* Mutant: Read keeps the stored key.
KeyReadBlind(st) == st.key

\* Read: a key version other than the recorded one drops the key.
KeyRead(st) ==
    IF st.ver # NoVer /\ conn[st.id].ver # st.ver THEN NoKey ELSE st.key

ReadState(st) == [st EXCEPT !.key = KeyRead(st), !.opt = conn[st.id].opt]

\* Mutant: only the id is dropped.
ForgottenId(st) == [st EXCEPT !.id = NoId]

\* RemoveResource.
Forgotten(st) == NoState

\* What Terraform does about the differences it finds.
Planned(st) ==
    IF st.tainted THEN "delete"
    ELSE IF st.key # want.key \/ st.opt # want.opt THEN "patch" ELSE "idle"

Refresh ==
    /\ pc = "refresh"
    /\ \/ /\ ~Live(state.id)
          /\ pc' = "create"
          /\ state' = Forgotten(state)
          /\ UNCHANGED replacing
       \/ /\ Live(state.id)
          /\ state' = ReadState(state)
          /\ pc' = Planned(state')
          /\ replacing' = state.tainted
    /\ UNCHANGED <<localOnly, asked, resp, clean, freed>>

RefreshFails ==
    /\ pc = "refresh"
    /\ Fail
    /\ UNCHANGED <<platform, wire, others>>

\* Create and Update both save what they have; a failed create taints.
WaitOver(st, ok) ==
    /\ Return([st EXCEPT !.tainted = ~ok /\ state.id = NoId], ok)
    /\ UNCHANGED <<localOnly, freed>>

\* Mutant: the install state of the gateway is not looked at.
PollBlind(i) ==
    IF i \notin pending THEN "applied" ELSE IF failed THEN "failed" ELSE "pending"

\* waitApplied's poll of a connection that is there.
Poll(i) ==
    IF i \notin pending THEN "applied"
    ELSE IF failed \/ install = "failed" THEN "failed" ELSE "pending"

\* Terraform refuses a result that is not the plan.
Wait ==
    /\ pc = "wait"
    /\ IF Live(resp.id)
         THEN LET st == [resp EXCEPT !.opt = conn[resp.id].opt]
              IN  /\ Poll(resp.id) # "pending"
                  /\ WaitOver(st, Poll(resp.id) = "applied" /\ st.opt = want.opt)
         ELSE WaitOver(resp, FALSE)

\* A read fails or the timeout passes.
WaitFails ==
    /\ pc = "wait"
    /\ WaitOver(resp, FALSE)

\* The resource leaves the state, with or without a warning.
Gone ==
    /\ state' = Forgotten(state) /\ resp' = NoState /\ asked' = FALSE
    /\ pc' = IF replacing THEN "create" ELSE "idle"
    /\ replacing' = FALSE
    /\ UNCHANGED <<others, want, clean>>

\* Mutant: a connection that is not found has nothing to wait for.
NotFoundHasty(r) ==
    /\ Gone
    /\ freed' = freed \cup {r.id}

\* A 404 may answer the second copy of a recorded delete.
NotFound(r) ==
    /\ pc' = "gwWait" /\ asked' = FALSE
    /\ UNCHANGED <<others, want, replacing, state, resp, clean, freed>>

DeleteAgain(r, clear) ==
    /\ r.op = "delete" /\ r \in wire
    /\ wire' = wire \ {r}
    /\ ~Live(r.id)
    /\ IF Answered(r, clear) THEN NotFound(r)
       ELSE UNCHANGED <<others, want, pc, asked, replacing, state, resp, clean,
                        freed>>
    /\ UNCHANGED platform

\* waitGatewayApplied: the applied generation has caught up.
Confirmed ==
    /\ pc = "gwWait"
    /\ ~failed /\ pending = {}
    /\ Gone
    /\ freed' = freed \cup {state.id}
    /\ UNCHANGED <<platform, wire>>

\* A failed apply, a failed read or the timeout: a warning, and still deleted.
NotConfirmed ==
    /\ pc = "gwWait"
    /\ Gone
    /\ UNCHANGED <<platform, wire, freed>>

-----------------------------------------------------------------------------
Init ==
    /\ want \in Configs /\ \A c \in Configs : c.key >= want.key /\ c.opt >= want.opt
    /\ conn = [i \in Ids |-> Blank("unused")]
    /\ pending = {} /\ failed = FALSE /\ install = "none"
    /\ wire = {} /\ others = 0
    /\ pc = "idle" /\ asked = FALSE /\ replacing = FALSE
    /\ state = NoState /\ resp = NoState
    /\ clean = FALSE /\ freed = {}

\* What the provider and Terraform do unasked, and without a failure.
Provider == Apply \/ Send \/ Refresh \/ Wait \/ Confirmed

Failure ==
    CreateLost \/ AnswerLost \/ Throttled \/ GiveUp \/ RefreshFails \/ WaitFails
    \/ NotConfirmed \/ Killed

Handle(r) ==
    \/ \E clear \in BOOLEAN :
          \/ \E i \in Ids : Record(r, i, clear)
          \/ Patch(r, clear) \/ Remove(r, clear) \/ DeleteAgain(r, clear)
    \/ TurnAway(r) \/ Refuse(r)

Platform ==
    \/ \E r \in wire : Handle(r)
    \/ Installed \/ Repaired \/ NodeAnswers
    \/ \E i \in Ids :
          OtherRemoves(i) \/ OtherCreates(i) \/ \E key \in Keys : Rotate(i, key)
    \/ SiblingWrites

User == Edit \/ UserDestroys \/ \E i \in Ids : Import(i)

Next == Provider \/ Resend \/ Failure \/ Platform \/ User

Spec == Init /\ [][Next]_vars

\* Somebody keeps applying, the provider runs on, the installation and the node
\* come to an end, and every answer comes or is given up.  Reads and requests do
\* not fail, and are not killed before they are sent, for ever.  No timeout is
\* relied on.
FairSpec ==
    /\ Spec
    /\ WF_vars(Provider)
    /\ WF_vars(Installed \/ NodeAnswers)
    /\ WF_vars(asked /\ (CreateLost \/ AnswerLost \/ Refuse(Request)))
    /\ SF_vars(Refresh)
    /\ SF_vars(Send)
    /\ SF_vars(\E r \in wire : Patch(r, TRUE))

-----------------------------------------------------------------------------
(* Properties.                                                             *)

\* The key is never returned, so the state's word for it must hold: whenever the
\* recorded version is the platform's, so is the stored key.
KeyTrusted ==
    Live(state.id) /\ state.key # NoKey /\ state.ver = conn[state.id].ver =>
       conn[state.id].key = state.key

\* A successful apply leaves nothing to do, unless others did something.
EmptyPlan ==
    pc = "idle" /\ clean /\ Live(state.id) => Planned(ReadState(state)) = "idle"

\* A connection this block made is tracked, about to be, or one the
\* practitioner has been told of.  By name not ("untold"): what a killed provider
\* recorded, and what was recorded behind a 429.
NoSilentOrphan ==
    \A i \in Ids :
       Live(i) /\ conn[i].origin = "ours" =>
          i \in {state.id, resp.id} \/ (pc = "create" /\ asked)

\* A delete without a warning left the networks free for a replacement.
FreedMeansFree == \A i \in freed : ~Live(i) /\ i \notin pending

\* The wait for the gateway ends by itself, a broken installation included.
WaitEnds == pc = "wait" ~> pc # "wait"

\* Whatever happens to the key outside Terraform, applying sets it back, unless
\* the connection is on its way out.
KeyHealed ==
    \A i \in Ids :
       state.id = i /\ Live(i) ~>
          \/ state.id # i \/ ~Live(i) \/ pc = "delete"
          \/ conn[i].key = want.key
          \/ install = "failed"
=============================================================================
