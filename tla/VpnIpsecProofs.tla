--------------------------- MODULE VpnIpsecProofs ---------------------------
(***************************************************************************)
(* For any number of connections, keys, attribute values, steps of others  *)
(* and late requests: the types of VpnIpsec, that the stored key is the    *)
(* platform's whenever the versions agree, that no connection is left      *)
(* behind without a word, that a confirmed delete left the networks free,  *)
(* and that a successful apply leaves nothing to plan.                     *)
(***************************************************************************)
EXTENDS VpnIpsec, TLAPS

\* What each position of the call holds.
Positioned ==
    /\ asked => pc \in Sending
    /\ pc \in {"refresh", "patch", "delete", "gwWait"} => state.id \in Ids
    /\ pc = "create" => state = NoState
    /\ pc = "wait" => resp.id \in Ids /\ state.id \in {NoId, resp.id}
    /\ pc # "wait" => resp = NoState
    /\ pc = "gwWait" => conn[state.id].life = "removed"

\* An id that is held is that of a connection made before.
Met(st) == st.id # NoId => conn[st.id].life # "unused"

\* The recorded version is never ahead of the platform's, and stands for the
\* key stored with it.
KeyFits(st) ==
    Live(st.id) =>
       /\ st.ver <= conn[st.id].ver
       /\ st.key # NoKey /\ st.ver = conn[st.id].ver => conn[st.id].key = st.key

\* While a create is on its way whose call still waits, nothing of this block's
\* making stands on the platform.
OneCreate ==
    \A r \in wire : r.op = "create" /\ r.origin = "ours" =>
       /\ pc = "create" /\ asked /\ r.key = want.key /\ r.opt = want.opt
       /\ \A i \in Ids : Live(i) => conn[i].origin # "ours"

\* A confirmed removal is final.
Removed == \A i \in freed : conn[i].life = "removed" /\ i \notin pending

\* The version is the platform's, or none is recorded.
Current(st) == st.ver \in {NoVer, conn[st.id].ver}

\* What an undisturbed call knows at the positions it may return from.
CleanAt ==
    clean =>
       /\ pc = "idle" /\ Live(state.id) =>
             /\ ~state.tainted /\ state.key = want.key
             /\ conn[state.id].opt = want.opt
             /\ Current(state)
       /\ pc = "patch" /\ Live(state.id) =>
             state.key # want.key \/ Current(state)
       /\ pc = "wait" /\ Live(resp.id) =>
             resp.key = want.key /\ Current(resp)

\* The inductive invariant.
IInv ==
    /\ TypeOK
    /\ Positioned
    /\ Met(state) /\ Met(resp)
    /\ KeyFits(state) /\ KeyFits(resp)
    /\ OneCreate
    /\ NoSilentOrphan
    /\ Removed
    /\ CleanAt

-----------------------------------------------------------------------------
(* Types.                                                                  *)

LEMMA IdsFacts == Ids \subseteq Nat /\ NoId \notin Ids /\ Sibling \notin Ids
BY ConnsAssumption DEF Ids, NoId, Sibling

LEMMA NoStateType == NoState \in States
BY DEF NoState, States, NoId, NoKey, NoVer, NoOpt

LEMMA BlankType ==
    ASSUME NEW life \in Lives
    PROVE  Blank(life) \in Conns /\ Blank(life).life = life
                                /\ Blank(life).origin = "foreign"
<1>1. (CHOOSE k \in Keys : TRUE) \in Keys
  BY KeysAssumption
<1>2. (CHOOSE o \in Opts : TRUE) \in Opts
  BY OptsAssumption
<1> QED
  BY <1>1, <1>2 DEF Blank, Conns, Origins

LEMMA RequestType ==
    ASSUME TypeOK, Positioned, pc \in Sending
    PROVE  Request \in Requests
<1>1. CASE pc = "create"
  BY <1>1 DEF Request, Requests, TypeOK, Configs, Origins
<1>2. CASE pc = "patch"
  <2>1. state.id \in Ids /\ want.key \in Keys /\ want.opt \in Opts
    BY <1>2 DEF Positioned, TypeOK, Configs
  <2> QED
    BY <1>2, <2>1 DEF Request, Requests, PatchBody, NoKey, NoOpt
<1>3. CASE pc = "delete"
  BY <1>3 DEF Request, Requests, Positioned, TypeOK
<1> QED
  BY <1>1, <1>2, <1>3 DEF Sending

-----------------------------------------------------------------------------
(* What the platform's steps have in common.                               *)

\* A connection is made, changed or removed; a version stands for one key.
Evolves ==
    \A i \in Ids :
       \/ conn'[i] = conn[i]
       \/ conn[i].life = "unused" /\ conn'[i].life = "live"
       \/ conn[i].life = "live" /\ conn'[i].life = "removed"
       \/ /\ conn[i].life = "live" /\ conn'[i].life = "live"
          /\ conn[i].ver <= conn'[i].ver
          /\ conn'[i].ver = conn[i].ver => conn'[i].key = conn[i].key

\* What a state says of a connection outlives the changes of it.
LEMMA StateOutlives ==
    ASSUME TypeOK, TypeOK', Evolves, NEW st \in States, Met(st), KeyFits(st)
    PROVE  Met(st)' /\ KeyFits(st)'
<1>1. CASE st.id = NoId
  BY <1>1, IdsFacts DEF Met, KeyFits, Live
<1>2. CASE st.id # NoId
  <2>1. st.id \in Ids /\ st.ver \in Nat
    BY <1>2 DEF States
  <2>2. conn[st.id] \in Conns /\ conn'[st.id] \in Conns
    BY <2>1 DEF TypeOK
  <2>3. conn[st.id].ver \in Nat /\ conn'[st.id].ver \in Nat
    BY <2>2 DEF Conns
  <2>4. conn[st.id].life # "unused"
    BY <1>2 DEF Met
  <2>5. Met(st)'
    BY <2>1, <2>4 DEF Met, Evolves
  <2>6. KeyFits(st)'
    BY <2>1, <2>3, <2>4 DEF KeyFits, Live, Evolves
  <2> QED
    BY <2>5, <2>6
<1> QED
  BY <1>1, <1>2

\* A step in which the call stays where it is.
CallStays == UNCHANGED <<want, pc, asked, replacing, state, resp, freed>>

LEMMA PlatformKeeps ==
    ASSUME IInv, TypeOK', Evolves, CallStays,
           \A i \in pending' \cap Ids : i \in pending \/ conn[i].life # "removed"
    PROVE  /\ Positioned' /\ Removed'
           /\ Met(state)' /\ Met(resp)' /\ KeyFits(state)' /\ KeyFits(resp)'
<1>1. TypeOK /\ state \in States /\ resp \in States
  BY DEF IInv, TypeOK
<1>2. Positioned'
  BY <1>1, IdsFacts DEF IInv, CallStays, Positioned, Evolves
<1>3. freed \subseteq Ids
  BY <1>1 DEF TypeOK
<1>4. Removed'
  BY <1>3 DEF IInv, CallStays, Removed, Evolves
<1>5. Met(state)' /\ KeyFits(state)'
  BY <1>1, StateOutlives DEF IInv, CallStays, Met, KeyFits, Live
<1>6. Met(resp)' /\ KeyFits(resp)'
  BY <1>1, StateOutlives DEF IInv, CallStays, Met, KeyFits, Live
<1> QED
  BY <1>2, <1>4, <1>5, <1>6

\* Steps that make nothing of this block's own.
NoneMade ==
    \A i \in Ids : Live(i)' /\ conn'[i].origin = "ours"
                      => Live(i) /\ conn[i].origin = "ours"

LEMMA NoneMadeKeeps ==
    ASSUME IInv, CallStays, NoneMade, wire' \subseteq wire
    PROVE  OneCreate' /\ NoSilentOrphan'
<1>1. OneCreate'
  BY DEF IInv, OneCreate, CallStays, NoneMade, Live
<1>2. NoSilentOrphan'
  BY DEF IInv, NoSilentOrphan, CallStays, NoneMade, Live
<1> QED
  BY <1>1, <1>2

\* Steps after which the call is disturbed, or that leave its connection alone.
LEMMA ApartKeeps ==
    ASSUME IInv, CallStays,
           clean' => /\ clean
                     /\ \A i \in {state.id, resp.id} \cap Ids : Live(i)' => conn'[i] = conn[i]
    PROVE  CleanAt'
<1> SUFFICES ASSUME clean' PROVE CleanAt'
  BY DEF CleanAt
<1>1. \A i \in {state.id, resp.id} : Live(i)' => Live(i) /\ conn'[i] = conn[i]
  BY DEF Live
<1>2. clean /\ CleanAt
  BY DEF IInv
<1> QED
  BY <1>1, <1>2 DEF CleanAt, CallStays, Current, Live

-----------------------------------------------------------------------------
(* The platform by itself, and the others.                                 *)

\* Nothing but the pending writes and the installation moves.
LEMMA NodeKeeps ==
    ASSUME IInv, Installed \/ Repaired \/ NodeAnswers
    PROVE  IInv'
<1>1. TypeOK
  BY DEF IInv
<1>2. TypeOK'
  BY <1>1 DEF Installed, Repaired, NodeAnswers, TypeOK
<1>3. /\ CallStays /\ conn' = conn /\ wire' = wire /\ clean' = clean
      /\ pending' \subseteq pending
  BY DEF Installed, Repaired, NodeAnswers, CallStays
<1>4. Evolves /\ NoneMade
  BY <1>3 DEF Evolves, NoneMade, Live
<1>5. OneCreate' /\ NoSilentOrphan'
  BY <1>3, <1>4, NoneMadeKeeps
<1>6. CleanAt'
  BY <1>3, ApartKeeps
<1> QED
  BY <1>2, <1>3, <1>4, <1>5, <1>6, PlatformKeeps DEF IInv

LEMMA OtherCounts ==
    ASSUME TypeOK, Other
    PROVE  others' \in 0..MaxOthers
BY OthersAssumption DEF Other, TypeOK

LEMMA SiblingKeeps ==
    ASSUME IInv, SiblingWrites
    PROVE  IInv'
<1>1. TypeOK
  BY DEF IInv
<1>2. TypeOK'
  BY <1>1, OtherCounts DEF SiblingWrites, Other, Unconfirmed, TypeOK
<1>3. CallStays /\ conn' = conn /\ wire' = wire /\ clean' = clean
  BY DEF SiblingWrites, Other, CallStays
<1>4. \A i \in pending' \cap Ids : i \in pending
  BY IdsFacts DEF SiblingWrites, Unconfirmed
<1>5. Evolves /\ NoneMade
  BY <1>3 DEF Evolves, NoneMade, Live
<1>6. OneCreate' /\ NoSilentOrphan'
  BY <1>3, <1>5, NoneMadeKeeps
<1>7. CleanAt'
  BY <1>3, ApartKeeps
<1> QED
  BY <1>2, <1>3, <1>4, <1>5, <1>6, <1>7, PlatformKeeps DEF IInv

LEMMA RotateKeeps ==
    ASSUME IInv, NEW i \in Ids, NEW key \in Keys, Rotate(i, key)
    PROVE  IInv'
<1>1. TypeOK /\ conn[i] \in Conns
  BY DEF IInv, TypeOK
<1>2. conn' = [conn EXCEPT ![i].key = key, ![i].ver = @ + 1]
  BY DEF Rotate
<1>3. /\ conn'[i] = [conn[i] EXCEPT !.key = key, !.ver = @ + 1]
      /\ \A j \in Ids : j # i => conn'[j] = conn[j]
  BY <1>1, <1>2 DEF TypeOK
<1>4. /\ conn[i].ver \in Nat
      /\ conn'[i] = [life |-> conn[i].life, key |-> key, ver |-> conn[i].ver + 1,
                     opt |-> conn[i].opt, origin |-> conn[i].origin]
  BY <1>1, <1>3 DEF Conns
<1>5. conn'[i] \in Conns
  BY <1>1, <1>4 DEF Conns
<1>6. conn' \in [Ids -> Conns]
  BY <1>1, <1>2, <1>3, <1>5 DEF TypeOK
<1>7. TypeOK'
  BY <1>1, <1>6, OtherCounts DEF Rotate, Other, Unconfirmed, TypeOK
<1>8. CallStays /\ wire' = wire /\ clean' = FALSE /\ conn[i].life = "live"
  BY DEF Rotate, Other, CallStays, Live
<1>9. \A j \in pending' \cap Ids : j \in pending \/ conn[j].life # "removed"
  BY <1>8 DEF Rotate, Unconfirmed
<1>10. Evolves /\ NoneMade
  BY <1>3, <1>4, <1>5, <1>8 DEF Evolves, NoneMade, Live
<1>11. OneCreate' /\ NoSilentOrphan'
  BY <1>8, <1>10, NoneMadeKeeps
<1>12. CleanAt'
  BY <1>8 DEF CleanAt
<1> QED
  BY <1>7, <1>8, <1>9, <1>10, <1>11, <1>12, PlatformKeeps DEF IInv

\* A connection becomes a blank row for good.
LEMMA BlankedRow ==
    ASSUME TypeOK, NEW i \in Ids, Live(i),
           conn' = [conn EXCEPT ![i] = Blank("removed")]
    PROVE  /\ conn' \in [Ids -> Conns]
           /\ conn'[i].life = "removed"
           /\ \A j \in Ids : j # i => conn'[j] = conn[j]
           /\ Evolves /\ NoneMade
<1>1. /\ Blank("removed") \in Conns /\ Blank("removed").life = "removed"
      /\ Blank("removed").origin = "foreign"
  BY BlankType DEF Lives
<1>2. conn'[i] = Blank("removed") /\ \A j \in Ids : j # i => conn'[j] = conn[j]
  BY DEF TypeOK
<1>3. conn' \in [Ids -> Conns]
  BY <1>1 DEF TypeOK
<1>4. Evolves
  BY <1>1, <1>2 DEF Evolves, Live
<1>5. NoneMade
  BY <1>1, <1>2 DEF NoneMade, Live
<1> QED
  BY <1>1, <1>2, <1>3, <1>4, <1>5

LEMMA OtherRemovesKeeps ==
    ASSUME IInv, NEW i \in Ids, OtherRemoves(i)
    PROVE  IInv'
<1>1. TypeOK /\ Live(i) /\ conn' = [conn EXCEPT ![i] = Blank("removed")]
  BY DEF IInv, OtherRemoves
<1>2. conn' \in [Ids -> Conns] /\ Evolves /\ NoneMade
  BY <1>1, BlankedRow
<1>3. TypeOK'
  BY <1>1, <1>2, OtherCounts DEF OtherRemoves, Other, Unconfirmed, TypeOK
<1>4. CallStays /\ wire' = wire /\ clean' = FALSE
  BY DEF OtherRemoves, Other, CallStays
<1>5. \A j \in pending' \cap Ids : j \in pending \/ conn[j].life # "removed"
  BY <1>1 DEF OtherRemoves, Unconfirmed, Live
<1>6. OneCreate' /\ NoSilentOrphan'
  BY <1>2, <1>4, NoneMadeKeeps
<1>7. CleanAt'
  BY <1>4 DEF CleanAt
<1> QED
  BY <1>2, <1>3, <1>4, <1>5, <1>6, <1>7, PlatformKeeps DEF IInv

\* A connection is made in a row nothing was in.
LEMMA MadeRow ==
    ASSUME TypeOK, NEW i \in Ids, NEW key \in Keys, NEW opt \in Opts,
           NEW origin \in Origins, Made(i, key, opt, origin)
    PROVE  /\ conn' \in [Ids -> Conns]
           /\ pending' \subseteq Ids \cup {Sibling}
           /\ failed' \in BOOLEAN
           /\ install' \in {"none", "installing", "ready", "failed"}
           /\ conn'[i] = [life |-> "live", key |-> key, ver |-> 1, opt |-> opt,
                          origin |-> origin]
           /\ conn[i].life = "unused"
           /\ \A j \in Ids : j # i => conn'[j] = conn[j]
           /\ \A j \in pending' \cap Ids : j \in pending \/ conn[j].life # "removed"
           /\ Evolves
<1>1. [life |-> "live", key |-> key, ver |-> 1, opt |-> opt,
       origin |-> origin] \in Conns
  BY DEF Conns, Lives
<1>2. /\ conn'[i] = [life |-> "live", key |-> key, ver |-> 1, opt |-> opt,
                     origin |-> origin]
      /\ \A j \in Ids : j # i => conn'[j] = conn[j]
      /\ conn' \in [Ids -> Conns]
  BY <1>1 DEF Made, TypeOK
<1>3. conn[i].life = "unused"
  BY DEF Made
<1>4. /\ \A j \in pending' \cap Ids : j \in pending \/ conn[j].life # "removed"
      /\ pending' \subseteq Ids \cup {Sibling} /\ failed' \in BOOLEAN
  BY <1>3 DEF Made, Unconfirmed, TypeOK
<1>5. install' \in {"none", "installing", "ready", "failed"}
  BY DEF Made, TypeOK
<1>6. Evolves
  BY <1>2, <1>3 DEF Evolves
<1> QED
  BY <1>2, <1>3, <1>4, <1>5, <1>6

LEMMA OtherCreatesKeeps ==
    ASSUME IInv, NEW i \in Ids, OtherCreates(i)
    PROVE  IInv'
<1>1. TypeOK /\ Met(state) /\ Met(resp)
  BY DEF IInv
<1>2. PICK key \in Keys, opt \in Opts : Made(i, key, opt, "foreign")
  BY DEF OtherCreates
<1>3. "foreign" \in Origins
  BY DEF Origins
<1>4. conn'[i] = [life |-> "live", key |-> key, ver |-> 1, opt |-> opt,
                   origin |-> "foreign"]
  BY <1>1, <1>2, <1>3, MadeRow
<1>5. conn'[i].origin = "foreign"
  BY <1>4
<1>6. /\ conn' \in [Ids -> Conns]
      /\ pending' \subseteq Ids \cup {Sibling}
      /\ failed' \in BOOLEAN
      /\ install' \in {"none", "installing", "ready", "failed"}
      /\ conn[i].life = "unused"
      /\ \A j \in Ids : j # i => conn'[j] = conn[j]
      /\ \A j \in pending' \cap Ids : j \in pending \/ conn[j].life # "removed"
      /\ Evolves
  BY <1>1, <1>2, <1>3, MadeRow
<1>7. CallStays /\ wire' = wire /\ clean' = clean
  BY DEF OtherCreates, Other, CallStays
<1>8. TypeOK'
  BY <1>1, <1>6, <1>7, OtherCounts DEF OtherCreates, Other, CallStays, TypeOK
<1>9. NoneMade
  BY <1>6, <1>5 DEF NoneMade, Live
<1>10. OneCreate' /\ NoSilentOrphan'
  BY <1>7, <1>9, NoneMadeKeeps
<1>11. \A j \in {state.id, resp.id} \cap Ids : j # i
  BY <1>1, <1>6, IdsFacts DEF Met
<1>12. CleanAt'
  BY <1>6, <1>7, <1>11, ApartKeeps
<1> QED
  BY <1>6, <1>7, <1>8, <1>10, <1>12, PlatformKeeps DEF IInv

-----------------------------------------------------------------------------
(* Requests that arrive.                                                   *)

LEMMA CreateFields ==
    ASSUME NEW r \in Requests, r.op = "create"
    PROVE  /\ r \in [op : {"create"}, key : Keys, opt : Opts, origin : Origins]
           /\ r.key \in Keys /\ r.opt \in Opts /\ r.origin \in Origins
BY DEF Requests

LEMMA PatchFields ==
    ASSUME NEW r \in Requests, r.op = "patch"
    PROVE  r.id \in Ids /\ r.key \in Keys \cup {NoKey} /\ r.opt \in Opts \cup {NoOpt}
BY DEF Requests

LEMMA DeleteFields ==
    ASSUME NEW r \in Requests, r.op = "delete"
    PROVE  r.id \in Ids
BY DEF Requests

\* A request is heard only by the call that sent it.
LEMMA HeardAt ==
    ASSUME Positioned, NEW r, Heard(r)
    PROVE  /\ asked /\ pc \in Sending /\ r.op = pc
           /\ pc = "create" => r = [op |-> "create", key |-> want.key,
                                    opt |-> want.opt, origin |-> "ours"]
           /\ pc = "patch" => r = PatchBody
           /\ pc = "delete" => r.id = state.id
<1>1. asked /\ pc \in Sending /\ r = Request
  BY DEF Heard, Positioned
<1>2. CASE pc = "create"
  BY <1>1, <1>2 DEF Request
<1>3. CASE pc = "patch"
  BY <1>1, <1>3 DEF Request, PatchBody
<1>4. CASE pc = "delete"
  BY <1>1, <1>4 DEF Request
<1> QED
  BY <1>1, <1>2, <1>3, <1>4 DEF Sending

\* There is one request of a create whose call still waits.
LEMMA OnlyOneCreate ==
    ASSUME TypeOK, OneCreate, NEW r \in wire, NEW q \in wire,
           r.op = "create", r.origin = "ours", q.op = "create", q.origin = "ours"
    PROVE  q = r
<1>1. r \in Requests /\ q \in Requests
  BY DEF TypeOK
<1>2. /\ r \in [op : {"create"}, key : Keys, opt : Opts, origin : Origins]
      /\ q \in [op : {"create"}, key : Keys, opt : Opts, origin : Origins]
  BY <1>1, CreateFields
<1>3. r.key = q.key /\ r.opt = q.opt
  BY DEF OneCreate
<1> QED
  BY <1>2, <1>3

\* A create that is recorded and not answered.
LEMMA RecordUnheardKeeps ==
    ASSUME IInv, NEW r \in wire, NEW i \in Ids, NEW clear \in BOOLEAN,
           Record(r, i, clear), ~Answered(r, clear)
    PROVE  IInv'
<1>1. TypeOK /\ Met(state) /\ Met(resp) /\ OneCreate /\ r \in Requests
  BY DEF IInv, TypeOK
<1>2. r.op = "create" /\ r.key \in Keys /\ r.opt \in Opts /\ r.origin \in Origins
  BY <1>1, CreateFields DEF Record
<1>3. Made(i, r.key, r.opt, r.origin)
  BY DEF Record
<1>4. /\ conn' \in [Ids -> Conns]
      /\ pending' \subseteq Ids \cup {Sibling}
      /\ failed' \in BOOLEAN
      /\ install' \in {"none", "installing", "ready", "failed"}
      /\ conn[i].life = "unused"
      /\ \A j \in Ids : j # i => conn'[j] = conn[j]
      /\ \A j \in pending' \cap Ids : j \in pending \/ conn[j].life # "removed"
      /\ Evolves
  BY <1>1, <1>2, <1>3, MadeRow
<1>5. conn'[i] = [life |-> "live", key |-> r.key, ver |-> 1, opt |-> r.opt,
                  origin |-> r.origin]
  BY <1>1, <1>2, <1>3, MadeRow
<1>6. conn'[i].origin = r.origin
  BY <1>5
<1>7. /\ CallStays /\ wire' = wire \ {r} /\ others' = others
      /\ clean' = (clean /\ Heard(r))
  BY DEF Record, Leave, CallStays, CleanAfter
<1>8. clean' \in BOOLEAN
  BY <1>1, <1>7 DEF TypeOK
<1>9. TypeOK'
  BY <1>1, <1>4, <1>7, <1>8 DEF CallStays, TypeOK
<1>10. OneCreate' /\ NoSilentOrphan'
  <2>1. CASE r.origin # "ours"
    <3>1. NoneMade
      BY <1>4, <1>6, <2>1 DEF NoneMade, Live
    <3> QED
      BY <3>1, <1>7, NoneMadeKeeps
  <2>2. CASE r.origin = "ours"
    <3>1. OneCreate'
      BY <1>1, <1>2, <1>7, <2>2, OnlyOneCreate DEF OneCreate
    <3>2. pc = "create" /\ asked
      BY <1>1, <1>2, <2>2 DEF OneCreate
    <3> QED
      BY <3>1, <3>2, <1>7 DEF CallStays, NoSilentOrphan
  <2> QED
    BY <2>1, <2>2
<1>11. \A j \in {state.id, resp.id} \cap Ids : j # i
  BY <1>1, <1>4, IdsFacts DEF Met
<1>12. CleanAt'
  BY <1>4, <1>7, <1>11, ApartKeeps
<1> QED
  BY <1>4, <1>7, <1>9, <1>10, <1>12, PlatformKeeps DEF IInv

\* A create that is answered: the call waits with the key it sent.
LEMMA RecordHeardKeeps ==
    ASSUME IInv, NEW r \in wire, NEW i \in Ids, NEW clear \in BOOLEAN,
           Record(r, i, clear), Answered(r, clear)
    PROVE  IInv'
<1>1. /\ TypeOK /\ Positioned /\ Met(state) /\ OneCreate /\ r \in Requests
      /\ Heard(r)
  BY DEF IInv, TypeOK, Answered
<1>2. r.op = "create" /\ r.key \in Keys /\ r.opt \in Opts
  BY <1>1, CreateFields DEF Record
<1>3. /\ pc = "create" /\ state = NoState
      /\ r.key = want.key /\ r.origin = "ours"
  BY <1>1, <1>2, HeardAt DEF Positioned
<1>4. Made(i, r.key, r.opt, "ours") /\ "ours" \in Origins
  BY <1>3 DEF Record, Origins
<1>5. /\ conn' \in [Ids -> Conns]
      /\ pending' \subseteq Ids \cup {Sibling}
      /\ failed' \in BOOLEAN
      /\ install' \in {"none", "installing", "ready", "failed"}
      /\ conn[i].life = "unused"
      /\ \A j \in Ids : j # i => conn'[j] = conn[j]
      /\ \A j \in pending' \cap Ids : j \in pending \/ conn[j].life # "removed"
      /\ Evolves
  BY <1>1, <1>2, <1>4, MadeRow
<1>6. conn'[i] = [life |-> "live", key |-> r.key, ver |-> 1, opt |-> r.opt,
                  origin |-> "ours"]
  BY <1>1, <1>2, <1>4, MadeRow
<1>7. /\ conn'[i].life = "live" /\ conn'[i].key = want.key
      /\ conn'[i].ver = 1
  BY <1>3, <1>6
<1>8. /\ pc' = "wait" /\ asked' = FALSE
      /\ resp' = [id |-> i, key |-> want.key, ver |-> 1, opt |-> r.opt,
                  tainted |-> FALSE]
      /\ wire' = wire \ {r}
      /\ clean' = (clean /\ Heard(r))
      /\ UNCHANGED <<others, want, replacing, state, freed>>
  BY DEF Record, Leave, CleanAfter
<1>9. resp' \in States
  BY <1>2, <1>3, <1>8 DEF States
<1>10. /\ resp'.id = i /\ resp'.key = want.key /\ resp'.ver = 1
  BY <1>8
<1>11. TypeOK'
  BY <1>1, <1>5, <1>8, <1>9 DEF TypeOK
<1>12. i # NoId /\ state.id = NoId
  BY <1>3, IdsFacts DEF NoState
<1>13. Positioned'
  BY <1>8, <1>10, <1>12 DEF Positioned
<1>14. Met(state)' /\ KeyFits(state)'
  BY <1>8, <1>12, IdsFacts DEF Met, KeyFits, Live
<1>15. Met(resp)' /\ KeyFits(resp)'
  BY <1>7, <1>10 DEF Met, KeyFits, Live
<1>16. OneCreate'
  BY <1>1, <1>2, <1>3, <1>8, OnlyOneCreate DEF OneCreate
<1>17. NoSilentOrphan'
  BY <1>1, <1>2, <1>3, <1>5, <1>10 DEF OneCreate, NoSilentOrphan, Live
<1>18. Removed'
  BY <1>1, <1>5, <1>8 DEF IInv, TypeOK, Removed, Evolves
<1>19. CleanAt'
  BY <1>7, <1>8, <1>10 DEF CleanAt, Current
<1> QED
  BY <1>11, <1>13, <1>14, <1>15, <1>16, <1>17, <1>18, <1>19 DEF IInv

\* What a patch makes of a connection.
LEMMA MergedFacts ==
    ASSUME NEW c \in Conns, NEW r, r.key \in Keys \cup {NoKey},
           r.opt \in Opts \cup {NoOpt}
    PROVE  /\ Merged(c, r) \in Conns
           /\ Merged(c, r).life = c.life /\ Merged(c, r).origin = c.origin
           /\ c.ver <= Merged(c, r).ver
           /\ Merged(c, r).ver = c.ver => Merged(c, r).key = c.key
           /\ r.key # NoKey => Merged(c, r).key = r.key
           /\ r.key = NoKey => Merged(c, r).ver = c.ver /\ Merged(c, r).key = c.key
<1> DEFINE key == IF r.key = NoKey THEN c.key ELSE r.key
           opt == IF r.opt = NoOpt THEN c.opt ELSE r.opt
           ver == IF key = c.key THEN c.ver ELSE c.ver + 1
<1>1. c.ver \in Nat /\ c.key \in Keys /\ c.opt \in Opts
  BY DEF Conns
<1>2. key \in Keys /\ opt \in Opts
  BY <1>1
<1>3. ver \in Nat /\ c.ver <= ver /\ (ver = c.ver <=> key = c.key)
  BY <1>1
<1>4. Merged(c, r) = [c EXCEPT !.key = key, !.opt = opt, !.ver = ver]
  BY DEF Merged
<1>5. Merged(c, r) = [life |-> c.life, key |-> key, ver |-> ver, opt |-> opt,
                      origin |-> c.origin]
  <2> HIDE DEF key, opt, ver
  <2> QED
    BY <1>4 DEF Conns
<1>6. /\ Merged(c, r) \in Conns
      /\ Merged(c, r).life = c.life /\ Merged(c, r).origin = c.origin
      /\ Merged(c, r).key = key /\ Merged(c, r).ver = ver
  <2> HIDE DEF key, opt, ver
  <2> QED
    BY <1>2, <1>3, <1>5 DEF Conns
<1> QED
  BY <1>1, <1>3, <1>6

\* What any patch does, heard or not.
LEMMA PatchedRow ==
    ASSUME IInv, NEW r \in wire, NEW clear \in BOOLEAN, Patch(r, clear)
    PROVE  /\ r.id \in Ids /\ r.key \in Keys \cup {NoKey}
           /\ conn' \in [Ids -> Conns] /\ conn'[r.id] = Merged(conn[r.id], r)
           /\ \A j \in Ids : j # r.id => conn'[j] = conn[j]
           /\ Live(r.id) /\ Live(r.id)'
           /\ pending' \subseteq Ids \cup {Sibling} /\ failed' \in BOOLEAN
           /\ \A j \in pending' \cap Ids : j \in pending \/ conn[j].life # "removed"
           /\ Evolves /\ NoneMade
<1>1. TypeOK /\ r \in Requests
  BY DEF IInv, TypeOK
<1>2. r.id \in Ids /\ r.key \in Keys \cup {NoKey} /\ r.opt \in Opts \cup {NoOpt}
  BY <1>1, PatchFields DEF Patch
<1>3. conn[r.id] \in Conns /\ conn[r.id].life = "live"
  BY <1>1, <1>2 DEF TypeOK, Patch, Live
<1>4. /\ Merged(conn[r.id], r) \in Conns
      /\ Merged(conn[r.id], r).life = "live"
      /\ Merged(conn[r.id], r).origin = conn[r.id].origin
      /\ conn[r.id].ver <= Merged(conn[r.id], r).ver
      /\ Merged(conn[r.id], r).ver = conn[r.id].ver
            => Merged(conn[r.id], r).key = conn[r.id].key
  BY <1>2, <1>3, MergedFacts
<1>5. /\ conn'[r.id] = Merged(conn[r.id], r)
      /\ \A j \in Ids : j # r.id => conn'[j] = conn[j]
      /\ conn' \in [Ids -> Conns]
  BY <1>1, <1>2, <1>4 DEF Patch, TypeOK
<1>6. Evolves
  BY <1>3, <1>4, <1>5 DEF Evolves
<1>7. NoneMade
  BY <1>3, <1>4, <1>5 DEF NoneMade, Live
<1>8. /\ \A j \in pending' \cap Ids : j \in pending \/ conn[j].life # "removed"
      /\ pending' \subseteq Ids \cup {Sibling} /\ failed' \in BOOLEAN
  <2>1. CASE conn' = conn
    BY <1>1, <2>1 DEF Patch, TypeOK
  <2>2. CASE conn' # conn
    BY <1>1, <1>2, <1>3, <2>2 DEF Patch, Unconfirmed, TypeOK
  <2> QED
    BY <2>1, <2>2
<1>9. Live(r.id) /\ Live(r.id)'
  BY <1>2, <1>3, <1>4, <1>5 DEF Live
<1> QED
  BY <1>2, <1>5, <1>6, <1>7, <1>8, <1>9

LEMMA PatchUnheardKeeps ==
    ASSUME IInv, NEW r \in wire, NEW clear \in BOOLEAN, Patch(r, clear),
           ~Answered(r, clear)
    PROVE  IInv'
<1>1. /\ r.id \in Ids /\ r.key \in Keys \cup {NoKey}
      /\ conn' \in [Ids -> Conns] /\ conn'[r.id] = Merged(conn[r.id], r)
      /\ \A j \in Ids : j # r.id => conn'[j] = conn[j]
      /\ Live(r.id) /\ Live(r.id)'
      /\ pending' \subseteq Ids \cup {Sibling} /\ failed' \in BOOLEAN
      /\ \A j \in pending' \cap Ids : j \in pending \/ conn[j].life # "removed"
      /\ Evolves /\ NoneMade
  BY PatchedRow
<1>2. TypeOK /\ Positioned /\ r \in Requests /\ CleanAt /\ r.op = "patch"
  BY DEF IInv, TypeOK, Patch
<1>3. /\ CallStays /\ wire' = wire \ {r}
      /\ UNCHANGED <<others, install>>
      /\ clean' = (clean /\ Heard(r))
  BY DEF Patch, Leave, CallStays, CleanAfter
<1>4. clean' \in BOOLEAN
  BY <1>2, <1>3 DEF TypeOK
<1>5. TypeOK'
  BY <1>1, <1>2, <1>3, <1>4 DEF CallStays, TypeOK
<1>6. OneCreate' /\ NoSilentOrphan'
  BY <1>1, <1>3, NoneMadeKeeps
<1>7. CleanAt'
  <2>1. SUFFICES ASSUME clean' PROVE CleanAt'
    BY DEF CleanAt
  <2>2. clean /\ pc = "patch" /\ r = PatchBody
    BY <1>2, <1>3, <2>1, HeardAt
  <2>3. r.id = state.id /\ (r.key = NoKey => want.key = state.key)
    <3>1. want.key \in Keys
      BY <1>2 DEF TypeOK, Configs
    <3> QED
      BY <2>2, <3>1, KeysAssumption DEF PatchBody, NoKey
  <2>4. state.key # want.key \/ Current(state)
    BY <1>1, <1>2, <2>2, <2>3 DEF CleanAt
  <2>5. CASE r.key # NoKey
    <3>1. state.key # want.key
      BY <2>2, <2>5 DEF PatchBody
    <3> QED
      BY <1>3, <2>2, <3>1 DEF CleanAt, CallStays
  <2>6. CASE r.key = NoKey
    <3>1. conn[r.id] \in Conns
      BY <1>1, <1>2 DEF TypeOK
    <3>2. r.opt \in Opts \cup {NoOpt}
      BY <1>2, PatchFields
    <3>3. conn'[r.id].ver = conn[r.id].ver
      BY <1>1, <2>6, <3>1, <3>2, MergedFacts
    <3>4. Current(state)'
      BY <1>3, <2>3, <2>4, <2>6, <3>3 DEF Current, CallStays
    <3> QED
      BY <1>3, <2>2, <3>4 DEF CleanAt, CallStays
  <2> QED
    BY <2>5, <2>6
<1> QED
  BY <1>1, <1>3, <1>5, <1>6, <1>7, PlatformKeeps DEF IInv

LEMMA PatchHeardKeeps ==
    ASSUME IInv, NEW r \in wire, NEW clear \in BOOLEAN, Patch(r, clear),
           Answered(r, clear)
    PROVE  IInv'
<1>1. /\ r.id \in Ids /\ r.key \in Keys \cup {NoKey}
      /\ conn' \in [Ids -> Conns] /\ conn'[r.id] = Merged(conn[r.id], r)
      /\ \A j \in Ids : j # r.id => conn'[j] = conn[j]
      /\ Live(r.id) /\ Live(r.id)'
      /\ pending' \subseteq Ids \cup {Sibling} /\ failed' \in BOOLEAN
      /\ \A j \in pending' \cap Ids : j \in pending \/ conn[j].life # "removed"
      /\ Evolves /\ NoneMade
  BY PatchedRow
<1>2. /\ TypeOK /\ Positioned /\ r \in Requests /\ CleanAt /\ KeyFits(state)
      /\ Met(state) /\ Heard(r) /\ r.op = "patch"
  BY DEF IInv, TypeOK, Patch, Answered
<1>3. pc = "patch" /\ r = PatchBody
  BY <1>2, HeardAt
<1>4. want.key \in Keys /\ want.key # NoKey
  BY <1>2, KeysAssumption DEF TypeOK, Configs, NoKey
<1>5. /\ r.id = state.id /\ state.id \in Ids
      /\ r.key # NoKey => r.key = want.key /\ state.key # want.key
      /\ r.key = NoKey => want.key = state.key
  BY <1>1, <1>3, <1>4 DEF PatchBody
<1>6. /\ conn[r.id] \in Conns /\ conn'[r.id] \in Conns
      /\ state \in States /\ state.ver \in Nat
  BY <1>1, <1>2 DEF TypeOK, States
<1>7. /\ conn[r.id].ver \in Nat /\ conn'[r.id].ver \in Nat
      /\ conn'[r.id].opt \in Opts
  BY <1>6 DEF Conns
<1>8. /\ pc' = "wait" /\ asked' = FALSE
      /\ resp' = [state EXCEPT !.key = want.key, !.opt = conn'[r.id].opt,
                               !.ver = RecordedVer(r, conn'[r.id].ver)]
      /\ wire' = wire \ {r}
      /\ clean' = (clean /\ Heard(r))
      /\ UNCHANGED <<others, install, want, replacing, state, freed>>
  BY DEF Patch, Leave, CleanAfter
<1>9. /\ r.key # NoKey => RecordedVer(r, conn'[r.id].ver) = conn'[r.id].ver
      /\ r.key = NoKey => RecordedVer(r, conn'[r.id].ver) = state.ver
  BY DEF RecordedVer
<1> DEFINE ver == RecordedVer(r, conn'[r.id].ver)
<1>10. ver \in Nat
  BY <1>6, <1>7, <1>9
<1>11. /\ resp' = [id |-> state.id, key |-> want.key, ver |-> ver,
                   opt |-> conn'[r.id].opt, tainted |-> state.tainted]
  <2> HIDE DEF ver
  <2>1. resp' = [state EXCEPT !.key = want.key, !.opt = conn'[r.id].opt,
                              !.ver = ver]
    BY <1>8 DEF ver
  <2> QED
    BY <1>6, <2>1 DEF States
<1>12. resp' \in States /\ resp'.id = r.id /\ resp'.key = want.key /\ resp'.ver = ver
  <2> HIDE DEF ver
  <2>1. state.tainted \in BOOLEAN
    BY <1>6 DEF States
  <2> QED
    BY <1>4, <1>5, <1>7, <1>10, <1>11, <2>1 DEF States
<1>13. TypeOK'
  <2>1. clean' \in BOOLEAN
    BY <1>2, <1>8 DEF TypeOK
  <2> QED
    BY <1>1, <1>2, <1>8, <1>12, <2>1 DEF TypeOK
<1>14. Positioned'
  BY <1>5, <1>8, <1>12, IdsFacts DEF Positioned
<1>15. Met(state)' /\ KeyFits(state)'
  BY <1>1, <1>2, <1>6, <1>8, <1>13, StateOutlives DEF Met, KeyFits, Live
<1>16. Met(resp)'
  BY <1>1, <1>12 DEF Met, Live
<1>17. r.opt \in Opts \cup {NoOpt}
  BY <1>2, PatchFields
<1>18. /\ r.key # NoKey => conn'[r.id].key = want.key
       /\ r.key = NoKey => /\ conn'[r.id].ver = conn[r.id].ver
                           /\ conn'[r.id].key = conn[r.id].key
  BY <1>1, <1>5, <1>6, <1>17, MergedFacts
<1>19. KeyFits(resp)'
  <2>1. /\ state.ver <= conn[r.id].ver
        /\ state.key # NoKey /\ state.ver = conn[r.id].ver
              => conn[r.id].key = state.key
    BY <1>1, <1>2, <1>5 DEF KeyFits
  <2>2. CASE r.key # NoKey
    BY <1>7, <1>9, <1>12, <1>18, <2>2 DEF KeyFits
  <2>3. CASE r.key = NoKey
    BY <1>4, <1>5, <1>9, <1>12, <1>18, <2>1, <2>3 DEF KeyFits
  <2> QED
    BY <2>2, <2>3
<1>20. OneCreate' /\ NoSilentOrphan'
  <2>1. OneCreate'
    BY <1>3, <1>8 DEF IInv, OneCreate
  <2>2. \A i \in Ids : Live(i) /\ conn[i].origin = "ours" => i = state.id
    BY <1>2, <1>3, IdsFacts DEF IInv, NoSilentOrphan, Positioned, NoState
  <2>3. NoSilentOrphan'
    BY <1>1, <1>8, <2>2 DEF NoSilentOrphan, NoneMade
  <2> QED
    BY <2>1, <2>3
<1>21. Removed'
  BY <1>1, <1>2, <1>8 DEF IInv, TypeOK, Removed, Evolves
<1>22. CleanAt'
  <2>1. SUFFICES ASSUME clean PROVE resp'.key = want'.key /\ Current(resp)'
    BY <1>8 DEF CleanAt
  <2>2. state.key # want.key \/ Current(state)
    BY <1>1, <1>2, <1>3, <1>5, <2>1 DEF CleanAt
  <2>3. Current(resp)'
    BY <1>5, <1>9, <1>12, <1>18, <2>2 DEF Current
  <2> QED
    BY <1>8, <1>12, <2>3
<1> QED
  BY <1>13, <1>14, <1>15, <1>16, <1>19, <1>20, <1>21, <1>22 DEF IInv

LEMMA RemoveUnheardKeeps ==
    ASSUME IInv, NEW r \in wire, NEW clear \in BOOLEAN, Remove(r, clear),
           ~Answered(r, clear)
    PROVE  IInv'
<1>1. TypeOK /\ Positioned /\ r \in Requests /\ r.op = "delete"
  BY DEF IInv, TypeOK, Remove
<1>2. /\ r.id \in Ids /\ Live(r.id)
      /\ conn' = [conn EXCEPT ![r.id] = Blank("removed")]
  BY <1>1, DeleteFields DEF Remove
<1>3. /\ conn' \in [Ids -> Conns] /\ conn'[r.id].life = "removed"
      /\ Evolves /\ NoneMade
  BY <1>1, <1>2, BlankedRow
<1>4. /\ CallStays /\ wire' = wire \ {r}
      /\ UNCHANGED <<others, install>>
      /\ clean' = (clean /\ Heard(r))
  BY DEF Remove, Leave, CallStays, CleanAfter
<1>5. clean' \in BOOLEAN
  BY <1>1, <1>4 DEF TypeOK
<1>6. /\ pending' \subseteq Ids \cup {Sibling} /\ failed' \in BOOLEAN
      /\ \A j \in pending' \cap Ids : j \in pending \/ conn[j].life # "removed"
  BY <1>1, <1>2 DEF Remove, Unconfirmed, TypeOK, Live
<1>7. TypeOK'
  BY <1>1, <1>3, <1>4, <1>5, <1>6 DEF CallStays, TypeOK
<1>8. OneCreate' /\ NoSilentOrphan'
  BY <1>3, <1>4, NoneMadeKeeps
<1>9. CleanAt'
  <2>1. clean' => pc = "delete"
    BY <1>1, <1>4, HeardAt
  <2> QED
    BY <1>4, <2>1 DEF CleanAt, CallStays
<1> QED
  BY <1>3, <1>4, <1>6, <1>7, <1>8, <1>9, PlatformKeeps DEF IInv

\* The delete goes on to wait for the gateway.
LEMMA GatewayWait ==
    ASSUME IInv, NEW r \in wire, r.op = "delete", Heard(r), Evolves, NoneMade,
           conn' \in [Ids -> Conns], conn'[r.id].life = "removed",
           pending' \subseteq Ids \cup {Sibling}, failed' \in BOOLEAN,
           \A j \in pending' \cap Ids : j \in pending \/ conn[j].life # "removed",
           pc' = "gwWait", asked' = FALSE, wire' = wire \ {r}, clean' \in BOOLEAN,
           UNCHANGED <<install, others, want, replacing, state, resp, freed>>
    PROVE  IInv'
<1>1. TypeOK /\ Positioned /\ Met(state) /\ Met(resp)
  BY DEF IInv
<1>2. pc = "delete" /\ r.id = state.id /\ state.id \in Ids /\ resp = NoState
  BY <1>1, HeardAt DEF Positioned
<1>3. TypeOK'
  BY <1>1 DEF TypeOK
<1>4. Positioned'
  BY <1>2 DEF Positioned
<1>5. state \in States /\ resp \in States
  BY <1>1 DEF TypeOK
<1>6. Met(state)' /\ KeyFits(state)'
  BY <1>1, <1>3, <1>5, StateOutlives DEF IInv, Met, KeyFits, Live
<1>7. Met(resp)' /\ KeyFits(resp)'
  BY <1>1, <1>3, <1>5, StateOutlives DEF IInv, Met, KeyFits, Live
<1>8. OneCreate'
  BY <1>2 DEF IInv, OneCreate
<1>9. NoSilentOrphan'
  BY <1>2 DEF IInv, NoSilentOrphan, NoneMade
<1>10. Removed'
  BY <1>1 DEF IInv, TypeOK, Removed, Evolves
<1>11. CleanAt'
  BY DEF CleanAt
<1> QED
  BY <1>3, <1>4, <1>6, <1>7, <1>8, <1>9, <1>10, <1>11 DEF IInv

LEMMA RemoveHeardKeeps ==
    ASSUME IInv, NEW r \in wire, NEW clear \in BOOLEAN, Remove(r, clear),
           Answered(r, clear)
    PROVE  IInv'
<1>1. TypeOK /\ r \in Requests /\ r.op = "delete" /\ Heard(r)
  BY DEF IInv, TypeOK, Remove, Answered
<1>2. /\ r.id \in Ids /\ Live(r.id)
      /\ conn' = [conn EXCEPT ![r.id] = Blank("removed")]
  BY <1>1, DeleteFields DEF Remove
<1>3. /\ conn' \in [Ids -> Conns] /\ conn'[r.id].life = "removed"
      /\ Evolves /\ NoneMade
  BY <1>1, <1>2, BlankedRow
<1>4. /\ pc' = "gwWait" /\ asked' = FALSE /\ wire' = wire \ {r}
      /\ UNCHANGED <<install, others, want, replacing, state, resp, freed>>
      /\ clean' = (clean /\ Heard(r))
  BY DEF Remove, Leave, CleanAfter
<1>5. clean' \in BOOLEAN
  BY <1>1, <1>4 DEF TypeOK
<1>6. /\ pending' \subseteq Ids \cup {Sibling} /\ failed' \in BOOLEAN
      /\ \A j \in pending' \cap Ids : j \in pending \/ conn[j].life # "removed"
  BY <1>1, <1>2 DEF Remove, Unconfirmed, TypeOK, Live
<1> QED
  BY <1>1, <1>3, <1>4, <1>5, <1>6, GatewayWait

LEMMA DeleteAgainKeeps ==
    ASSUME IInv, NEW r \in wire, NEW clear \in BOOLEAN, DeleteAgain(r, clear)
    PROVE  IInv'
<1>1. /\ TypeOK /\ Positioned /\ Met(state) /\ r \in Requests /\ r.op = "delete"
      /\ ~Live(r.id) /\ wire' = wire \ {r} /\ UNCHANGED platform
  BY DEF IInv, TypeOK, DeleteAgain
<1>2. Evolves /\ NoneMade
  BY <1>1 DEF Evolves, NoneMade, Live, platform
<1>3. /\ conn' \in [Ids -> Conns] /\ pending' \subseteq Ids \cup {Sibling}
      /\ failed' \in BOOLEAN /\ pending' = pending
      /\ UNCHANGED install
  BY <1>1 DEF TypeOK, platform
<1>4. CASE Answered(r, clear)
  <2>1. Heard(r) /\ NotFound(r)
    BY <1>4 DEF DeleteAgain, Answered
  <2>2. r.id = state.id /\ r.id \in Ids
    BY <1>1, <2>1, HeardAt, DeleteFields
  <2>3. conn[r.id].life = "removed"
    <3>1. conn[r.id] \in Conns /\ conn[r.id].life # "unused"
      BY <1>1, <2>2, IdsFacts DEF TypeOK, Met
    <3> QED
      BY <1>1, <2>2, <3>1 DEF Conns, Lives, Live
  <2>4. conn'[r.id].life = "removed"
    BY <1>1, <2>3 DEF platform
  <2>5. /\ pc' = "gwWait" /\ asked' = FALSE
        /\ UNCHANGED <<others, want, replacing, state, resp, clean, freed>>
    BY <2>1 DEF NotFound
  <2>6. clean' \in BOOLEAN
    BY <1>1, <2>5 DEF TypeOK
  <2> QED
    BY <1>1, <1>2, <1>3, <2>1, <2>4, <2>5, <2>6, GatewayWait
<1>5. CASE ~Answered(r, clear)
  <2>1. CallStays /\ UNCHANGED <<others, clean>>
    BY <1>5 DEF DeleteAgain, CallStays
  <2>2. TypeOK'
    BY <1>1, <1>3, <2>1 DEF TypeOK, CallStays
  <2>3. OneCreate' /\ NoSilentOrphan'
    BY <1>1, <1>2, <2>1, NoneMadeKeeps
  <2>4. CleanAt'
    BY <1>1, <2>1, ApartKeeps DEF platform
  <2> QED
    BY <1>2, <1>3, <2>1, <2>2, <2>3, <2>4, PlatformKeeps DEF IInv
<1> QED
  BY <1>4, <1>5

-----------------------------------------------------------------------------
(* The call returns.                                                       *)

\* A state that fits is saved, and nothing of the call's making stays behind.
LEMMA ReturnKeeps ==
    ASSUME IInv, TypeOK', NEW st \in States, NEW ok \in BOOLEAN, Return(st, ok),
           Met(st), KeyFits(st), Evolves, UNCHANGED <<want, pending, freed>>,
           OneCreate', NoSilentOrphan',
           clean /\ ok /\ Live(st.id)' =>
              /\ ~st.tainted /\ st.key = want.key /\ conn'[st.id].opt = want.opt
              /\ Current(st)'
    PROVE  IInv'
<1>1. TypeOK
  BY DEF IInv
<1>2. /\ pc' = "idle" /\ asked' = FALSE /\ state' = st /\ resp' = NoState
      /\ clean' = (clean /\ ok)
  BY DEF Return
<1>3. Positioned'
  BY <1>2 DEF Positioned
<1>4. Met(st)' /\ KeyFits(st)'
  BY <1>1, StateOutlives
<1>5. Met(state)' /\ KeyFits(state)'
  BY <1>2, <1>4 DEF Met, KeyFits, Live
<1>6. Met(resp)' /\ KeyFits(resp)'
  BY <1>2, IdsFacts DEF Met, KeyFits, Live, NoState
<1>7. Removed'
  BY <1>1 DEF IInv, TypeOK, Removed, Evolves
<1>8. CleanAt'
  BY <1>2 DEF CleanAt, Current, Live
<1> QED
  BY <1>3, <1>5, <1>6, <1>7, <1>8 DEF IInv

\* No create whose call waits is on its way.
NoneWaiting == \A r \in wire : ~(r.op = "create" /\ r.origin = "ours")

\* An error that is an answer, or comes before the request: the state stays.
LEMMA FailKeeps ==
    ASSUME IInv, Fail, UNCHANGED <<platform, others>>, wire' \subseteq wire,
           NoneWaiting',
           \A i \in Ids : Live(i) /\ conn[i].origin = "ours" => i = state.id
    PROVE  IInv'
<1>1. TypeOK /\ state \in States /\ Met(state) /\ KeyFits(state)
  BY DEF IInv, TypeOK
<1>2. /\ Return(state, FALSE) /\ state' = state /\ resp' = NoState
      /\ pc' = "idle" /\ clean' = FALSE /\ asked' = FALSE /\ replacing' = FALSE
      /\ UNCHANGED <<want, pending, freed>>
  BY DEF Fail, Return, platform
<1>3. TypeOK'
  BY <1>1, <1>2, NoStateType DEF TypeOK, platform
<1>4. Evolves
  BY DEF Evolves, platform
<1>5. OneCreate'
  BY DEF OneCreate, NoneWaiting
<1>6. NoSilentOrphan'
  BY <1>2 DEF NoSilentOrphan, Live, platform
<1> QED
  BY <1>1, <1>2, <1>3, <1>4, <1>5, <1>6, ReturnKeeps

\* A connection of the block's own is tracked unless a create waits or an
\* answer is on its way to the state.
LEMMA OwnTracked ==
    ASSUME IInv, pc # "wait", ~(pc = "create" /\ asked)
    PROVE  /\ NoneWaiting
           /\ \A i \in Ids : Live(i) /\ conn[i].origin = "ours" => i = state.id
BY IdsFacts DEF IInv, OneCreate, NoneWaiting, NoSilentOrphan, Positioned, NoState

LEMMA LostAnswerKeeps ==
    ASSUME IInv, AnswerLost \/ GiveUp \/ RefreshFails
    PROVE  IInv'
<1>1. /\ Fail /\ UNCHANGED <<platform, others>> /\ wire' = wire
      /\ pc # "wait" /\ ~(pc = "create" /\ asked)
  BY DEF AnswerLost, GiveUp, RefreshFails
<1>2. NoneWaiting'
  BY <1>1, OwnTracked DEF NoneWaiting
<1> QED
  BY <1>1, <1>2, OwnTracked, FailKeeps

\* A refusal ends the call that sent the request, and no other.
LEMMA RefuseKeeps ==
    ASSUME IInv, NEW r \in wire, Refuse(r)
    PROVE  IInv'
<1>1. /\ TypeOK /\ Positioned /\ OneCreate
      /\ wire' = wire \ {r} /\ UNCHANGED <<platform, others, want, freed>>
  BY DEF IInv, Refuse, Leave
<1>2. CASE Heard(r)
  <2>1. Fail
    BY <1>1, <1>2 DEF Refuse, Fail
  <2>2. asked /\ pc \in Sending /\ r.op = pc /\ (pc = "create" => r.origin = "ours")
    BY <1>1, <1>2, HeardAt
  <2>3. CASE pc = "create"
    <3>1. NoneWaiting'
      BY <1>1, <2>2, <2>3, OnlyOneCreate DEF NoneWaiting
    <3>2. \A i \in Ids : Live(i) => conn[i].origin # "ours"
      BY <1>1, <2>2, <2>3 DEF OneCreate
    <3> QED
      BY <1>1, <2>1, <3>1, <3>2, FailKeeps
  <2>4. CASE pc # "create"
    <3>1. NoneWaiting'
      BY <1>1, <2>2, <2>4, OwnTracked DEF NoneWaiting, Sending
    <3> QED
      BY <1>1, <2>1, <2>2, <2>4, <3>1, OwnTracked, FailKeeps DEF Sending
  <2> QED
    BY <2>3, <2>4
<1>3. CASE ~Heard(r)
  <2>1. CallStays /\ clean' = clean /\ conn' = conn /\ pending' = pending
    BY <1>1, <1>3 DEF Refuse, CallStays, platform
  <2>2. TypeOK'
    BY <1>1, <2>1 DEF TypeOK, CallStays, platform
  <2>3. Evolves /\ NoneMade
    BY <2>1 DEF Evolves, NoneMade, Live
  <2>4. OneCreate' /\ NoSilentOrphan'
    BY <1>1, <2>1, <2>3, NoneMadeKeeps
  <2>5. CleanAt'
    BY <2>1, ApartKeeps
  <2> QED
    BY <2>1, <2>2, <2>3, <2>4, <2>5, PlatformKeeps DEF IInv
<1> QED
  BY <1>2, <1>3

\* A write that is turned away recorded nothing; its call sends it again.
LEMMA TurnAwayKeeps ==
    ASSUME IInv, NEW r \in wire, TurnAway(r)
    PROVE  IInv'
<1>1. /\ TypeOK /\ Positioned /\ OneCreate /\ NoSilentOrphan
      /\ wire' = wire \ {r} /\ asked' = (asked /\ ~Heard(r))
      /\ UNCHANGED <<platform, others, want, freed, pc, replacing, state, resp,
                     clean>>
  BY DEF IInv, TurnAway, Leave
<1>2. /\ conn' = conn /\ pending' = pending /\ failed' = failed
      /\ install' = install
  BY <1>1 DEF platform
<1>3. asked' \in BOOLEAN /\ (asked' => asked)
  BY <1>1 DEF TypeOK
<1>4. TypeOK'
  BY <1>1, <1>2, <1>3 DEF TypeOK
<1>5. Positioned'
  BY <1>1, <1>2, <1>3 DEF Positioned
<1>6. /\ Met(state)' /\ Met(resp)' /\ KeyFits(state)' /\ KeyFits(resp)'
      /\ Removed' /\ CleanAt'
  BY <1>1, <1>2 DEF IInv, Met, KeyFits, Live, Removed, CleanAt, Current
<1>7. CASE Heard(r) /\ pc = "create"
  <2>1. r.op = "create" /\ r.origin = "ours" /\ asked
    BY <1>1, <1>7, HeardAt
  <2>2. OneCreate'
    BY <1>1, <2>1, OnlyOneCreate DEF OneCreate
  <2>3. NoSilentOrphan'
    BY <1>1, <1>2, <2>1 DEF OneCreate, NoSilentOrphan, Live
  <2> QED
    BY <1>4, <1>5, <1>6, <2>2, <2>3 DEF IInv
<1>8. CASE ~(Heard(r) /\ pc = "create")
  <2>1. pc = "create" => asked' = asked
    BY <1>1, <1>8 DEF TypeOK
  <2>2. OneCreate'
    BY <1>1, <1>2, <2>1 DEF OneCreate, Live
  <2>3. NoSilentOrphan'
    BY <1>1, <1>2, <2>1 DEF NoSilentOrphan, Live
  <2> QED
    BY <1>4, <1>5, <1>6, <2>2, <2>3 DEF IInv
<1> QED
  BY <1>7, <1>8

\* A marked request is a request, and no create of a call that waits.
LEMMA MarkedFacts ==
    ASSUME NEW r \in Requests, NEW how \in Origins \ {"ours"}
    PROVE  /\ Marked(r, how) \in Requests
           /\ ~(Marked(r, how).op = "create" /\ Marked(r, how).origin = "ours")
<1>1. CASE r.op = "create" /\ r.origin = "ours"
  <2>1. r \in [op : {"create"}, key : Keys, opt : Opts, origin : Origins]
    BY <1>1, CreateFields
  <2>2. Marked(r, how) = [r EXCEPT !.origin = how]
    BY <1>1 DEF Marked
  <2>3. Marked(r, how) \in [op : {"create"}, key : Keys, opt : Opts, origin : Origins]
    BY <2>1, <2>2
  <2>4. Marked(r, how).origin = how
    BY <2>1, <2>2
  <2> QED
    BY <2>3, <2>4 DEF Requests
<1>2. CASE ~(r.op = "create" /\ r.origin = "ours")
  BY <1>2 DEF Marked
<1> QED
  BY <1>1, <1>2

\* All that the state does not track is out of the call's hands.
LEMMA LetGoRows ==
    ASSUME TypeOK, NEW how \in Origins \ {"ours"}, LetGo(how)
    PROVE  /\ conn' \in [Ids -> Conns] /\ wire' \subseteq Requests
           /\ NoneWaiting'
           /\ \A i \in Ids :
                 /\ conn'[i].life = conn[i].life
                 /\ Live(i)' /\ conn'[i].origin = "ours" => i = state.id
           /\ Evolves
<1>1. /\ wire' = { Marked(r, how) : r \in wire }
      /\ wire \subseteq Requests
  BY DEF LetGo, TypeOK
<1>2. wire' \subseteq Requests /\ NoneWaiting'
  BY <1>1, MarkedFacts DEF NoneWaiting
<1>3. \A i \in Ids :
         conn'[i] = IF conn[i].life = "live" /\ conn[i].origin = "ours" /\ i # state.id
                      THEN [conn[i] EXCEPT !.origin = how] ELSE conn[i]
  BY DEF LetGo
<1>4. ASSUME NEW i \in Ids
      PROVE  /\ conn'[i] \in Conns /\ conn'[i].life = conn[i].life
             /\ conn'[i].ver = conn[i].ver /\ conn'[i].key = conn[i].key
             /\ conn[i].ver \in Nat
             /\ Live(i)' /\ conn'[i].origin = "ours" => i = state.id
  <2>1. conn[i] \in Conns
    BY DEF TypeOK
  <2>2. CASE conn[i].life = "live" /\ conn[i].origin = "ours" /\ i # state.id
    <3>1. conn'[i] = [life |-> conn[i].life, key |-> conn[i].key,
                      ver |-> conn[i].ver, opt |-> conn[i].opt, origin |-> how]
      BY <1>3, <2>1, <2>2 DEF Conns
    <3>2. conn'[i] \in Conns
      BY <2>1, <3>1 DEF Conns, Origins
    <3>3. conn'[i].origin = how /\ conn'[i].life = conn[i].life
          /\ conn'[i].ver = conn[i].ver /\ conn'[i].key = conn[i].key
      BY <3>1
    <3> QED
      BY <2>1, <3>2, <3>3 DEF Conns
  <2>3. CASE ~(conn[i].life = "live" /\ conn[i].origin = "ours" /\ i # state.id)
    BY <1>3, <2>1, <2>3 DEF Conns, Live
  <2> QED
    BY <2>2, <2>3
<1>5. conn' = [i \in Ids |-> conn'[i]]
  BY DEF LetGo
<1>6. conn' \in [Ids -> Conns]
  BY <1>4, <1>5
<1>7. ASSUME NEW i \in Ids
      PROVE  \/ conn'[i] = conn[i]
             \/ /\ conn[i].life = "live" /\ conn'[i].life = "live"
                /\ conn[i].ver <= conn'[i].ver /\ conn'[i].key = conn[i].key
  <2>1. CASE conn[i].life = "live"
    BY <1>4, <2>1
  <2>2. CASE conn[i].life # "live"
    BY <1>3, <2>2
  <2> QED
    BY <2>1, <2>2
<1>8. Evolves
  BY <1>7 DEF Evolves
<1> QED
  BY <1>2, <1>4, <1>6, <1>8

\* The call is over, and with it what it knew of its create.
LEMMA LeftKeeps ==
    ASSUME IInv, CreateLost \/ Killed
    PROVE  IInv'
<1>1. TypeOK /\ state \in States /\ Met(state) /\ KeyFits(state)
  BY DEF IInv, TypeOK
<1>2. PICK how \in Origins \ {"ours"} :
         LetGo(how) /\ Fail /\ UNCHANGED <<pending, failed, install, others>>
  BY DEF CreateLost, Killed, Uncertain, Origins
<1>3. /\ conn' \in [Ids -> Conns] /\ wire' \subseteq Requests /\ NoneWaiting'
      /\ \A i \in Ids : Live(i)' /\ conn'[i].origin = "ours" => i = state.id
      /\ Evolves
  BY <1>1, <1>2, LetGoRows
<1>4. /\ Return(state, FALSE) /\ state' = state /\ resp' = NoState
      /\ pc' = "idle" /\ clean' = FALSE /\ asked' = FALSE /\ replacing' = FALSE
      /\ UNCHANGED <<want, freed>>
  BY <1>2 DEF Fail, Return
<1>5. TypeOK'
  BY <1>1, <1>2, <1>3, <1>4, NoStateType DEF TypeOK
<1>6. OneCreate'
  BY <1>3 DEF OneCreate, NoneWaiting
<1>7. NoSilentOrphan'
  BY <1>3, <1>4 DEF NoSilentOrphan
<1> QED
  BY <1>1, <1>2, <1>3, <1>4, <1>5, <1>6, <1>7, ReturnKeeps

\* A create behind a 429 goes on with nothing of its own on the platform.
LEMMA ThrottledKeeps ==
    ASSUME IInv, Throttled
    PROVE  IInv'
<1>1. /\ TypeOK /\ Positioned /\ Removed /\ state \in States /\ resp \in States
      /\ Met(state) /\ Met(resp) /\ KeyFits(state) /\ KeyFits(resp)
  BY DEF IInv, TypeOK
<1>2. /\ LetGo("untold") /\ "untold" \in Origins \ {"ours"}
      /\ pc = "create" /\ state = NoState /\ asked' = FALSE
      /\ UNCHANGED <<pending, failed, install, others, want, pc, replacing, state,
                     resp, clean, freed>>
  BY <1>1 DEF Throttled, Origins, Positioned
<1>3. /\ conn' \in [Ids -> Conns] /\ wire' \subseteq Requests /\ NoneWaiting'
      /\ \A i \in Ids :
            /\ conn'[i].life = conn[i].life
            /\ Live(i)' /\ conn'[i].origin = "ours" => i = state.id
      /\ Evolves
  BY <1>1, <1>2, LetGoRows
<1>4. TypeOK'
  BY <1>1, <1>2, <1>3 DEF TypeOK
<1>5. Positioned'
  BY <1>1, <1>2 DEF Positioned
<1>6. Met(state)' /\ KeyFits(state)' /\ Met(resp)' /\ KeyFits(resp)'
  <2>1. state.id = NoId /\ resp = NoState
    BY <1>1, <1>2 DEF Positioned, NoState
  <2> QED
    BY <1>2, <2>1, IdsFacts DEF Met, KeyFits, Live, NoState
<1>7. OneCreate'
  BY <1>3 DEF OneCreate, NoneWaiting
<1>8. NoSilentOrphan'
  BY <1>2, <1>3 DEF NoSilentOrphan
<1>9. Removed'
  BY <1>1, <1>2, <1>3 DEF Removed, TypeOK
<1>10. CleanAt'
  BY <1>2 DEF CleanAt
<1> QED
  BY <1>4, <1>5, <1>6, <1>7, <1>8, <1>9, <1>10 DEF IInv

LEMMA WaitOverReturns ==
    ASSUME NEW st, NEW ok \in BOOLEAN, WaitOver(st, ok)
    PROVE  \E tainted \in BOOLEAN :
              /\ Return([st EXCEPT !.tainted = tainted], ok)
              /\ ok => ~tainted
<1> DEFINE tainted == ~ok /\ state.id = NoId
<1>1. Return([st EXCEPT !.tainted = tainted], ok)
  BY DEF WaitOver
<1>2. tainted \in BOOLEAN /\ (ok => ~tainted)
  OBVIOUS
<1> HIDE DEF tainted
<1> QED
  BY <1>1, <1>2

LEMMA TaintedState ==
    ASSUME NEW st \in States, NEW opt \in Opts \cup {NoOpt}, NEW tainted \in BOOLEAN
    PROVE  [[st EXCEPT !.opt = opt] EXCEPT !.tainted = tainted] =
              [id |-> st.id, key |-> st.key, ver |-> st.ver, opt |-> opt,
               tainted |-> tainted]
<1>1. [st EXCEPT !.opt = opt] = [id |-> st.id, key |-> st.key, ver |-> st.ver,
                                 opt |-> opt, tainted |-> st.tainted]
  BY DEF States
<1>2. PICK s \in States : s = [st EXCEPT !.opt = opt]
  BY <1>1 DEF States
<1>3. s.id = st.id /\ s.key = st.key /\ s.ver = st.ver /\ s.opt = opt
  BY <1>1, <1>2
<1>4. [s EXCEPT !.tainted = tainted] = [id |-> s.id, key |-> s.key, ver |-> s.ver,
                                        opt |-> s.opt, tainted |-> tainted]
  BY DEF States
<1> QED
  BY <1>2, <1>3, <1>4

\* The wait is over: what it read, or what was recorded, is saved.
LEMMA WaitKeeps ==
    ASSUME IInv, Wait \/ WaitFails
    PROVE  IInv'
<1>1. /\ TypeOK /\ Positioned /\ CleanAt /\ NoSilentOrphan /\ OneCreate
      /\ Met(resp) /\ KeyFits(resp) /\ resp \in States /\ pc = "wait"
  BY DEF IInv, TypeOK, Wait, WaitFails
<1>2. resp.id \in Ids /\ state.id \in {NoId, resp.id}
  BY <1>1 DEF Positioned
<1>3. PICK opt \in Opts \cup {NoOpt}, ok \in BOOLEAN :
         /\ WaitOver([resp EXCEPT !.opt = opt], ok)
         /\ ok => Live(resp.id) /\ opt = conn[resp.id].opt /\ opt = want.opt
  <2>1. resp.opt \in Opts \cup {NoOpt} /\ resp = [resp EXCEPT !.opt = resp.opt]
    BY <1>1 DEF States
  <2>2. conn[resp.id].opt \in Opts
    BY <1>1, <1>2 DEF TypeOK, Conns
  <2>3. CASE WaitFails
    BY <2>1, <2>3 DEF WaitFails
  <2>4. CASE Wait /\ ~Live(resp.id)
    BY <2>1, <2>4 DEF Wait
  <2>5. CASE Wait /\ Live(resp.id)
    <3> DEFINE st == [resp EXCEPT !.opt = conn[resp.id].opt]
               done == Poll(resp.id) = "applied" /\ st.opt = want.opt
    <3>1. WaitOver(st, done)
      BY <2>5 DEF Wait
    <3>2. st.opt = conn[resp.id].opt
      BY <1>1 DEF States
    <3>3. done \in BOOLEAN
      OBVIOUS
    <3> QED
      BY <2>2, <2>5, <3>1, <3>2, <3>3
  <2> QED
    BY <2>3, <2>4, <2>5
<1>4. PICK tainted \in BOOLEAN :
         /\ Return([[resp EXCEPT !.opt = opt] EXCEPT !.tainted = tainted], ok)
         /\ ok => ~tainted
  BY <1>3, WaitOverReturns
<1>5. PICK st \in States :
         /\ st = [id |-> resp.id, key |-> resp.key, ver |-> resp.ver,
                  opt |-> opt, tainted |-> tainted]
  BY <1>1, <1>2 DEF States
<1>6. Return(st, ok) /\ UNCHANGED <<localOnly, freed>>
  <2>1. [[resp EXCEPT !.opt = opt] EXCEPT !.tainted = tainted] = st
    BY <1>1, <1>5, TaintedState
  <2> QED
    BY <1>3, <1>4, <2>1 DEF WaitOver
<1>7. st \in States
  OBVIOUS
<1>8. st.id = resp.id /\ st.key = resp.key /\ st.ver = resp.ver
      /\ (ok => ~st.tainted)
  BY <1>4, <1>5
<1>9. Met(st) /\ KeyFits(st)
  BY <1>1, <1>8 DEF Met, KeyFits
<1>10. /\ conn' = conn /\ pending' = pending /\ wire' = wire /\ failed' = failed
       /\ install' = install /\ others' = others /\ want' = want /\ freed' = freed
       /\ pc' = "idle" /\ asked' = FALSE /\ replacing' = FALSE /\ state' = st
       /\ resp' = NoState /\ clean' = (clean /\ ok)
  BY <1>6 DEF localOnly, platform, Return
<1>11. Evolves
  BY <1>10 DEF Evolves
<1>12. TypeOK'
  <2>1. clean' \in BOOLEAN /\ st.id # NoId
    BY <1>1, <1>2, <1>8, <1>10, IdsFacts DEF TypeOK
  <2> QED
    BY <1>1, <1>7, <1>10, <2>1, NoStateType DEF TypeOK
<1>13. OneCreate'
  BY <1>1, <1>10 DEF OneCreate
<1>14. NoSilentOrphan'
  BY <1>1, <1>2, <1>8, <1>10, IdsFacts DEF NoSilentOrphan, Live
<1>15. clean /\ ok /\ Live(st.id)' =>
          /\ ~st.tainted /\ st.key = want.key /\ conn'[st.id].opt = want.opt
          /\ Current(st)'
  <2> SUFFICES ASSUME clean, ok PROVE
          /\ ~st.tainted /\ st.key = want.key /\ conn'[st.id].opt = want.opt
          /\ Current(st)'
    OBVIOUS
  <2>1. Live(resp.id) /\ conn[resp.id].opt = want.opt
    BY <1>3
  <2>2. resp.key = want.key /\ Current(resp)
    BY <1>1, <2>1 DEF CleanAt
  <2>3. Current(st)'
    BY <1>8, <1>10, <2>2 DEF Current
  <2> QED
    BY <1>8, <1>10, <2>1, <2>2, <2>3
<1> QED
  BY <1>6, <1>7, <1>9, <1>10, <1>11, <1>12, <1>13, <1>14, <1>15, ReturnKeeps

\* The connection leaves the state: it was removed before.
LEMMA GoneKeeps ==
    ASSUME IInv, Confirmed \/ NotConfirmed
    PROVE  IInv'
<1>1. TypeOK /\ Positioned /\ pc = "gwWait"
  BY DEF IInv, Confirmed, NotConfirmed
<1>2. /\ UNCHANGED <<platform, wire, others, want, clean>>
      /\ state' = NoState /\ resp' = NoState /\ asked' = FALSE
      /\ replacing' = FALSE /\ pc' \in {"create", "idle"}
  BY DEF Confirmed, NotConfirmed, Gone, Forgotten
<1>3. conn' = conn /\ pending' = pending /\ failed' = failed /\ install' = install
  BY <1>2 DEF platform
<1>4. state.id \in Ids /\ conn[state.id].life = "removed"
  BY <1>1 DEF Positioned
<1>5. \/ freed' = freed
      \/ freed' = freed \cup {state.id} /\ pending = {}
  BY DEF Confirmed, NotConfirmed
<1>6. TypeOK'
  BY <1>1, <1>2, <1>3, <1>4, <1>5, NoStateType DEF TypeOK, Sending
<1>7. Positioned'
  BY <1>2 DEF Positioned
<1>8. /\ Met(state)' /\ Met(resp)' /\ KeyFits(state)' /\ KeyFits(resp)'
  BY <1>2, IdsFacts DEF Met, KeyFits, Live, NoState
<1>9. \A i \in Ids : Live(i) => conn[i].origin # "ours"
  BY <1>1, <1>4, IdsFacts DEF IInv, NoSilentOrphan, Positioned, NoState, Live
<1>10. OneCreate'
  BY <1>1, <1>2 DEF IInv, OneCreate
<1>11. NoSilentOrphan'
  BY <1>3, <1>9 DEF NoSilentOrphan, Live
<1>12. Removed'
  BY <1>3, <1>4, <1>5 DEF IInv, Removed
<1>13. CleanAt'
  BY <1>2, IdsFacts DEF CleanAt, Live, NoState
<1> QED
  BY <1>6, <1>7, <1>8, <1>10, <1>11, <1>12, <1>13 DEF IInv

LEMMA ReadFields ==
    ASSUME NEW st \in States, NEW key \in Keys \cup {NoKey},
           NEW opt \in Opts \cup {NoOpt},
           NEW new, new = [st EXCEPT !.key = key, !.opt = opt]
    PROVE  new = [id |-> st.id, key |-> key, ver |-> st.ver, opt |-> opt,
                  tainted |-> st.tainted]
BY DEF States

\* What Read saves of a connection that is there.
LEMMA ReadStateFacts ==
    ASSUME TypeOK, NEW st \in States, Live(st.id), Met(st), KeyFits(st)
    PROVE  /\ ReadState(st) \in States /\ ReadState(st).id = st.id
           /\ ReadState(st).key = KeyRead(st) /\ ReadState(st).ver = st.ver
           /\ ReadState(st).opt = conn[st.id].opt
           /\ ReadState(st).tainted = st.tainted
           /\ Met(ReadState(st)) /\ KeyFits(ReadState(st))
           /\ KeyRead(st) # NoKey => KeyRead(st) = st.key /\ Current(st)
<1>1. st.id \in Ids /\ conn[st.id].opt \in Opts
  BY DEF Live, TypeOK, Conns
<1>2. KeyRead(st) \in {st.key, NoKey} /\ st.key \in Keys \cup {NoKey}
  BY DEF KeyRead, States
<1>3. KeyRead(st) # NoKey => KeyRead(st) = st.key /\ Current(st)
  BY DEF KeyRead, Current
<1>4. ReadState(st) = [id |-> st.id, key |-> KeyRead(st), ver |-> st.ver,
                       opt |-> conn[st.id].opt, tainted |-> st.tainted]
  <2>1. KeyRead(st) \in Keys \cup {NoKey} /\ conn[st.id].opt \in Opts \cup {NoOpt}
    BY <1>1, <1>2
  <2> DEFINE new == ReadState(st)
  <2>2. new = [st EXCEPT !.key = KeyRead(st), !.opt = conn[st.id].opt]
    BY DEF ReadState
  <2> HIDE DEF new
  <2>3. new = [id |-> st.id, key |-> KeyRead(st), ver |-> st.ver,
               opt |-> conn[st.id].opt, tainted |-> st.tainted]
    BY <2>1, <2>2, ReadFields
  <2> QED
    BY <2>3 DEF new
<1>5. /\ ReadState(st).id = st.id
      /\ ReadState(st).key = KeyRead(st) /\ ReadState(st).ver = st.ver
      /\ ReadState(st).opt = conn[st.id].opt
      /\ ReadState(st).tainted = st.tainted
  BY <1>4
<1>6. ReadState(st) \in States
  <2>1. st.ver \in Nat /\ st.tainted \in BOOLEAN
    BY DEF States
  <2> QED
    BY <1>1, <1>2, <1>4, <2>1 DEF States
<1>7. Met(ReadState(st)) /\ KeyFits(ReadState(st))
  BY <1>2, <1>5 DEF Met, KeyFits
<1> QED
  BY <1>3, <1>5, <1>6, <1>7

LEMMA RefreshKeeps ==
    ASSUME IInv, Refresh
    PROVE  IInv'
<1>1. /\ TypeOK /\ Positioned /\ state \in States /\ Met(state) /\ KeyFits(state)
      /\ pc = "refresh" /\ state.id \in Ids /\ resp = NoState /\ ~asked
  BY DEF IInv, TypeOK, Refresh, Positioned, Sending
<1>2. UNCHANGED <<conn, pending, failed, install, wire, others, want, asked, resp,
                  clean, freed>>
  BY DEF Refresh, localOnly, platform
<1>3. \A i \in Ids : Live(i) /\ conn[i].origin = "ours" => i = state.id
  BY <1>1, OwnTracked
<1>4. OneCreate'
  BY <1>1, <1>2 DEF IInv, OneCreate
<1>5. Removed'
  BY <1>2 DEF IInv, Removed
<1>6. Met(resp)' /\ KeyFits(resp)'
  BY <1>1, <1>2, IdsFacts DEF Met, KeyFits, Live, NoState
<1>7. CASE ~Live(state.id)
  <2>1. pc' = "create" /\ state' = NoState /\ replacing' = replacing
    BY <1>7 DEF Refresh, Forgotten
  <2>2. TypeOK'
    BY <1>1, <1>2, <2>1, NoStateType DEF TypeOK, Sending
  <2>3. Positioned'
    BY <1>1, <1>2, <2>1 DEF Positioned, Sending
  <2>4. Met(state)' /\ KeyFits(state)'
    BY <2>1, IdsFacts DEF Met, KeyFits, Live, NoState
  <2>5. NoSilentOrphan'
    BY <1>2, <1>3, <1>7 DEF NoSilentOrphan, Live
  <2>6. CleanAt'
    BY <2>1 DEF CleanAt
  <2> QED
    BY <1>4, <1>5, <1>6, <2>2, <2>3, <2>4, <2>5, <2>6 DEF IInv
<1>8. CASE Live(state.id)
  <2>1. /\ state' = ReadState(state) /\ pc' = Planned(state')
        /\ replacing' = state.tainted
    BY <1>8 DEF Refresh
  <2>2. /\ ReadState(state) \in States /\ ReadState(state).id = state.id
        /\ ReadState(state).key = KeyRead(state)
        /\ ReadState(state).ver = state.ver
        /\ ReadState(state).opt = conn[state.id].opt
        /\ Met(ReadState(state)) /\ KeyFits(ReadState(state))
        /\ KeyRead(state) # NoKey => KeyRead(state) = state.key /\ Current(state)
    BY <1>1, <1>8, ReadStateFacts
  <2>3. /\ state' \in States /\ state'.id = state.id
        /\ state'.key = KeyRead(state) /\ state'.ver = state.ver
        /\ state'.opt = conn[state.id].opt
    BY <2>1, <2>2
  <2>4. /\ pc' \in {"delete", "patch", "idle"}
        /\ pc' = "idle" => /\ ~state'.tainted /\ state'.key = want.key
                           /\ state'.opt = want.opt
    BY <2>1 DEF Planned
  <2>5. state.id # NoId /\ state.tainted \in BOOLEAN
    BY <1>1, IdsFacts DEF States
  <2>6. TypeOK'
    BY <1>1, <1>2, <2>1, <2>3, <2>4, <2>5 DEF TypeOK, Sending
  <2>7. Positioned'
    BY <1>1, <1>2, <2>3, <2>4 DEF Positioned
  <2>8. Met(state)' /\ KeyFits(state)'
    <3>1. Met(state') /\ KeyFits(state')
      BY <2>1, <2>2
    <3> QED
      BY <1>2, <3>1 DEF Met, KeyFits, Live
  <2>9. NoSilentOrphan'
    BY <1>2, <1>3, <2>3 DEF NoSilentOrphan, Live
  <2>10. want.key # NoKey
    BY <1>1, KeysAssumption DEF TypeOK, Configs, NoKey
  <2>11. state'.key = want.key => Current(state)'
    <3>1. state'.key = want.key => Current(state)
      BY <2>2, <2>3, <2>10
    <3> QED
      BY <1>2, <2>3, <3>1 DEF Current
  <2>12. CleanAt'
    BY <1>2, <2>3, <2>4, <2>11 DEF CleanAt
  <2> QED
    BY <1>4, <1>5, <1>6, <2>6, <2>7, <2>8, <2>9, <2>12 DEF IInv
<1> QED
  BY <1>7, <1>8

\* A request goes out; a create's when nothing of the block's own stands.
LEMMA SendKeeps ==
    ASSUME IInv, Send \/ Resend
    PROVE  IInv'
<1>1. TypeOK /\ Positioned /\ pc \in Sending
  BY DEF IInv, Send, Resend, Sending
<1>2. /\ asked' = TRUE /\ wire' = wire \cup {Request}
      /\ UNCHANGED <<conn, pending, failed, install, others, want, pc, replacing,
                     state, resp, clean, freed>>
  BY <1>1 DEF Send, Resend, platform, TypeOK
<1>3. TypeOK'
  BY <1>1, <1>2, RequestType DEF TypeOK
<1>4. Positioned'
  BY <1>1, <1>2 DEF Positioned
<1>5. /\ Met(state)' /\ Met(resp)' /\ KeyFits(state)' /\ KeyFits(resp)'
      /\ Removed' /\ CleanAt'
  BY <1>2 DEF IInv, Met, KeyFits, Live, Removed, CleanAt, Current
<1>6. NoSilentOrphan'
  BY <1>2 DEF IInv, NoSilentOrphan, Live
<1>7. OneCreate'
  <2>1. CASE pc = "create"
    <3>1. ~asked /\ state.id = NoId
      BY <1>1, <2>1 DEF Send, Resend, Positioned, NoState
    <3>2. /\ NoneWaiting
          /\ \A i \in Ids : Live(i) => conn[i].origin # "ours"
      BY <2>1, <3>1, OwnTracked, IdsFacts
    <3>3. Request.key = want.key /\ Request.opt = want.opt
      BY <2>1 DEF Request
    <3> QED
      BY <1>2, <2>1, <3>2, <3>3 DEF OneCreate, NoneWaiting, Live
  <2>2. CASE pc # "create"
    <3>1. Request.op # "create"
      BY <1>1, <2>2 DEF Request, PatchBody, Sending
    <3> QED
      BY <1>2, <2>2, <3>1 DEF IInv, OneCreate
  <2> QED
    BY <2>1, <2>2
<1> QED
  BY <1>3, <1>4, <1>5, <1>6, <1>7 DEF IInv

\* What the practitioner does between the calls, an apply that begins included.
LEMMA UserKeeps ==
    ASSUME IInv, Edit \/ Apply \/ UserDestroys
    PROVE  IInv'
<1>1. TypeOK /\ Positioned /\ pc = "idle" /\ ~asked /\ resp = NoState
  BY DEF IInv, Edit, Apply, UserDestroys, Positioned, Sending
<1>2. /\ UNCHANGED <<conn, pending, failed, install, wire, others, asked, state,
                     resp, freed>>
      /\ want' \in Configs /\ clean' \in BOOLEAN /\ replacing' \in BOOLEAN
      /\ \/ pc' = "idle" /\ clean' = FALSE
         \/ pc' = "create" /\ state.id = NoId
         \/ pc' \in {"refresh", "delete"} /\ state.id # NoId
  BY <1>1 DEF Edit, Apply, UserDestroys, localOnly, platform, TypeOK
<1>3. state \in States /\ (state.id = NoId => state = NoState)
  BY <1>1 DEF TypeOK
<1>4. TypeOK'
  BY <1>1, <1>2 DEF TypeOK, Sending
<1>5. Positioned'
  <2>1. state.id \in Ids \cup {NoId}
    BY <1>3 DEF States
  <2> QED
    BY <1>1, <1>2, <1>3, <2>1 DEF Positioned
<1>6. /\ Met(state)' /\ Met(resp)' /\ KeyFits(state)' /\ KeyFits(resp)'
      /\ Removed'
  BY <1>2 DEF IInv, Met, KeyFits, Live, Removed
<1>7. OneCreate'
  BY <1>1, <1>2 DEF IInv, OneCreate
<1>8. NoSilentOrphan'
  BY <1>1, <1>2 DEF IInv, NoSilentOrphan, Live
<1>9. CleanAt'
  BY <1>2 DEF CleanAt
<1> QED
  BY <1>4, <1>5, <1>6, <1>7, <1>8, <1>9 DEF IInv

\* A connection that was left behind is taken over without its key.
LEMMA ImportKeeps ==
    ASSUME IInv, NEW i \in Ids, Import(i)
    PROVE  IInv'
<1>1. /\ TypeOK /\ Positioned /\ pc = "idle" /\ resp = NoState /\ state.id = NoId
      /\ Removed /\ NoneWaiting
      /\ \A j \in Ids : Live(j) /\ conn[j].origin = "ours" => j = state.id
  BY OwnTracked DEF IInv, Import, Positioned
<1>2. /\ UNCHANGED <<pending, failed, install, wire, others, want, pc, asked,
                     replacing, resp, freed>>
      /\ clean' = FALSE
      /\ state' = [NoState EXCEPT !.id = i, !.opt = conn[i].opt]
      /\ conn' = [conn EXCEPT ![i].origin = "ours"]
      /\ conn[i].life = "live"
  BY DEF Import, Live
<1>3. conn \in [Ids -> Conns] /\ conn[i] \in Conns
  BY <1>1 DEF TypeOK
<1>4. conn[i].opt \in Opts /\ conn[i].ver \in Nat
  BY <1>3 DEF Conns
<1>5. state' = [id |-> i, key |-> NoKey, ver |-> NoVer, opt |-> conn[i].opt,
                tainted |-> FALSE]
  BY <1>2 DEF NoState
<1>6. /\ state' \in States /\ state'.id = i /\ state'.key = NoKey
      /\ state'.ver = 0
  BY <1>4, <1>5 DEF States, NoVer
<1>7. conn'[i] = [life |-> "live", key |-> conn[i].key, ver |-> conn[i].ver,
                  opt |-> conn[i].opt, origin |-> "ours"]
  BY <1>2, <1>3 DEF Conns
<1>8. /\ conn'[i] \in Conns /\ conn'[i].life = "live"
      /\ conn'[i].ver = conn[i].ver /\ conn'[i].key = conn[i].key
      /\ \A j \in Ids : j # i => conn'[j] = conn[j]
  BY <1>2, <1>3, <1>7 DEF Conns, Lives, Origins
<1>9. conn' \in [Ids -> Conns]
  BY <1>2, <1>3, <1>8
<1>10. TypeOK'
  BY <1>1, <1>2, <1>6, <1>9, IdsFacts DEF TypeOK
<1>11. Positioned'
  BY <1>1, <1>2 DEF Positioned, Sending
<1>12. Met(state)' /\ KeyFits(state)'
  BY <1>4, <1>6, <1>8 DEF Met, KeyFits
<1>13. Met(resp)' /\ KeyFits(resp)'
  BY <1>1, <1>2, IdsFacts DEF Met, KeyFits, Live, NoState
<1>14. Removed'
  BY <1>1, <1>2, <1>8 DEF Removed, TypeOK
<1>15. OneCreate'
  BY <1>1, <1>2 DEF OneCreate, NoneWaiting
<1>16. NoSilentOrphan'
  BY <1>1, <1>6, <1>8, IdsFacts DEF NoSilentOrphan, Live
<1>17. CleanAt'
  BY <1>2 DEF CleanAt
<1> QED
  BY <1>10, <1>11, <1>12, <1>13, <1>14, <1>15, <1>16, <1>17 DEF IInv

-----------------------------------------------------------------------------
(* The induction.                                                          *)

LEMMA InitInv == Init => IInv
<1> SUFFICES ASSUME Init PROVE IInv
  OBVIOUS
<1>1. Blank("unused") \in Conns /\ Blank("unused").life = "unused"
  BY BlankType DEF Lives
<1>2. \A i \in Ids : conn[i] = Blank("unused")
  BY DEF Init
<1>3. TypeOK
  <2>1. conn \in [Ids -> Conns]
    BY <1>1 DEF Init
  <2>2. others \in 0..MaxOthers
    BY OthersAssumption DEF Init
  <2> QED
    BY <2>1, <2>2, NoStateType DEF Init, TypeOK
<1>4. \A i : ~Live(i)
  BY <1>1, <1>2 DEF Live
<1>5. Positioned
  BY DEF Init, Positioned
<1>6. Met(state) /\ Met(resp) /\ KeyFits(state) /\ KeyFits(resp)
  BY <1>4 DEF Init, Met, KeyFits, NoState
<1>7. OneCreate /\ NoSilentOrphan /\ Removed /\ CleanAt
  BY <1>4 DEF Init, OneCreate, NoSilentOrphan, Removed, CleanAt
<1> QED
  BY <1>3, <1>5, <1>6, <1>7 DEF IInv

LEMMA HandleKeeps ==
    ASSUME IInv, NEW r \in wire, Handle(r)
    PROVE  IInv'
<1>1. ASSUME NEW clear \in BOOLEAN, NEW i \in Ids, Record(r, i, clear) PROVE IInv'
  BY <1>1, RecordHeardKeeps, RecordUnheardKeeps
<1>2. ASSUME NEW clear \in BOOLEAN, Patch(r, clear) PROVE IInv'
  BY <1>2, PatchHeardKeeps, PatchUnheardKeeps
<1>3. ASSUME NEW clear \in BOOLEAN, Remove(r, clear) PROVE IInv'
  BY <1>3, RemoveHeardKeeps, RemoveUnheardKeeps
<1>4. ASSUME NEW clear \in BOOLEAN, DeleteAgain(r, clear) PROVE IInv'
  BY <1>4, DeleteAgainKeeps
<1> QED
  BY <1>1, <1>2, <1>3, <1>4, TurnAwayKeeps, RefuseKeeps DEF Handle

LEMMA StutterKeeps == IInv /\ UNCHANGED vars => IInv'
BY DEF IInv, vars, platform, TypeOK, Positioned, Met, KeyFits, OneCreate, Live,
       NoSilentOrphan, Removed, CleanAt, Current

LEMMA NextKeeps == IInv /\ [Next]_vars => IInv'
<1> SUFFICES ASSUME IInv, Next PROVE IInv'
  BY StutterKeeps
<1>1. CASE Provider
  BY <1>1, UserKeeps, SendKeeps, RefreshKeeps, WaitKeeps, GoneKeeps DEF Provider
<1>2. CASE Resend
  BY <1>2, SendKeeps
<1>3. CASE Failure
  BY <1>3, LeftKeeps, ThrottledKeeps, LostAnswerKeeps, WaitKeeps, GoneKeeps DEF Failure
<1>4. CASE Platform
  BY <1>4, HandleKeeps, NodeKeeps, OtherRemovesKeeps, OtherCreatesKeeps,
     RotateKeeps, SiblingKeeps DEF Platform
<1>5. CASE User
  BY <1>5, UserKeeps, ImportKeeps DEF User
<1> QED
  BY <1>1, <1>2, <1>3, <1>4, <1>5 DEF Next

\* The inductive invariant holds throughout: what the positions of a call hold,
\* and what the stored key, the requests on their way and the history are worth.
THEOREM Invariance == Spec => []IInv
BY InitInv, NextKeeps, PTL DEF Spec

\* Every variable keeps its type, and a state without an id is empty.
THEOREM TypeCorrect == Spec => []TypeOK
<1>1. IInv => TypeOK
  BY DEF IInv
<1> QED
  BY <1>1, Invariance, PTL

\* Whoever rotated the key, and whatever arrived late: where the versions agree,
\* the key in the state is the key of the connection (setPSKVersion, Read).
THEOREM KeyTrustworthy == Spec => []KeyTrusted
<1>1. IInv => KeyTrusted
  BY DEF IInv, KeyFits, KeyTrusted
<1> QED
  BY <1>1, Invariance, PTL

\* A connection this block made is in the state, on its way there, or one the
\* practitioner was told of (the single attempt of Create, and its message).  Two
\* it does not cover: what a killed provider recorded, and a create that was
\* recorded although a 429 answered it ("untold").
THEOREM NeverOrphansSilently == Spec => []NoSilentOrphan
<1>1. IInv => NoSilentOrphan
  BY DEF IInv
<1> QED
  BY <1>1, Invariance, PTL

\* What Delete reported as confirmed is gone for good, and nothing of it is
\* pending (waitGatewayApplied after the delete and after a 404).
THEOREM ConfirmedIsFree == Spec => []FreedMeansFree
<1>1. IInv => FreedMeansFree
  BY DEF IInv, Removed, FreedMeansFree, Live
<1> QED
  BY <1>1, Invariance, PTL

\* After an apply without an error, and no steps of others, the next plan is
\* empty (what Create and Update save, and what Read compares).
THEOREM PlanIsEmpty == Spec => []EmptyPlan
<1>1. IInv => EmptyPlan
  <2> SUFFICES ASSUME IInv, pc = "idle", clean, Live(state.id)
               PROVE  Planned(ReadState(state)) = "idle"
    BY DEF EmptyPlan
  <2>1. /\ ~state.tainted /\ state.key = want.key
        /\ conn[state.id].opt = want.opt
        /\ Current(state)
    BY DEF IInv, CleanAt
  <2>2. /\ TypeOK /\ state \in States /\ Met(state) /\ KeyFits(state)
    BY DEF IInv, TypeOK
  <2>3. KeyRead(state) = state.key
    BY <2>1 DEF KeyRead, Current
  <2>4. /\ ReadState(state).key = KeyRead(state)
        /\ ReadState(state).opt = conn[state.id].opt
        /\ ReadState(state).tainted = state.tainted
    BY <2>2, ReadStateFacts
  <2> QED
    BY <2>1, <2>3, <2>4 DEF Planned
<1> QED
  BY <1>1, Invariance, PTL
=============================================================================
