------------------------ MODULE VolumeSnapshotProofs ------------------------
(***************************************************************************)
(* For any number of creators, ids and interlopers: the types of           *)
(* VolumeSnapshot, one snapshot per create, that definite errors record    *)
(* nothing, and, when rows show at once, that a resource never takes over  *)
(* a snapshot it saw before it sent (IInv); for a create that has the name *)
(* to itself, that no snapshot is left that nobody tracks (AloneInv).      *)
(***************************************************************************)
EXTENDS VolumeSnapshot, TLAPS

Definite == {"taken", "unchecked", "refused", "pending"}

Clean(c) == Own(c) = {} /\ wire[c] = 0

\* Where the create will send again, and where it will say or has said that
\* nothing was recorded, nothing of it is on the platform or on its way.
CleanWhereDefinite ==
    \A c \in Creators :
       \/ pc[c] \in {"check", "refresh", "send"}
       \/ pc[c] = "answered" /\ answer[c] \in {"transient", "refused"}
       \/ report[c] \in Definite
       => Clean(c)

\* Only a create that has returned has a report.
ReportWhenSettled ==
    \A c \in Creators : report[c] # "none" => pc[c] \in {"settled", "deleteWait"}

\* The inductive invariant.
IInv ==
    /\ TypeOK
    /\ OneSnapshotPerCreate
    /\ CleanWhereDefinite
    /\ ReportWhenSettled

-----------------------------------------------------------------------------
(* The steps of the platform and of everybody else.                        *)

\* A new row of another owner takes nothing from a creator's view of its own.
LEMMA NewRowOwners ==
    ASSUME TypeOK, NEW i \in Ids, NEW o \in Creators \cup {Someone}, NewRow(i, o)
    PROVE  /\ status' \in [Ids -> Statuses]
           /\ by' \in [Ids -> Creators \cup {Someone}]
           /\ \A c \in Creators : c # o => Own(c)' \subseteq Own(c)
           /\ \A c \in Creators : Own(c)' \subseteq Own(c) \cup {i}
BY DEF NewRow, TypeOK, Own, Statuses, Shown

\* Steps that leave the owners, the wire and the reports alone, and take the
\* create nowhere it must be clean.
LEMMA QuietStep ==
    ASSUME IInv, TypeOK',
           \A c \in Creators : Own(c)' \subseteq Own(c),
           UNCHANGED wire,
           \A c \in Creators :
              \/ report'[c] = report[c]
              \/ pc'[c] = "settled" /\ (report'[c] \in Definite => Clean(c)),
           \A c \in Creators :
              \/ pc'[c] = pc[c] /\ answer'[c] = answer[c]
              \/ pc'[c] = "answered" /\ answer'[c] = "uncertain"
                   /\ report[c] = "none"
              \/ pc'[c] \in {"settled", "deleteWait"}
              \/ /\ pc'[c] \in Positions \ {"answered", "settled", "deleteWait"}
                 /\ report'[c] = "none"
                 /\ pc'[c] \in {"check", "refresh", "send"} => Clean(c)
    PROVE  IInv'
<1>1. OneSnapshotPerCreate'
  BY DEF IInv, OneSnapshotPerCreate
<1>2. \A c \in Creators : Clean(c) => Clean(c)'
  BY DEF Clean
<1>3. CleanWhereDefinite'
  BY <1>2 DEF IInv, CleanWhereDefinite, Positions, ReportWhenSettled, Definite
<1>4. ReportWhenSettled'
  BY DEF IInv, ReportWhenSettled, Positions
<1> QED
  BY <1>1, <1>3, <1>4 DEF IInv

\* Reply moves an answer into a waiting create and nothing else.
LEMMA ReplyStep ==
    ASSUME TypeOK, NEW c \in Creators, NEW a \in Answers, Reply(c, a)
    PROVE  /\ pc' \in [Creators -> Positions]
           /\ answer' \in [Creators -> Answers]
           /\ \A d \in Creators :
                 \/ pc'[d] = pc[d] /\ answer'[d] = answer[d]
                 \/ d = c /\ pc[c] = "sent" /\ pc'[c] = "answered" /\ answer'[c] = a
BY DEF Reply, TypeOK, Positions

LEMMA RecordsKeepsInv ==
    ASSUME IInv, NEW c \in Creators, PlatformRecords(c)
    PROVE  IInv'
<1>1. TypeOK
  BY DEF IInv
<1>2. PICK i \in Ids : NewRow(i, c)
  BY DEF PlatformRecords
<1>3. Reply(c, "ok") /\ Arrive(c)
  BY DEF PlatformRecords
<1>4. "ok" \in Answers
  BY DEF Answers
<1>5. wire[c] = 1 /\ Own(c) = {}
  BY <1>1, <1>3 DEF IInv, OneSnapshotPerCreate, Arrive, TypeOK
<1>6. /\ wire' \in [Creators -> Nat]
      /\ wire'[c] = 0
      /\ \A d \in Creators : d # c => wire'[d] = wire[d]
  BY <1>1, <1>3, <1>5 DEF Arrive, TypeOK
<1>7. TypeOK'
  BY <1>1, <1>2, <1>3, <1>4, <1>6, NewRowOwners, ReplyStep DEF Arrive, TypeOK
<1>8. /\ Own(c)' \subseteq {i}
      /\ \A d \in Creators : d # c => Own(d)' \subseteq Own(d)
  BY <1>1, <1>2, <1>5, NewRowOwners
<1>9. OneSnapshotPerCreate'
  BY <1>6, <1>8 DEF IInv, OneSnapshotPerCreate
<1>10. \A d \in Creators :
         \/ pc'[d] = pc[d] /\ answer'[d] = answer[d]
         \/ d = c /\ pc'[c] = "answered" /\ answer'[c] = "ok" /\ pc[c] = "sent"
  BY <1>1, <1>3, <1>4, ReplyStep
<1>11. ~Clean(c)
  BY <1>5 DEF Clean
<1>12. \A d \in Creators : d # c /\ Clean(d) => Clean(d)'
  BY <1>6, <1>8 DEF Clean
<1>13. report' = report
  BY <1>3 DEF Arrive
<1>14. CleanWhereDefinite'
  BY <1>10, <1>11, <1>12, <1>13 DEF IInv, CleanWhereDefinite
<1>15. ReportWhenSettled'
  BY <1>10, <1>13 DEF IInv, ReportWhenSettled
<1> QED
  BY <1>7, <1>9, <1>14, <1>15 DEF IInv

LEMMA RefusesKeepsInv ==
    ASSUME IInv, NEW c \in Creators, PlatformRefuses(c)
    PROVE  IInv'
<1>1. TypeOK
  BY DEF IInv
<1>2. PICK a \in {"transient", "refused"} : Reply(c, a)
  BY DEF PlatformRefuses
<1>3. a \in Answers
  BY DEF Answers
<1>4. Arrive(c) /\ UNCHANGED platform
  BY DEF PlatformRefuses
<1>5. wire[c] = 1 /\ Own(c) = {}
  BY <1>1, <1>4 DEF IInv, OneSnapshotPerCreate, Arrive, TypeOK
<1>6. /\ wire' \in [Creators -> Nat]
      /\ wire'[c] = 0
      /\ \A d \in Creators : d # c => wire'[d] = wire[d]
  BY <1>1, <1>4, <1>5 DEF Arrive, TypeOK
<1>7. TypeOK'
  BY <1>1, <1>2, <1>3, <1>4, <1>6, ReplyStep DEF Arrive, TypeOK, platform
<1>8. \A d \in Creators : Own(d)' = Own(d)
  BY <1>4 DEF Own, platform
<1>9. OneSnapshotPerCreate'
  BY <1>6, <1>8 DEF IInv, OneSnapshotPerCreate
<1>10. /\ Clean(c)'
       /\ \A d \in Creators : Clean(d) => Clean(d)'
  BY <1>5, <1>6, <1>8 DEF Clean
<1>11. \A d \in Creators :
         \/ pc'[d] = pc[d] /\ answer'[d] = answer[d]
         \/ d = c /\ pc'[c] = "answered" /\ pc[c] = "sent"
  BY <1>1, <1>2, <1>3, ReplyStep
<1>12. report' = report
  BY <1>4 DEF Arrive
<1>13. CleanWhereDefinite'
  BY <1>10, <1>11, <1>12 DEF IInv, CleanWhereDefinite
<1>14. ReportWhenSettled'
  BY <1>11, <1>12 DEF IInv, ReportWhenSettled
<1> QED
  BY <1>7, <1>9, <1>13, <1>14 DEF IInv

LEMMA SomeoneKeepsInv ==
    ASSUME IInv, NEW i \in Ids,
           \/ RowShows(i) \/ CaptureEnds(i) \/ RemovalEnds(i)
           \/ SomeoneCreates(i) \/ SomeoneDeletes(i)
    PROVE  IInv'
<1>1. TypeOK
  BY DEF IInv
<1>2. UNCHANGED <<wire, platformOnly>>
  BY DEF RowShows, CaptureEnds, RemovalEnds, SomeoneCreates, SomeoneDeletes
<1>3. /\ status' \in [Ids -> Statuses]
      /\ by' \in [Ids -> Creators \cup {Someone}]
      /\ \A c \in Creators : Own(c)' \subseteq Own(c)
  <2>1. CASE SomeoneCreates(i)
    BY <2>1, <1>1, NewRowOwners, SomeoneAssumption DEF SomeoneCreates
  <2>2. CASE RowShows(i) \/ CaptureEnds(i) \/ RemovalEnds(i) \/ SomeoneDeletes(i)
    BY <2>2, <1>1 DEF RowShows, CaptureEnds, RemovalEnds, SomeoneDeletes, TypeOK,
           Statuses, Shown, Own
  <2> QED
    BY <2>1, <2>2
<1>4. TypeOK'
  BY <1>1, <1>2, <1>3 DEF TypeOK, platformOnly
<1> QED
  BY <1>2, <1>3, <1>4, QuietStep DEF platformOnly

-----------------------------------------------------------------------------
(* The steps of the create and of the resource's later life.               *)

LEMMA SendKeepsInv ==
    ASSUME IInv, NEW c \in Creators, Send(c)
    PROVE  IInv'
<1>1. TypeOK
  BY DEF IInv
<1>2. pc[c] = "send" /\ Own(c) = {} /\ wire[c] = 0 /\ report[c] = "none"
  BY DEF IInv, CleanWhereDefinite, ReportWhenSettled, Clean, Send
<1>3. /\ UNCHANGED <<world, platform, removed, before, answer, errs, expired, stateId,
                      existed, report>>
      /\ pc' \in [Creators -> Positions]
      /\ pc'[c] \in {"adopt", "sent"}
      /\ \A d \in Creators : d # c => pc'[d] = pc[d]
  BY <1>1 DEF Send, GoTo, TypeOK, Positions
<1>4. /\ wire' \in [Creators -> Nat]
      /\ wire'[c] \in {0, 1}
      /\ \A d \in Creators : d # c => wire'[d] = wire[d]
  BY <1>1, <1>2 DEF Send, TypeOK
<1>5. TypeOK'
  BY <1>1, <1>3, <1>4 DEF TypeOK, platform
<1>6. \A d \in Creators : Own(d)' = Own(d)
  BY <1>3 DEF Own, platform
<1>7. OneSnapshotPerCreate'
  BY <1>2, <1>4, <1>6 DEF IInv, OneSnapshotPerCreate
<1>8. CleanWhereDefinite'
  BY <1>2, <1>3, <1>4, <1>6 DEF IInv, CleanWhereDefinite, Clean, Definite
<1>9. ReportWhenSettled'
  BY <1>2, <1>3 DEF IInv, ReportWhenSettled
<1> QED
  BY <1>5, <1>7, <1>8, <1>9 DEF IInv

\* A step of one create that reads and decides.
LEMMA DecisionKeepsInv ==
    ASSUME IInv, TypeOK', NEW c \in Creators,
           pc[c] \notin {"settled", "deleteWait"},
           UNCHANGED <<by, wire, answer>>,
           \/ \E p \in Positions \ {"answered", "settled", "deleteWait"} :
                 /\ GoTo(c, p)
                 /\ p \in {"check", "refresh", "send"} => Clean(c)
           \/ \E r \in Reports : Return(c, r) /\ (r \in Definite => Clean(c))
    PROVE  IInv'
<1>1. TypeOK /\ report[c] = "none"
  BY DEF IInv, ReportWhenSettled
<1>2. \A d \in Creators : Own(d)' \subseteq Own(d)
  BY DEF Own
<1>3. \A d \in Creators : d # c => pc'[d] = pc[d] /\ report'[d] = report[d]
  BY <1>1 DEF GoTo, Return, TypeOK
<1>4. CASE \E p \in Positions \ {"answered", "settled", "deleteWait"} :
              GoTo(c, p) /\ (p \in {"check", "refresh", "send"} => Clean(c))
  <2>1. PICK p \in Positions \ {"answered", "settled", "deleteWait"} :
              GoTo(c, p) /\ (p \in {"check", "refresh", "send"} => Clean(c))
    BY <1>4
  <2>2. pc'[c] = p /\ report' = report
    BY <1>1, <2>1 DEF GoTo, TypeOK
  <2> QED
    BY <1>1, <1>2, <1>3, <2>1, <2>2, QuietStep
<1>5. CASE \E r \in Reports : Return(c, r) /\ (r \in Definite => Clean(c))
  <2>1. PICK r \in Reports : Return(c, r) /\ (r \in Definite => Clean(c))
    BY <1>5
  <2>2. pc'[c] = "settled" /\ report'[c] = r
    BY <1>1, <2>1 DEF Return, TypeOK
  <2> QED
    BY <1>1, <1>2, <1>3, <2>1, <2>2, QuietStep
<1> QED
  BY <1>4, <1>5

\* The types under the two ways a create goes on.
LEMMA GoesOnType ==
    ASSUME TypeOK, NEW c \in Creators,
           \/ \E p \in Positions : GoTo(c, p)
           \/ \E r \in Reports : Return(c, r)
    PROVE  pc' \in [Creators -> Positions] /\ report' \in [Creators -> Reports]
BY DEF GoTo, Return, TypeOK, Positions

LEMMA CreateKeepsInv ==
    ASSUME IInv, NEW c \in Creators, Create(c)
    PROVE  IInv'
<1> USE DEF createOnly, platform
<1>1. TypeOK
  BY DEF IInv
<1>2. pc[c] \in {"check", "refresh", "send"} => Clean(c)
  BY DEF IInv, CleanWhereDefinite
<1>3. pc[c] = "answered" /\ answer[c] \in {"transient", "refused"} => Clean(c)
  BY DEF IInv, CleanWhereDefinite
<1>4. ASSUME Check(c) PROVE IInv'
  <2>1. existed' \in [Creators -> SUBSET Ids]
    BY <1>1, <1>4 DEF Check, TypeOK, Existing
  <2>2. GoTo(c, "send") \/ Return(c, "unchecked") \/ Return(c, "taken")
    BY <1>4 DEF Check
  <2>3. TypeOK'
    BY <1>1, <1>4, <2>1, <2>2, GoesOnType DEF Check, TypeOK, Positions, Reports
  <2> QED
    BY <1>2, <1>4, <2>2, <2>3, DecisionKeepsInv DEF Check, Positions, Reports
<1>5. ASSUME Refresh(c) PROVE IInv'
  <2>1. /\ existed' \in [Creators -> SUBSET Ids]
        /\ before' \in [Creators -> SUBSET Ids]
    BY <1>1, <1>5 DEF Refresh, TypeOK, Existing, Named
  <2>2. TypeOK'
    BY <1>1, <1>5, <2>1, GoesOnType DEF Refresh, TypeOK, Positions
  <2> QED
    BY <1>2, <1>5, <2>2, DecisionKeepsInv DEF Refresh, Positions
<1>6. ASSUME SendCut(c) PROVE IInv'
  <2>1. TypeOK'
    BY <1>1, <1>6, GoesOnType DEF SendCut, TypeOK, Positions
  <2> QED
    BY <1>6, <2>1, DecisionKeepsInv DEF SendCut, Positions
<1>7. ASSUME Classify(c) PROVE IInv'
  <2>1. \/ GoTo(c, "resolve") \/ GoTo(c, "adopt")
        \/ /\ answer[c] \in {"transient", "refused"}
           /\ \/ GoTo(c, "refresh")
              \/ Return(c, "refused")
              \/ Return(c, "pending")
    BY <1>7 DEF Classify, WaitOut
  <2>2. TypeOK'
    BY <1>1, <1>7, <2>1, GoesOnType DEF Classify, TypeOK, Positions, Reports
  <2> QED
    BY <1>3, <1>7, <2>1, <2>2, DecisionKeepsInv DEF Classify, Positions, Reports
<1>8. ASSUME Adopt(c) \/ Resolve(c) PROVE IInv'
  <2>1. \/ GoTo(c, "wait") \/ Return(c, "inDoubt") \/ Return(c, "unresolved")
    BY <1>8 DEF Adopt, Resolve, Track
  <2>2. stateId' \in [Creators -> Ids \cup {NoId}]
    BY <1>1, <1>8 DEF Adopt, Resolve, Track, TypeOK
  <2>3. TypeOK'
    BY <1>1, <1>8, <2>1, <2>2, GoesOnType
       DEF Adopt, Resolve, TypeOK, Positions, Reports
  <2>4. pc[c] \in {"adopt", "resolve"} /\ UNCHANGED <<by, wire, answer>>
    BY <1>8 DEF Adopt, Resolve
  <2> QED
    BY <2>1, <2>3, <2>4, DecisionKeepsInv DEF Positions, Reports, Definite
<1>9. ASSUME Wait(c) PROVE IInv'
  <2>1. GoTo(c, "wait") \/ GoTo(c, "hydrate") \/ Return(c, "notReady")
    BY <1>9 DEF Wait
  <2>2. errs' \in [Creators -> 0..MaxReadErrors]
    BY <1>1, <1>9 DEF Wait, Tolerate, TypeOK, MaxReadErrors
  <2>3. TypeOK'
    BY <1>1, <1>9, <2>1, <2>2, GoesOnType DEF Wait, TypeOK, Positions, Reports
  <2> QED
    BY <1>9, <2>1, <2>3, DecisionKeepsInv DEF Wait, Positions, Reports, Definite
<1>10. ASSUME Hydrate(c) PROVE IInv'
  <2>1. Return(c, "unread") \/ Return(c, "ok")
    BY <1>10 DEF Hydrate
  <2>2. TypeOK'
    BY <1>1, <1>10, <2>1, GoesOnType DEF Hydrate, TypeOK, Reports
  <2> QED
    BY <1>10, <2>1, <2>2, DecisionKeepsInv DEF Hydrate, Reports, Definite
<1> QED
  BY <1>4, <1>5, <1>6, <1>7, <1>8, <1>9, <1>10, SendKeepsInv DEF Create

LEMMA LifeKeepsInv ==
    ASSUME IInv, NEW c \in Creators, Life(c)
    PROVE  IInv'
<1>1. TypeOK
  BY DEF IInv
<1>2. UNCHANGED lifeOnly /\ pc[c] \in {"settled", "deleteWait"}
  BY DEF Life, Read, Delete, DeleteWait, Tracked
<1>3. /\ pc' \in [Creators -> Positions]
      /\ \A d \in Creators : pc'[d] = pc[d] \/ pc'[d] \in {"settled", "deleteWait"}
  BY <1>1 DEF Life, Read, Delete, DeleteWait, TypeOK, Positions
<1>4. status' \in [Ids -> Statuses]
  BY <1>1 DEF Life, Read, Delete, DeleteWait, Tracked, TypeOK, Statuses, Shown
<1>5. removed' \in [Creators -> {"none", "ok", "error"}]
  BY <1>1 DEF Life, Read, Delete, DeleteWait, TypeOK
<1>6. stateId' \in [Creators -> Ids \cup {NoId}]
  BY <1>1 DEF Life, Read, Delete, DeleteWait, TypeOK
<1>7. TypeOK'
  BY <1>1, <1>2, <1>3, <1>4, <1>5, <1>6 DEF TypeOK, lifeOnly
<1>8. \A d \in Creators : Own(d)' \subseteq Own(d)
  BY <1>2 DEF Own, lifeOnly
<1> QED
  BY <1>2, <1>3, <1>7, <1>8, QuietStep DEF lifeOnly

LEMMA FaultKeepsInv ==
    ASSUME IInv, NEW c \in Creators, AnswerLost(c) \/ Deadline(c)
    PROVE  IInv'
<1>1. TypeOK
  BY DEF IInv
<1>2. CASE AnswerLost(c)
  <2>1. "uncertain" \in Answers
    BY DEF Answers
  <2>2. TypeOK'
    BY <1>1, <1>2, <2>1, ReplyStep DEF AnswerLost, TypeOK, platform
  <2>3. /\ UNCHANGED <<by, wire, report>>
        /\ pc[c] = "sent"
        /\ Reply(c, "uncertain")
    BY <1>2 DEF AnswerLost, platform
  <2>4. \A d \in Creators : Own(d)' \subseteq Own(d)
    BY <2>3 DEF Own
  <2>5. report[c] = "none"
    BY <2>3 DEF IInv, ReportWhenSettled
  <2> QED
    BY <1>1, <2>1, <2>2, <2>3, <2>4, <2>5, ReplyStep, QuietStep
<1>3. CASE Deadline(c)
  <2>1. TypeOK'
    BY <1>1, <1>3 DEF Deadline, TypeOK, platform
  <2>2. \A d \in Creators : Own(d)' \subseteq Own(d)
    BY <1>3 DEF Deadline, Own, platform
  <2> QED
    BY <1>3, <2>1, <2>2, QuietStep DEF Deadline
<1> QED
  BY <1>2, <1>3

-----------------------------------------------------------------------------
(* The theorems.                                                           *)

LEMMA InitInv == Init => IInv
<1> SUFFICES ASSUME Init PROVE IInv
  OBVIOUS
<1>1. TypeOK
  BY DEF Init, TypeOK, Statuses, Shown, Positions, Answers, Reports, MaxReadErrors
<1>2. \A c \in Creators : Own(c) = {}
  BY SomeoneAssumption DEF Init, Own
<1> QED
  BY <1>1, <1>2 DEF Init, IInv, OneSnapshotPerCreate, CleanWhereDefinite,
     ReportWhenSettled, Clean, Definite

LEMMA NextInv == IInv /\ [Next]_vars => IInv'
<1> SUFFICES ASSUME IInv, [Next]_vars PROVE IInv'
  OBVIOUS
<1>1. CASE UNCHANGED vars
  BY <1>1 DEF IInv, TypeOK, OneSnapshotPerCreate, CleanWhereDefinite,
     ReportWhenSettled, Clean, Own, vars
<1>2. CASE Next
  BY <1>2, RecordsKeepsInv, RefusesKeepsInv, SomeoneKeepsInv, CreateKeepsInv,
     LifeKeepsInv, FaultKeepsInv DEF Next, Platform
<1> QED
  BY <1>1, <1>2

\* The types of the create, the platform and the state hold in every
\* reachable state.
THEOREM TypeCorrect == Spec => []TypeOK
<1>1. IInv => TypeOK
  BY DEF IInv
<1> QED
  BY <1>1, InitInv, NextInv, PTL DEF Spec

\* Sending again after a refusal never makes a second snapshot, for any number
\* of creators and whatever happens to answers and requests.
THEOREM CreatesOnce == Spec => []OneSnapshotPerCreate
<1>1. IInv => OneSnapshotPerCreate
  BY DEF IInv
<1> QED
  BY <1>1, InitInv, NextInv, PTL DEF Spec

\* "Taken", "refused" and a pending admission mean that nothing was recorded
\* and nothing can be recorded later.
THEOREM DefiniteErrors == Spec => []DefiniteErrorsRecordNothing
<1>1. IInv => DefiniteErrorsRecordNothing
  BY DEF IInv, DefiniteErrorsRecordNothing, CleanWhereDefinite, Clean, Definite
<1> QED
  BY <1>1, InitInv, NextInv, PTL DEF Spec
-----------------------------------------------------------------------------
(* What the resource takes over, when rows show as soon as they exist.     *)

NoneHidden == \A i \in Ids : status[i] # "queued"

Sending == {"refresh", "send", "sent", "answered", "adopt", "resolve"}

\* What existed at the last read before the send is excluded from the search.
ExistedExcluded ==
    \A c \in Creators : pc[c] \in Sending => existed[c] \subseteq before[c]

SeenInv ==
    /\ IInv
    /\ NoneHidden
    /\ ExistedExcluded
    /\ TracksOnlyNew

\* The circumstances never change.
LEMMA WorldFixed ==
    ASSUME [Next]_vars
    PROVE  UNCHANGED world
<1> USE DEF platformOnly, createOnly, lifeOnly, Arrive
<1>1. ASSUME Platform PROVE UNCHANGED world
  BY <1>1 DEF Platform, PlatformRecords, PlatformRefuses, RowShows,
     CaptureEnds, RemovalEnds, SomeoneCreates, SomeoneDeletes
<1>2. ASSUME NEW c \in Creators, Create(c) PROVE UNCHANGED world
  BY <1>2 DEF Create, Check, Refresh, Send, SendCut, Classify, Adopt, Resolve,
     Wait, Hydrate
<1>3. ASSUME NEW c \in Creators, Life(c) \/ AnswerLost(c) \/ Deadline(c)
      PROVE  UNCHANGED world
  BY <1>3 DEF Life, Read, Delete, DeleteWait, AnswerLost, Deadline
<1> QED
  BY <1>1, <1>2, <1>3 DEF Next, vars

\* Without a lag the rows are shown at once.
LEMMA RowsShow ==
    ASSUME TypeOK, NoneHidden, ~world.lag, Next
    PROVE  NoneHidden'
<1> USE DEF TypeOK, NoneHidden, platform, createOnly, lifeOnly
<1>1. ASSUME NEW i \in Ids, NEW o, NewRow(i, o) PROVE NoneHidden'
  BY <1>1 DEF NewRow
<1>2. ASSUME Platform PROVE NoneHidden'
  BY <1>1, <1>2 DEF Platform, PlatformRecords, PlatformRefuses, RowShows,
     CaptureEnds, RemovalEnds, SomeoneCreates, SomeoneDeletes
<1>3. ASSUME NEW c \in Creators, Create(c) PROVE NoneHidden'
  BY <1>3 DEF Create, Check, Refresh, Send, SendCut, Classify, Adopt, Resolve,
     Wait, Hydrate
<1>4. ASSUME NEW c \in Creators, Life(c) \/ AnswerLost(c) \/ Deadline(c)
      PROVE  NoneHidden'
  BY <1>4 DEF Life, Read, Delete, DeleteWait, AnswerLost, Deadline
<1> QED
  BY <1>2, <1>3, <1>4 DEF Next

\* Steps that leave what was seen alone and the create where it was, settled
\* or on the way from one position of sending to the next.
LEMMA SeenKept ==
    ASSUME SeenInv, ~world.lag, UNCHANGED <<world, before, existed>>,
           \A c \in Creators :
              \/ pc'[c] = pc[c] /\ stateId'[c] = stateId[c]
              \/ pc'[c] \in {"settled", "deleteWait", "hydrate"}
              \/ pc[c] \in Sending /\ pc'[c] \in Sending
    PROVE  ExistedExcluded' /\ TracksOnlyNew'
BY DEF SeenInv, ExistedExcluded, TracksOnlyNew, Sending

LEMMA CreateKeepsSeen ==
    ASSUME SeenInv, TypeOK, ~world.lag, UNCHANGED world,
           NEW c \in Creators, Create(c)
    PROVE  ExistedExcluded' /\ TracksOnlyNew'
<1> USE DEF SeenInv, TypeOK
<1>1. \A p \in Positions : GoTo(c, p) =>
         /\ pc'[c] = p
         /\ \A d \in Creators : d # c => pc'[d] = pc[d]
  BY DEF GoTo
<1>2. \A r : Return(c, r) =>
         /\ pc'[c] = "settled"
         /\ \A d \in Creators : d # c => pc'[d] = pc[d]
  BY DEF Return
<1>3. Existing \subseteq Named
  BY DEF NoneHidden, Existing, Named, Statuses
<1>4. ASSUME Check(c) PROVE ExistedExcluded' /\ TracksOnlyNew'
  <2>1. \A d \in Creators : d # c => existed'[d] = existed[d] /\ pc'[d] = pc[d]
    BY <1>1, <1>2, <1>4 DEF Check, Positions
  <2>2. pc'[c] \in {"settled", "send"} /\ UNCHANGED <<before, stateId>>
    BY <1>1, <1>2, <1>4 DEF Check, Positions
  <2>3. pc'[c] = "send" => existed'[c] = {}
    BY <1>2, <1>3, <1>4 DEF Check
  <2> QED
    BY <2>1, <2>2, <2>3 DEF ExistedExcluded, TracksOnlyNew, Sending
<1>5. ASSUME Refresh(c) PROVE ExistedExcluded' /\ TracksOnlyNew'
  <2>1. /\ \A d \in Creators : d # c =>
             existed'[d] = existed[d] /\ pc'[d] = pc[d] /\ before'[d] = before[d]
        /\ pc[c] = "refresh" /\ pc'[c] = "send" /\ UNCHANGED stateId
    BY <1>1, <1>5 DEF Refresh, Positions
  <2>2. existed[c] \subseteq before[c]
    BY <2>1 DEF ExistedExcluded, Sending
  <2>3. existed'[c] \subseteq before'[c]
    BY <1>3, <1>5, <2>2 DEF Refresh
  <2> QED
    BY <2>1, <2>3 DEF ExistedExcluded, TracksOnlyNew
<1>6. ASSUME Send(c) \/ SendCut(c) \/ Classify(c)
      PROVE  ExistedExcluded' /\ TracksOnlyNew'
  <2>1. UNCHANGED <<before, existed, stateId>> /\ pc[c] \in Sending
    BY <1>6 DEF Send, SendCut, Classify, Sending
  <2>2. pc'[c] \in Sending \/ pc'[c] = "settled"
    BY <1>1, <1>2, <1>6 DEF Send, SendCut, Classify, WaitOut, Sending, Positions
  <2>3. \A d \in Creators : d # c => pc'[d] = pc[d]
    BY <1>1, <1>2, <1>6 DEF Send, SendCut, Classify, WaitOut, Positions
  <2> QED
    BY <2>1, <2>2, <2>3, SeenKept
<1>7. ASSUME Adopt(c) \/ Resolve(c) PROVE ExistedExcluded' /\ TracksOnlyNew'
  <2>1. UNCHANGED <<before, existed>> /\ pc[c] \in Sending
    BY <1>7 DEF Adopt, Resolve, Sending
  <2>2. CASE \E i \in Ids : Fresh(c) = {i} /\ Track(c, i)
    <3>1. PICK i \in Ids : Fresh(c) = {i} /\ Track(c, i)
      BY <2>2
    <3>2. /\ pc'[c] = "wait" /\ stateId'[c] = i
          /\ \A d \in Creators : d # c =>
                pc'[d] = pc[d] /\ stateId'[d] = stateId[d]
      BY <1>1, <3>1 DEF Track, Positions
    <3>3. i \notin existed[c]
      BY <2>1, <3>1 DEF ExistedExcluded, Fresh
    <3> QED
      BY <2>1, <3>2, <3>3 DEF ExistedExcluded, TracksOnlyNew, Sending
  <2>3. CASE UNCHANGED stateId /\ \E r : Return(c, r)
    BY <1>2, <2>1, <2>3, SeenKept
  <2> QED
    BY <1>7, <2>2, <2>3 DEF Adopt, Resolve
<1>8. ASSUME Wait(c) \/ Hydrate(c) PROVE ExistedExcluded' /\ TracksOnlyNew'
  <2>1. UNCHANGED <<before, existed, stateId>>
    BY <1>8 DEF Wait, Hydrate
  <2>2. pc'[c] = pc[c] \/ pc'[c] \in {"settled", "hydrate"}
    BY <1>1, <1>2, <1>8 DEF Wait, Hydrate, Positions
  <2>3. \A d \in Creators : d # c => pc'[d] = pc[d]
    BY <1>1, <1>2, <1>8 DEF Wait, Hydrate, Positions
  <2> QED
    BY <2>1, <2>2, <2>3, SeenKept
<1> QED
  BY <1>4, <1>5, <1>6, <1>7, <1>8 DEF Create

LEMMA NextKeepsSeen ==
    ASSUME SeenInv, ~world.lag, Next
    PROVE  SeenInv'
<1>1. TypeOK
  BY DEF SeenInv, IInv
<1>2. IInv'
  BY NextInv DEF SeenInv
<1>0. UNCHANGED world
  BY WorldFixed
<1>3. NoneHidden'
  BY <1>1, RowsShow DEF SeenInv
<1>4. ASSUME Platform PROVE ExistedExcluded' /\ TracksOnlyNew'
  <2>1. UNCHANGED <<before, existed, stateId>>
    BY <1>4 DEF Platform, PlatformRecords, PlatformRefuses, Arrive, RowShows,
       CaptureEnds, RemovalEnds, SomeoneCreates, SomeoneDeletes, platformOnly
  <2>2. \A d \in Creators :
           pc'[d] = pc[d] \/ (pc[d] = "sent" /\ pc'[d] = "answered")
    BY <1>1, <1>4 DEF Platform, PlatformRecords, PlatformRefuses, Reply,
       RowShows, CaptureEnds, RemovalEnds, SomeoneCreates, SomeoneDeletes,
       platformOnly, TypeOK
  <2> QED
    BY <2>1, <2>2, <1>0, SeenKept DEF Sending
<1>5. ASSUME NEW c \in Creators, Life(c) PROVE ExistedExcluded' /\ TracksOnlyNew'
  <2>1. UNCHANGED <<before, existed>>
    BY <1>5 DEF Life, Read, Delete, DeleteWait, lifeOnly
  <2>2. /\ pc'[c] \in {"settled", "deleteWait"}
        /\ \A d \in Creators : d # c =>
              pc'[d] = pc[d] /\ stateId'[d] = stateId[d]
    BY <1>1, <1>5 DEF Life, Read, Delete, DeleteWait, Tracked, TypeOK
  <2> QED
    BY <2>1, <2>2, <1>0, SeenKept
<1>6. ASSUME NEW c \in Creators, AnswerLost(c) \/ Deadline(c)
      PROVE  ExistedExcluded' /\ TracksOnlyNew'
  <2>1. UNCHANGED <<before, existed, stateId>>
    BY <1>6 DEF AnswerLost, Deadline
  <2>2. \A d \in Creators :
           pc'[d] = pc[d] \/ (pc[d] = "sent" /\ pc'[d] = "answered")
    BY <1>1, <1>6 DEF AnswerLost, Deadline, Reply, TypeOK
  <2> QED
    BY <2>1, <2>2, <1>0, SeenKept DEF Sending
<1> QED
  BY <1>1, <1>2, <1>3, <1>4, <1>5, <1>6, <1>0, CreateKeepsSeen DEF SeenInv, Next

\* When rows show at once, a resource only ever tracks a snapshot that was
\* not there when it last looked before sending: an older one is never
\* adopted, resolved or later destroyed.
THEOREM TracksUnseen == Spec => []TracksOnlyNew
<1> DEFINE Kept == IInv /\ (~world.lag => SeenInv)
<1>1. Init => Kept
  BY InitInv DEF Init, SeenInv, NoneHidden, ExistedExcluded, TracksOnlyNew, Sending
<1>2. Kept /\ [Next]_vars => Kept'
  <2> SUFFICES ASSUME Kept, [Next]_vars PROVE Kept'
    OBVIOUS
  <2>1. IInv'
    BY NextInv
  <2>2. ASSUME ~world.lag' PROVE SeenInv'
    <3>1. ~world.lag /\ SeenInv
      BY <2>2, WorldFixed
    <3>2. CASE UNCHANGED vars
      BY <2>1, <3>1, <3>2
         DEF SeenInv, NoneHidden, ExistedExcluded, TracksOnlyNew, vars
    <3>3. CASE Next
      BY <3>1, <3>3, NextKeepsSeen
    <3> QED
      BY <3>2, <3>3
  <2> QED
    BY <2>1, <2>2
<1>3. Kept => TracksOnlyNew
  BY DEF SeenInv, TracksOnlyNew
<1> QED
  BY <1>1, <1>2, <1>3, PTL DEF Spec

-----------------------------------------------------------------------------
(* A create that has the name to itself loses nothing.                     *)

\* Every row of the name was made by a create.
RowsOwned == \A i \in Ids : status[i] = "unused" <=> by[i] \notin Creators

\* A create that may send again has seen nothing.
NothingBefore == \A c \in Creators : before[c] = {}

\* The state holds a snapshot of the create's own, one that was seen.
TracksOwn ==
    \A c \in Creators : stateId[c] # NoId =>
       by[stateId[c]] = c /\ status[stateId[c]] \in Shown \cup {"gone"}

\* The waits are for the tracked snapshot; a create that returned has reported.
WaitsFit ==
    \A c \in Creators :
       /\ pc[c] \in {"wait", "hydrate", "deleteWait"} => stateId[c] # NoId
       /\ pc[c] \in {"settled", "deleteWait"} => report[c] # "none"

\* A snapshot that was tracked once leaves the state only when it is gone.
Tracking == {"notReady", "unread", "ok"}
GoneWhenDropped ==
    \A c \in Creators : report[c] \in Tracking /\ stateId[c] = NoId =>
       Own(c) # {} /\ \A i \in Own(c) : status[i] = "gone"

\* The inductive invariant of a create alone.
AloneInv ==
    /\ IInv
    /\ RowsOwned
    /\ NothingBefore
    /\ TracksOwn
    /\ WaitsFit
    /\ GoneWhenDropped

\* What the rows may do once they are made: they stay made, a seen one stays
\* seen or goes, and a gone one stays gone.
RowsGoOn ==
    \A i \in Ids :
       /\ status'[i] = "unused" <=> status[i] = "unused"
       /\ status[i] \in Shown \cup {"gone"} => status'[i] \in Shown \cup {"gone"}
       /\ status[i] = "gone" => status'[i] = "gone"

\* Steps that make no row and drop nothing from the state.
LEMMA AloneKept ==
    ASSUME AloneInv, IInv', RowsGoOn, UNCHANGED <<by, before, stateId>>,
           \A c \in Creators :
              report'[c] \in Tracking => report[c] \in Tracking \/ stateId[c] # NoId,
           WaitsFit'
    PROVE  AloneInv'
<1>0. stateId \in [Creators -> Ids \cup {NoId}]
  BY DEF AloneInv, IInv, TypeOK
<1>1. RowsOwned' /\ NothingBefore'
  BY DEF AloneInv, RowsOwned, NothingBefore, RowsGoOn
<1>2. TracksOwn'
  BY <1>0 DEF AloneInv, TracksOwn, RowsGoOn
<1>3. \A c \in Creators : Own(c)' = Own(c)
  BY DEF Own
<1>4. GoneWhenDropped'
  BY <1>3 DEF AloneInv, GoneWhenDropped, RowsGoOn, Own
<1> QED
  BY <1>1, <1>2, <1>4 DEF AloneInv

\* The handler waits on for what it tracks, or waits for nothing tracked.
LEMMA WaitsKept ==
    ASSUME AloneInv, UNCHANGED <<report, stateId>>,
           \A c \in Creators :
              pc'[c] = pc[c] \/ pc'[c] \notin {"wait", "hydrate", "deleteWait", "settled"}
    PROVE  WaitsFit'
BY DEF AloneInv, WaitsFit

\* The row of a create's own: nothing of it was there before.
LEMMA RecordsKeepsAlone ==
    ASSUME AloneInv, IInv', NEW c \in Creators, PlatformRecords(c)
    PROVE  AloneInv'
<1>0. /\ TypeOK /\ Own(c) = {} /\ stateId \in [Creators -> Ids \cup {NoId}]
      /\ status \in [Ids -> Statuses] /\ by \in [Ids -> Creators \cup {Someone}]
  BY DEF AloneInv, IInv, TypeOK, OneSnapshotPerCreate, PlatformRecords, Arrive
<1>1. PICK i \in Ids : NewRow(i, c)
  BY DEF PlatformRecords
<1>2. /\ status[i] = "unused" /\ by[i] \notin Creators
      /\ status'[i] \in {"queued", "pending"} /\ by'[i] = c
      /\ \A j \in Ids \ {i} : status'[j] = status[j] /\ by'[j] = by[j]
  BY <1>0, <1>1 DEF NewRow, AloneInv, RowsOwned
<1>3. UNCHANGED <<before, stateId, report>>
  BY DEF PlatformRecords, Arrive
<1>4. RowsOwned' /\ NothingBefore'
  BY <1>2, <1>3 DEF AloneInv, RowsOwned, NothingBefore
<1>5. stateId[c] = NoId
  BY <1>0 DEF AloneInv, TracksOwn, Own
<1>6. TracksOwn'
  <2>1. \A d \in Creators : stateId[d] # NoId => stateId[d] \in Ids \ {i}
    BY <1>0, <1>2 DEF AloneInv, TracksOwn, Shown
  <2> QED
    BY <1>2, <1>3, <2>1 DEF AloneInv, TracksOwn
<1>7. report[c] \notin Tracking
  BY <1>0, <1>5 DEF AloneInv, GoneWhenDropped
<1>8. \A d \in Creators \ {c} : Own(d)' = Own(d) /\ i \notin Own(d)
  BY <1>2 DEF Own
<1>9. GoneWhenDropped'
  BY <1>2, <1>3, <1>7, <1>8 DEF AloneInv, GoneWhenDropped, Own
<1>10. WaitsFit'
  BY <1>0, <1>3, WaitsKept DEF PlatformRecords, Reply, TypeOK
<1> QED
  BY <1>4, <1>6, <1>9, <1>10 DEF AloneInv

\* Refusals, lost answers and deadlines touch no row.
LEMMA FaultKeepsAlone ==
    ASSUME AloneInv, IInv', NEW c \in Creators,
           PlatformRefuses(c) \/ AnswerLost(c) \/ Deadline(c)
    PROVE  AloneInv'
<1>0. TypeOK
  BY DEF AloneInv, IInv
<1>1. UNCHANGED <<status, by, before, stateId, report>>
  BY DEF PlatformRefuses, AnswerLost, Deadline, Arrive, platform
<1>2. \A d \in Creators : pc'[d] = pc[d] \/ pc'[d] = "answered"
  BY <1>0 DEF PlatformRefuses, AnswerLost, Deadline, Reply, TypeOK
<1>3. WaitsFit'
  BY <1>1, <1>2, WaitsKept
<1> QED
  BY <1>1, <1>3, AloneKept DEF RowsGoOn

\* With the name to itself, rows only show, become available or fail, and go.
LEMMA RowsKeepAlone ==
    ASSUME AloneInv, IInv', NEW i \in Ids, RowShows(i) \/ CaptureEnds(i) \/ RemovalEnds(i)
    PROVE  AloneInv'
<1>0. status \in [Ids -> Statuses]
  BY DEF AloneInv, IInv, TypeOK
<1>1. UNCHANGED <<by, before, stateId, report, pc>>
  BY DEF RowShows, CaptureEnds, RemovalEnds, platformOnly
<1>2. RowsGoOn
  BY <1>0 DEF RowShows, CaptureEnds, RemovalEnds, RowsGoOn, Shown
<1>3. WaitsFit'
  BY <1>1, WaitsKept
<1> QED
  BY <1>1, <1>2, <1>3, AloneKept

\* A create that goes on or returns.
LEMMA DecisionKeepsAlone ==
    ASSUME AloneInv, IInv', NEW c \in Creators,
           UNCHANGED <<status, by, before, stateId>>,
           \/ \E p \in Positions \ {"settled", "deleteWait"} :
                 GoTo(c, p) /\ (p \in {"wait", "hydrate"} => stateId[c] # NoId)
           \/ \E r \in Reports \ {"none"} :
                 Return(c, r) /\ (r \in Tracking => stateId[c] # NoId)
    PROVE  AloneInv'
<1>0. pc \in [Creators -> Positions] /\ report \in [Creators -> Reports]
  BY DEF AloneInv, IInv, TypeOK
<1>1. /\ \A d \in Creators \ {c} : pc'[d] = pc[d] /\ report'[d] = report[d]
      /\ \/ /\ pc'[c] \notin {"settled", "deleteWait"} /\ report'[c] = report[c]
            /\ pc'[c] \in {"wait", "hydrate"} => stateId[c] # NoId
         \/ /\ pc'[c] = "settled" /\ report'[c] # "none"
            /\ report'[c] \in Tracking => stateId[c] # NoId
  BY <1>0 DEF GoTo, Return
<1>2. WaitsFit'
  BY <1>1 DEF AloneInv, WaitsFit
<1> QED
  BY <1>1, <1>2, AloneKept DEF RowsGoOn

\* A create alone finds only what it made.
LEMMA CreateKeepsAlone ==
    ASSUME AloneInv, IInv', NameToItself, NEW c \in Creators, Create(c)
    PROVE  AloneInv'
<1> USE DEF createOnly, platform
<1>0. /\ TypeOK /\ IInv /\ status \in [Ids -> Statuses] /\ before[c] = {}
      /\ stateId \in [Creators -> Ids \cup {NoId}]
      /\ pc[c] \in {"wait", "hydrate"} => stateId[c] # NoId
      /\ pc[c] = "refresh" => Own(c) = {}
  BY DEF AloneInv, IInv, TypeOK, NothingBefore, WaitsFit, CleanWhereDefinite, Clean
<1>n. Named \subseteq Own(c)
  <2>1. \A i \in Named : by[i] \in Creators
    BY <1>0 DEF AloneInv, RowsOwned, Named, Shown
  <2> QED
    BY <2>1 DEF NameToItself, Named, Own
<1>1. ASSUME Check(c)  PROVE AloneInv'
  <2>1. GoTo(c, "send") \/ Return(c, "unchecked") \/ Return(c, "taken")
    BY <1>1 DEF Check
  <2> QED
    BY <1>1, <2>1, DecisionKeepsAlone DEF Check, Positions, Reports, Tracking
<1>2. ASSUME Refresh(c)  PROVE AloneInv'
  <2>1. Named = {}
    BY <1>0, <1>n, <1>2 DEF Refresh
  <2>2. before' = before
    <3>1. CASE before' = [before EXCEPT ![c] = @ \cup Named]
      <4>1. before[c] \cup Named = before[c] /\ before \in [Creators -> SUBSET Ids]
        BY <1>0, <2>1 DEF TypeOK
      <4>2. before' = [before EXCEPT ![c] = before[c]]
        BY <3>1, <4>1
      <4> QED
        BY <4>1, <4>2
    <3> QED
      BY <1>2, <3>1 DEF Refresh
  <2> QED
    BY <1>2, <2>2, DecisionKeepsAlone DEF Refresh, Positions
<1>3. ASSUME Send(c) \/ SendCut(c)  PROVE AloneInv'
  <2>1. PICK p \in {"adopt", "sent"} : GoTo(c, p)
    BY <1>3 DEF Send, SendCut
  <2> QED
    BY <1>3, <2>1, DecisionKeepsAlone DEF Send, SendCut, Positions
<1>4. ASSUME Classify(c)  PROVE AloneInv'
  <2>1. \/ GoTo(c, "resolve") \/ GoTo(c, "adopt") \/ GoTo(c, "refresh")
        \/ Return(c, "refused") \/ Return(c, "pending")
    BY <1>4 DEF Classify, WaitOut
  <2> QED
    BY <1>4, <2>1, DecisionKeepsAlone DEF Classify, Positions, Reports, Tracking
<1>5. ASSUME Adopt(c) \/ Resolve(c)  PROVE AloneInv'
  <2>0. UNCHANGED <<status, by, before>> /\ pc[c] \in {"adopt", "resolve"}
    BY <1>5 DEF Adopt, Resolve
  <2>1. CASE UNCHANGED stateId /\ (Return(c, "inDoubt") \/ Return(c, "unresolved"))
    BY <2>0, <2>1, DecisionKeepsAlone DEF Reports, Tracking
  <2>2. CASE \E i \in Ids : Fresh(c) = {i} /\ Track(c, i)
    <3>1. PICK i \in Ids : Fresh(c) = {i} /\ Track(c, i)
      BY <2>2
    <3>2. i \in Named /\ by[i] = c /\ status[i] \in Shown
      BY <1>n, <3>1 DEF Fresh, Named, Own
    <3>3. /\ stateId'[c] = i /\ pc'[c] = "wait" /\ UNCHANGED report /\ i # NoId
          /\ \A d \in Creators \ {c} : stateId'[d] = stateId[d] /\ pc'[d] = pc[d]
      BY <1>0, <3>1, NoIdAssumption DEF Track, GoTo, TypeOK
    <3>4. RowsOwned' /\ NothingBefore'
      BY <2>0 DEF AloneInv, RowsOwned, NothingBefore
    <3>5. TracksOwn' /\ WaitsFit'
      BY <2>0, <3>2, <3>3 DEF AloneInv, TracksOwn, WaitsFit
    <3>6. GoneWhenDropped'
      BY <2>0, <3>3 DEF AloneInv, GoneWhenDropped, Own
    <3> QED
      BY <3>4, <3>5, <3>6 DEF AloneInv
  <2> QED
    BY <1>5, <2>1, <2>2 DEF Adopt, Resolve
<1>6. ASSUME Wait(c)  PROVE AloneInv'
  <2>1. GoTo(c, "wait") \/ GoTo(c, "hydrate") \/ Return(c, "notReady")
    BY <1>6 DEF Wait
  <2>2. stateId[c] # NoId
    BY <1>0, <1>6 DEF Wait
  <2> QED
    BY <1>6, <2>1, <2>2, DecisionKeepsAlone DEF Wait, Positions, Reports
<1>7. ASSUME Hydrate(c)  PROVE AloneInv'
  <2>1. Return(c, "unread") \/ Return(c, "ok")
    BY <1>7 DEF Hydrate
  <2>2. stateId[c] # NoId
    BY <1>0, <1>7 DEF Hydrate
  <2> QED
    BY <1>7, <2>1, <2>2, DecisionKeepsAlone DEF Hydrate, Reports
<1> QED
  BY <1>1, <1>2, <1>3, <1>4, <1>5, <1>6, <1>7 DEF Create

\* What leaves the state is gone from the platform.
LEMMA LifeKeepsAlone ==
    ASSUME AloneInv, IInv', NEW c \in Creators, Life(c)
    PROVE  AloneInv'
<1> USE DEF lifeOnly
<1>0. /\ TypeOK /\ status \in [Ids -> Statuses]
      /\ pc \in [Creators -> Positions]
      /\ stateId \in [Creators -> Ids \cup {NoId}]
      /\ stateId[c] \in Ids /\ stateId[c] # NoId /\ by[stateId[c]] = c
      /\ status[stateId[c]] \in Shown \cup {"gone"}
      /\ report[c] # "none"
      /\ UNCHANGED <<by, before, report>>
  BY DEF AloneInv, IInv, TypeOK, TracksOwn, WaitsFit, Life, Read, Delete, DeleteWait,
     Tracked
<1>1. Own(c) = {stateId[c]}
  BY <1>0 DEF AloneInv, IInv, OneSnapshotPerCreate, Own
<1>2. ASSUME stateId[c] \notin Named, stateId' = [stateId EXCEPT ![c] = NoId],
             UNCHANGED status,
             pc'[c] = "settled", \A d \in Creators \ {c} : pc'[d] = pc[d]
      PROVE  AloneInv'
  <2>1. status[stateId[c]] = "gone"
    BY <1>0, <1>2 DEF Named
  <2>2. /\ stateId'[c] = NoId
        /\ \A d \in Creators \ {c} : stateId'[d] = stateId[d]
    BY <1>0, <1>2
  <2>3. RowsOwned' /\ NothingBefore'
    BY <1>0, <1>2 DEF AloneInv, RowsOwned, NothingBefore
  <2>4. TracksOwn'
    BY <1>0, <1>2, <2>2 DEF AloneInv, TracksOwn
  <2>5. GoneWhenDropped'
    BY <1>0, <1>1, <1>2, <2>1, <2>2 DEF AloneInv, GoneWhenDropped, Own
  <2>6. WaitsFit'
    BY <1>0, <1>2, <2>2 DEF AloneInv, WaitsFit
  <2> QED
    BY <2>3, <2>4, <2>5, <2>6 DEF AloneInv
<1>3. CASE Read(c)
  BY <1>2, <1>3 DEF Read, Tracked
<1>4. CASE DeleteWait(c)
  <2>1. CASE /\ stateId[c] \notin Named
             /\ stateId' = [stateId EXCEPT ![c] = NoId]
    BY <1>0, <1>2, <1>4, <2>1 DEF DeleteWait
  <2>2. CASE UNCHANGED stateId
    <3>1. \A d \in Creators : pc'[d] = pc[d] \/ (d = c /\ pc'[c] = "settled")
      BY <1>0, <1>4 DEF DeleteWait
    <3>2. WaitsFit'
      BY <1>0, <2>2, <3>1 DEF AloneInv, WaitsFit
    <3> QED
      BY <1>0, <1>4, <2>2, <3>2, AloneKept DEF DeleteWait, RowsGoOn
  <2> QED
    BY <1>4, <2>1, <2>2 DEF DeleteWait
<1>5. CASE Delete(c)
  <2>1. PICK accepted \in BOOLEAN :
           /\ accepted => stateId[c] \in Named
           /\ status' = IF accepted THEN [status EXCEPT ![stateId[c]] = "deleting"]
                                    ELSE status
    BY <1>5 DEF Delete
  <2>2. RowsGoOn
    BY <1>0, <2>1 DEF RowsGoOn, Named, Shown
  <2>3. UNCHANGED stateId /\ (UNCHANGED pc \/ pc' = [pc EXCEPT ![c] = "deleteWait"])
    BY <1>5 DEF Delete
  <2>4. WaitsFit'
    BY <1>0, <2>3 DEF AloneInv, WaitsFit
  <2> QED
    BY <1>0, <2>2, <2>3, <2>4, AloneKept
<1> QED
  BY <1>3, <1>4, <1>5 DEF Life

LEMMA NextKeepsAlone ==
    ASSUME AloneInv, IInv', NameToItself, [Next]_vars
    PROVE  AloneInv'
<1>1. ASSUME NEW i \in Ids, SomeoneCreates(i) \/ SomeoneDeletes(i)  PROVE FALSE
  BY <1>1 DEF NameToItself, SomeoneCreates, SomeoneDeletes
<1>2. CASE UNCHANGED vars
  BY <1>2 DEF AloneInv, RowsOwned, NothingBefore, TracksOwn, WaitsFit,
     GoneWhenDropped, Own, vars
<1> QED
  BY <1>1, <1>2, RecordsKeepsAlone, FaultKeepsAlone, RowsKeepAlone,
     CreateKeepsAlone, LifeKeepsAlone DEF Next, Platform

\* A create that has the name to itself never loses a snapshot: whatever fails
\* after the send, one that exists is in the state, or the create said that its
\* outcome is open.
THEOREM NoneStranded == Spec => []NothingStranded
<1> DEFINE Kept == IInv /\ (NameToItself => AloneInv)
<1>1. Init => Kept
  <2> SUFFICES ASSUME Init, NameToItself  PROVE AloneInv
    BY InitInv
  <2>1. IInv /\ \A i \in Ids : status[i] = "unused" /\ by[i] = Someone
    BY InitInv DEF Init, NameToItself
  <2> QED
    BY <2>1, SomeoneAssumption DEF Init, AloneInv, RowsOwned, NothingBefore, TracksOwn,
       WaitsFit, GoneWhenDropped, Tracking
<1>2. Kept /\ [Next]_vars => Kept'
  <2> SUFFICES ASSUME Kept, [Next]_vars  PROVE Kept'
    OBVIOUS
  <2>1. IInv'
    BY NextInv
  <2>2. ASSUME NameToItself'  PROVE AloneInv'
    <3>1. NameToItself
      BY <2>2, WorldFixed DEF NameToItself
    <3> QED
      BY <2>1, <3>1, NextKeepsAlone
  <2> QED
    BY <2>1, <2>2
<1>3. Kept => NothingStranded
  <2> SUFFICES ASSUME AloneInv, NEW c \in Creators, pc[c] = "settled",
                      Own(c) \cap Existing # {}, stateId[c] = NoId
               PROVE  report[c] \in {"inDoubt", "unresolved"}
    BY DEF NothingStranded
  <2>1. report[c] \in Reports /\ report[c] # "none"
    BY DEF AloneInv, IInv, TypeOK, WaitsFit
  <2>2. report[c] \notin Definite
    BY DEF AloneInv, IInv, CleanWhereDefinite, Clean
  <2>3. report[c] \notin Tracking
    BY DEF AloneInv, GoneWhenDropped, Existing
  <2> QED
    BY <2>1, <2>2, <2>3 DEF Reports, Definite, Tracking
<1> QED
  BY <1>1, <1>2, <1>3, PTL DEF Spec
=============================================================================
