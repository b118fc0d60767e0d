------------------------ MODULE WorkSessions_proofs -------------------------
(***************************************************************************)
(* For any number of users, devices, requests and sessions: a user has at  *)
(* most one open session, ended segments stay, an event is applied once    *)
(* and in order, compaction keeps the receipts that may still be asked     *)
(* for, and what a lone tracker is credited with is disjoint and within    *)
(* the lease of what it reported.  Segments are open exactly while their   *)
(* session is active and no device counts time that the policy forbids it, *)
(* but for what was committed between the two statements of a close.       *)
(*                                                                         *)
(* Each part has its invariant: SessionInv for the rows and what a         *)
(* transaction may still believe of the one it read, CountingInv for the   *)
(* segments, ReceiptInv and NumberInv for receipts and events in flight,   *)
(* PolicyInv for the policies, LoneInv for a tracker's segments beside its *)
(* receipts.                                                               *)
(***************************************************************************)
EXTENDS WorkSessions, TLAPS

SessionInv == TypeOK /\ OneOpenSessionPerUser /\ SnapshotStaysSound

\* What a step may do to the rows and requests that the invariant is about
\* when it opens nothing: rows keep their device and task, and open rows stay or
\* close.
OnlyCloses ==
  \A i \in SessionIds :
    /\ Exists(i)' <=> Exists(i)
    /\ Exists(i) => /\ sessions'[i].device = sessions[i].device
                    /\ sessions'[i].task = sessions[i].task
    /\ IsOpen(i)' => IsOpen(i)

\* A step that opens no session and starts no transaction keeps the two
\* conjuncts that relate rows and requests.
LEMMA ClosingKeepsInv ==
  ASSUME SessionInv, OnlyCloses,
         \A r \in Requests : InTransaction(r)' => InTransaction(r) /\ req'[r] = req[r]
  PROVE  OneOpenSessionPerUser' /\ SnapshotStaysSound'
<1>1. \A i \in SessionIds : IsOpen(i)' => IsOpen(i) /\ UserOf(i)' = UserOf(i)
  BY DEF OnlyCloses, IsOpen, UserOf
<1>2. OneOpenSessionPerUser'
  BY <1>1 DEF SessionInv, OneOpenSessionPerUser
<1>3. ASSUME NEW r \in Requests, NEW q \in Requests,
             InTransaction(r)', InTransaction(q)', SameUser(r, q)'
      PROVE  r = q
  BY <1>3 DEF SessionInv, SnapshotStaysSound, SameUser
<1>4. ASSUME NEW r \in Requests, InTransaction(r)'
      PROVE  ReadIsSound(r)'
  <2>1. InTransaction(r) /\ req'[r] = req[r] /\ ReadIsSound(r)
    BY <1>4 DEF SessionInv, SnapshotStaysSound
  <2>2. req[r].own # NoSession => req[r].own \in SessionIds
    BY <2>1 DEF InTransaction, SessionInv, TypeOK, Request
  <2>3. \A i \in SessionIds : IsOpen(i)' => sessions'[i].device = sessions[i].device
    BY <1>1 DEF OnlyCloses, IsOpen
  <2> QED
    BY <2>1, <2>2, <2>3, <1>1 DEF ReadIsSound, OpenOf, OnlyCloses
<1> QED
  BY <1>2, <1>3, <1>4 DEF SnapshotStaysSound

\* The types of the two tables that hold the work, and of the closes under way.
WorkTypeOK == /\ sessions \in [SessionIds -> Session \cup {NoSession}]
              /\ segments \subseteq Segment /\ overlooked \subseteq Segment
              /\ admin \in [Admins -> Closing \cup {NoClosing}]

\* A close under way keeps what it closes, and of the segments it saw those that no
\* commit has ended.
ClosingsSettle ==
  /\ overlooked' \subseteq segments'
  /\ \A a \in Admins : admin'[a] # NoClosing =>
       /\ admin[a] # NoClosing
       /\ admin'[a].op = admin[a].op /\ admin'[a].of = admin[a].of
       /\ admin'[a].seen \subseteq admin[a].seen \cap segments'

\* What is left of a close when some of its segments have ended.
LEMMA StillSeenFacts ==
  ASSUME ConstantsAssumption, NEW c \in Closing \cup {NoClosing}
  PROVE  /\ StillSeen(c) \in Closing \cup {NoClosing}
         /\ StillSeen(c) # NoClosing =>
              /\ c # NoClosing /\ StillSeen(c).op = c.op /\ StillSeen(c).of = c.of
              /\ StillSeen(c).seen = c.seen \cap segments'
<1>1. CASE c = NoClosing
  BY <1>1 DEF StillSeen
<1>2. CASE c # NoClosing
  <2>1. c \in Closing /\ StillSeen(c) = [c EXCEPT !.seen = c.seen \cap segments']
    BY <1>2 DEF StillSeen
  <2>2. c.seen \cap segments' \in SUBSET Segment
    BY <2>1 DEF Closing
  <2> QED BY <1>2, <2>1, <2>2 DEF Closing
<1> QED BY <1>1, <1>2

\* What every commit that ends segments does to the closes under way.
LEMMA SettleFacts ==
  ASSUME TypeOK, ConstantsAssumption, segments' \subseteq Segment, Settle
  PROVE  /\ overlooked' \subseteq Segment /\ admin' \in [Admins -> Closing \cup {NoClosing}]
         /\ ClosingsSettle
<1>1. \A a \in Admins : admin'[a] = StillSeen(admin[a]) /\ admin[a] \in Closing \cup {NoClosing}
  BY DEF Settle, TypeOK
<1>2. admin' \in [Admins -> Closing \cup {NoClosing}]
  <2>1. \A a \in Admins : StillSeen(admin[a]) \in Closing \cup {NoClosing}
    BY <1>1, StillSeenFacts
  <2> QED BY <2>1 DEF Settle
<1>3. ClosingsSettle
  <2>1. ASSUME NEW a \in Admins, admin'[a] # NoClosing
        PROVE  /\ admin[a] # NoClosing
               /\ admin'[a].op = admin[a].op /\ admin'[a].of = admin[a].of
               /\ admin'[a].seen = admin[a].seen \cap segments'
    BY <1>1, <2>1, StillSeenFacts
  <2> QED BY <2>1 DEF ClosingsSettle, Settle
<1> QED BY <1>2, <1>3 DEF Settle, TypeOK

\* Clamping with GREATEST yields a time if either of the two times is one.
LEMMA LaterType == \A a \in Nat, b \in Int : Later(a, b) \in Nat /\ Later(b, a) \in Nat
  BY DEF Later

\* Closing by task or web device (_close_task_sessions, _stop_web_timer_sessions)
\* only closes sessions, keeps the types, and leaves ended segments alone.
LEMMA CloseUnendedFacts ==
  ASSUME TypeOK, ConstantsAssumption, NEW chosen,
         \A i \in chosen : i \in SessionIds /\ Exists(i),
         CloseUnended(chosen)
  PROVE  OnlyCloses /\ WorkTypeOK' /\ ClosingsSettle
<1> DEFINE live == {i \in chosen : sessions[i].ended = Open}
<1>1. sessions' = [i \in SessionIds |->
         IF i \in live THEN [sessions[i] EXCEPT !.status = "stopped", !.ended = now]
         ELSE sessions[i]]
  BY DEF CloseUnended, StopRows
<1>2. \A i \in live : i \in SessionIds /\ sessions[i] \in Session
  BY DEF TypeOK, Exists
<1>3. \A i \in live : sessions'[i] \in Session /\ sessions'[i].status = "stopped"
                        /\ sessions'[i].device = sessions[i].device
                        /\ sessions'[i].task = sessions[i].task
  <2> TAKE i \in live
  <2>1. sessions'[i] = [sessions[i] EXCEPT !.status = "stopped", !.ended = now]
    BY <1>1, <1>2
  <2>2. sessions[i] \in Session /\ now \in Nat
    BY <1>2 DEF TypeOK, Session
  <2> HIDE DEF live
  <2> QED BY <2>1, <2>2 DEF Session, Status
<1>4. segments' = {IF OpenSegment(g) /\ g.session \in live
                     THEN [g EXCEPT !.to = now] ELSE g : g \in segments}
  BY DEF CloseUnended, CloseSegments
<1>5. segments' \subseteq Segment
  BY <1>4 DEF TypeOK, Segment
<1>6. sessions' \in [SessionIds -> Session \cup {NoSession}]
  <2>1. \A i \in SessionIds : sessions'[i] \in Session \cup {NoSession}
    <3>1. \A i \in SessionIds : i \notin live => sessions'[i] = sessions[i]
      BY <1>1
    <3> HIDE DEF live
    <3> QED BY <1>3, <3>1 DEF TypeOK
  <2> QED BY <1>1, <2>1
<1>7. OnlyCloses
  <2>1. \A i \in SessionIds : i \notin live => sessions'[i] = sessions[i]
    BY <1>1
  <2>2. \A i \in live : Exists(i) /\ Exists(i)'
    BY <1>2, <1>3 DEF ConstantsAssumption, Exists
  <2> QED
    BY <2>1, <2>2, <1>3 DEF OnlyCloses, IsOpen, Exists, OpenStatus
<1>8. Settle
  BY DEF CloseUnended
<1> QED
  BY <1>5, <1>6, <1>7, <1>8, SettleFacts DEF WorkTypeOK

\* The same of closing a device's work (set_device_enabled).
LEMMA CloseOpenFacts ==
  ASSUME TypeOK, ConstantsAssumption, NEW chosen,
         \A i \in chosen : i \in SessionIds /\ Exists(i),
         CloseOpen(chosen)
  PROVE  OnlyCloses /\ WorkTypeOK' /\ ClosingsSettle
<1> DEFINE live == {i \in chosen : IsOpen(i)}
<1>1. sessions' = [i \in SessionIds |->
         IF i \in live THEN [sessions[i] EXCEPT !.status = "stopped",
                                !.ended = Later(now, sessions[i].started)]
         ELSE sessions[i]]
  BY DEF CloseOpen, StopRows
<1>2. \A i \in live : i \in SessionIds /\ sessions[i] \in Session
  BY DEF TypeOK, Exists
<1>3. \A i \in live : sessions'[i] \in Session /\ sessions'[i].status = "stopped"
                        /\ sessions'[i].device = sessions[i].device
                        /\ sessions'[i].task = sessions[i].task
  <2> TAKE i \in live
  <2>1. sessions'[i] = [sessions[i] EXCEPT !.status = "stopped",
                                    !.ended = Later(now, sessions[i].started)]
    BY <1>1, <1>2
  <2>2. sessions[i] \in Session /\ Later(now, sessions[i].started) \in Nat
    <3>1. sessions[i] \in Session /\ now \in Nat
      BY <1>2 DEF TypeOK
    <3>2. sessions[i].started \in Nat
      BY <3>1 DEF Session
    <3> QED BY <3>1, <3>2 DEF Later
  <2> HIDE DEF live
  <2> QED BY <2>1, <2>2 DEF Session, Status
<1>4. segments' = {IF OpenSegment(g) /\ g.session \in chosen
                     THEN [g EXCEPT !.to = Later(now, g.from)] ELSE g : g \in segments}
  BY DEF CloseOpen, CloseSegments
<1>5. segments' \subseteq Segment
  BY <1>4, LaterType DEF TypeOK, Segment
<1>6. sessions' \in [SessionIds -> Session \cup {NoSession}]
  <2>1. \A i \in SessionIds : sessions'[i] \in Session \cup {NoSession}
    <3>1. \A i \in SessionIds : i \notin live => sessions'[i] = sessions[i]
      BY <1>1
    <3> HIDE DEF live
    <3> QED BY <1>3, <3>1 DEF TypeOK
  <2> QED BY <1>1, <2>1
<1>7. OnlyCloses
  <2>1. \A i \in SessionIds : i \notin live => sessions'[i] = sessions[i]
    BY <1>1
  <2>2. \A i \in live : Exists(i) /\ Exists(i)'
    BY <1>2, <1>3 DEF ConstantsAssumption, Exists
  <2> QED
    BY <2>1, <2>2, <1>3 DEF OnlyCloses, IsOpen, Exists, OpenStatus
<1>8. Settle
  BY DEF CloseOpen
<1> QED
  BY <1>5, <1>6, <1>7, <1>8, SettleFacts DEF WorkTypeOK

\* The time of a close is a time, and so is the end it gives.
LEMMA ClosedAtType ==
  ASSUME NEW c \in Closing, NEW start \in Nat
  PROVE  ClosedAt(c, start) \in Nat
<1>1. c.at \in Nat
  BY DEF Closing
<1> QED BY <1>1 DEF ClosedAt, Later

\* The rows that the second statement of a close writes.
LEMMA FinishedRows ==
  ASSUME TypeOK, ConstantsAssumption, NEW a \in Admins, NEW op, FinishClosing(a, op),
         NEW i \in SessionIds
  PROVE  /\ i \notin ClosedRows(admin[a]) => sessions'[i] = sessions[i]
         /\ i \in ClosedRows(admin[a]) =>
              /\ Exists(i) /\ sessions'[i] \in Session
              /\ sessions'[i].status = "stopped" /\ sessions'[i].ended # Open
              /\ sessions'[i].device = sessions[i].device
              /\ sessions'[i].task = sessions[i].task
<1> DEFINE c == admin[a]
<1> DEFINE rows == ClosedRows(c)
<1> DEFINE End(j) == ClosedAt(c, sessions[j].started)
<1>1. c \in Closing
  BY DEF FinishClosing, TypeOK
<1>2. sessions' = [j \in SessionIds |->
         IF j \in rows THEN [sessions[j] EXCEPT !.status = "stopped", !.ended = End(j)]
         ELSE sessions[j]]
  BY DEF FinishClosing, StopRows
<1>3. i \in rows => Exists(i)
  BY DEF ClosedRows
<1>4. Exists(i) => sessions[i] \in Session /\ sessions[i].started \in Nat
  BY DEF Exists, TypeOK, Session
<1>5. Exists(i) => End(i) \in Nat
  BY <1>1, <1>4, ClosedAtType
<1> HIDE DEF rows, End, c
<1>6. CASE i \in rows
  <2>1. sessions'[i] = [sessions[i] EXCEPT !.status = "stopped", !.ended = End(i)]
    BY <1>2, <1>6
  <2>2. sessions[i] \in Session /\ End(i) \in Nat
    BY <1>3, <1>4, <1>5, <1>6
  <2>3. /\ sessions'[i] \in Session /\ sessions'[i].status = "stopped"
        /\ sessions'[i].ended = End(i) /\ sessions'[i].device = sessions[i].device
        /\ sessions'[i].task = sessions[i].task
    BY <2>1, <2>2 DEF Session, Status
  <2> QED BY <1>3, <1>6, <2>2, <2>3 DEF Open, rows, c
<1>7. CASE i \notin rows
  BY <1>2, <1>7 DEF rows, c
<1> QED BY <1>6, <1>7 DEF rows, c

\* The segments that it leaves: those it has not seen stay, the others end.
LEMMA FinishedSegments ==
  ASSUME TypeOK, ConstantsAssumption, NEW a \in Admins, NEW op, FinishClosing(a, op)
  PROVE  /\ segments' \subseteq Segment
         /\ \A g \in segments \ admin[a].seen : g \in segments'
         /\ \A h \in segments' :
              \/ h \in segments \ admin[a].seen
              \/ ~OpenSegment(h) /\ \E g \in segments : h.session = g.session
<1> DEFINE c == admin[a]
<1>1. c \in Closing
  BY DEF FinishClosing, TypeOK
<1> DEFINE Ended(g) == [g EXCEPT !.to = ClosedAt(c, g.from)]
<1>2. segments' = {IF g \in c.seen THEN Ended(g) ELSE g : g \in segments}
  BY DEF FinishClosing
<1> HIDE DEF c
<1>3. ASSUME NEW g \in segments
      PROVE  /\ Ended(g) \in Segment /\ Ended(g).session = g.session
             /\ ~OpenSegment(Ended(g))
  <2>1. g \in Segment /\ g.from \in Nat
    BY DEF TypeOK, Segment
  <2>2. ClosedAt(c, g.from) \in Nat
    BY <1>1, <2>1, ClosedAtType
  <2> QED BY <2>1, <2>2 DEF Segment, OpenSegment, Open
<1> HIDE DEF Ended
<1>4. segments' \subseteq Segment
  BY <1>2, <1>3 DEF TypeOK
<1>5. \A g \in segments \ c.seen : g \in segments'
  BY <1>2
<1>6. \A h \in segments' : \/ h \in segments \ c.seen
                           \/ ~OpenSegment(h) /\ \E g \in segments : h.session = g.session
  BY <1>2, <1>3
<1> QED BY <1>4, <1>5, <1>6 DEF c

\* The second statement of a close (of a task, project, member or user) only closes
\* sessions too.
LEMMA FinishFacts ==
  ASSUME TypeOK, ConstantsAssumption, NEW a \in Admins, NEW op, FinishClosing(a, op)
  PROVE  OnlyCloses /\ WorkTypeOK' /\ ClosingsSettle
<1>1. ASSUME NEW i \in SessionIds
      PROVE  /\ sessions'[i] \in Session \cup {NoSession}
             /\ Exists(i)' <=> Exists(i)
             /\ Exists(i) => /\ sessions'[i].device = sessions[i].device
                             /\ sessions'[i].task = sessions[i].task
             /\ IsOpen(i)' => IsOpen(i)
  <2>1. CASE i \notin ClosedRows(admin[a])
    BY <2>1, FinishedRows DEF Exists, IsOpen, TypeOK
  <2>2. CASE i \in ClosedRows(admin[a])
    <3>1. Exists(i)'
      BY <2>2, FinishedRows DEF Exists, ConstantsAssumption
    <3> QED BY <2>2, <3>1, FinishedRows DEF IsOpen, OpenStatus
  <2> QED BY <2>1, <2>2
<1>2. sessions' \in [SessionIds -> Session \cup {NoSession}]
  BY <1>1 DEF FinishClosing, StopRows
<1>3. segments' \subseteq Segment /\ overlooked' \subseteq segments'
  BY FinishedSegments DEF FinishClosing
<1>4. \A b \in Admins : /\ admin[b] \in Closing \cup {NoClosing}
                        /\ admin'[b] = IF b = a THEN NoClosing ELSE StillSeen(admin[b])
  BY DEF FinishClosing, TypeOK
<1>5. admin' \in [Admins -> Closing \cup {NoClosing}]
  <2>1. \A b \in Admins : admin'[b] \in Closing \cup {NoClosing}
    BY <1>4, StillSeenFacts
  <2>2. admin' = [b \in Admins |-> IF b = a THEN NoClosing ELSE StillSeen(admin[b])]
    BY DEF FinishClosing
  <2> QED BY <2>1, <2>2
<1>6. ClosingsSettle
  <2>1. ASSUME NEW b \in Admins, admin'[b] # NoClosing
        PROVE  /\ admin[b] # NoClosing
               /\ admin'[b].op = admin[b].op /\ admin'[b].of = admin[b].of
               /\ admin'[b].seen = admin[b].seen \cap segments'
    BY <1>4, <2>1, StillSeenFacts
  <2> QED BY <1>3, <2>1 DEF ClosingsSettle
<1> QED
  BY <1>1, <1>2, <1>3, <1>5, <1>6 DEF OnlyCloses, WorkTypeOK

\* The first statement is seen by nobody: only the close itself is under way.
LEMMA BeginClosingFacts ==
  ASSUME TypeOK, ConstantsAssumption, NEW a \in Admins,
         NEW op \in {"task", "project", "member", "user"},
         NEW of \in Tasks \cup Projects \cup (Users \X Projects) \cup Users,
         BeginClosing(a, op, of)
  PROVE  OnlyCloses /\ TypeOK'
<1>. USE DEF adminUnchanged, clientVars, policyVars
<1>1. UNCHANGED sessions
  BY DEF BeginClosing
<1>2. OnlyCloses
  BY <1>1 DEF OnlyCloses, IsOpen, Exists
<1> DEFINE c == [op |-> op, of |-> of, at |-> now, seen |-> SeenNow(op, of)]
<1>3. SeenNow(op, of) \in SUBSET Segment
  BY DEF SeenNow, TypeOK
<1>4. c \in Closing
  BY <1>3 DEF Closing, TypeOK
<1>5. admin' = [admin EXCEPT ![a] = c]
  BY DEF BeginClosing
<1> HIDE DEF c
<1>6. admin' \in [Admins -> Closing \cup {NoClosing}]
  BY <1>4, <1>5 DEF TypeOK
<1> QED BY <1>2, <1>6 DEF BeginClosing, TypeOK

\* A step that leaves the rows alone closes at most nothing.
LEMMA UnchangedRowsOnlyClose == UNCHANGED sessions => OnlyCloses
  BY DEF OnlyCloses, IsOpen, Exists

\* Administrative steps and the clock.
LEMMA AdministerKeepsInv ==
  ASSUME SessionInv, ConstantsAssumption, Administer \/ Tick
  PROVE  SessionInv'
<1>. USE DEF adminUnchanged, clientVars, workVars, policyVars
<1>0. TypeOK
  BY DEF SessionInv
<1>1. UNCHANGED req
  BY DEF Administer, Tick, ArchiveTask, TaskArchived, ActivateTask, ArchiveProject,
     ProjectArchived, RestoreProject, RemoveMember, MemberRemoved, AddMember, DisableUser,
     UserDisabled, EnableUser, DisableDevice, EnableDevice, UpdateOrganizationPolicy,
     UpdateMemberPolicy, CompactReceipts, BeginClosing, FinishClosing
<1>2. \A r \in Requests : InTransaction(r)' => InTransaction(r) /\ req'[r] = req[r]
  BY <1>1 DEF InTransaction
<1>3. SUFFICES OnlyCloses /\ TypeOK'
  BY <1>2, ClosingKeepsInv DEF SessionInv
<1>4. ASSUME NEW a \in Admins, NEW t \in Tasks, ArchiveTask(a, t)
      PROVE  OnlyCloses /\ TypeOK'
  BY <1>0, <1>4, BeginClosingFacts DEF ArchiveTask
<1>18. ASSUME NEW a \in Admins, TaskArchived(a)
       PROVE  OnlyCloses /\ TypeOK'
  <2>1. FinishClosing(a, "task")
    BY <1>18 DEF TaskArchived
  <2>2. OnlyCloses /\ WorkTypeOK'
    BY <1>0, <2>1, FinishFacts
  <2> QED BY <1>0, <1>18, <2>2 DEF TaskArchived, FinishClosing, TypeOK, WorkTypeOK
<1>5. ASSUME NEW t \in Tasks, ActivateTask(t)
      PROVE  OnlyCloses /\ TypeOK'
  BY <1>0, <1>5, UnchangedRowsOnlyClose DEF ActivateTask, TypeOK
<1>6. ASSUME NEW a \in Admins, NEW p \in Projects, ArchiveProject(a, p)
      PROVE  OnlyCloses /\ TypeOK'
  BY <1>0, <1>6, BeginClosingFacts DEF ArchiveProject
<1>19. ASSUME NEW a \in Admins, ProjectArchived(a)
       PROVE  OnlyCloses /\ TypeOK'
  <2>1. FinishClosing(a, "project")
    BY <1>19 DEF ProjectArchived
  <2>2. OnlyCloses /\ WorkTypeOK'
    BY <1>0, <2>1, FinishFacts
  <2> QED BY <1>0, <1>19, <2>2 DEF ProjectArchived, FinishClosing, TypeOK, WorkTypeOK
<1>7. ASSUME NEW p \in Projects, RestoreProject(p)
      PROVE  OnlyCloses /\ TypeOK'
  BY <1>0, <1>7, UnchangedRowsOnlyClose DEF RestoreProject, TypeOK
<1>8. ASSUME NEW a \in Admins, NEW u \in Users, NEW p \in Projects, RemoveMember(a, u, p)
      PROVE  OnlyCloses /\ TypeOK'
  BY <1>0, <1>8, BeginClosingFacts DEF RemoveMember
<1>20. ASSUME NEW a \in Admins, MemberRemoved(a)
       PROVE  OnlyCloses /\ TypeOK'
  <2>1. FinishClosing(a, "member")
    BY <1>20 DEF MemberRemoved
  <2>2. OnlyCloses /\ WorkTypeOK'
    BY <1>0, <2>1, FinishFacts
  <2> QED BY <1>0, <1>20, <2>2 DEF MemberRemoved, FinishClosing, TypeOK, WorkTypeOK
<1>9. ASSUME NEW u \in Users, NEW p \in Projects, AddMember(u, p)
      PROVE  OnlyCloses /\ TypeOK'
  BY <1>0, <1>9, UnchangedRowsOnlyClose DEF AddMember, TypeOK
<1>10. ASSUME NEW a \in Admins, NEW u \in Users, DisableUser(a, u)
       PROVE  OnlyCloses /\ TypeOK'
  BY <1>0, <1>10, BeginClosingFacts DEF DisableUser
<1>21. ASSUME NEW a \in Admins, UserDisabled(a)
       PROVE  OnlyCloses /\ TypeOK'
  <2>1. FinishClosing(a, "user")
    BY <1>21 DEF UserDisabled
  <2>2. OnlyCloses /\ WorkTypeOK'
    BY <1>0, <2>1, FinishFacts
  <2> QED BY <1>0, <1>21, <2>2 DEF UserDisabled, FinishClosing, TypeOK, WorkTypeOK
<1>11. ASSUME NEW u \in Users, EnableUser(u)
       PROVE  OnlyCloses /\ TypeOK'
  BY <1>0, <1>11, UnchangedRowsOnlyClose DEF EnableUser, TypeOK
<1>12. ASSUME NEW d \in Devices, DisableDevice(d)
       PROVE  OnlyCloses /\ TypeOK'
  BY <1>0, <1>12, CloseOpenFacts DEF DisableDevice, Rows, TypeOK, WorkTypeOK
<1>13. ASSUME NEW d \in Devices, EnableDevice(d)
       PROVE  OnlyCloses /\ TypeOK'
  BY <1>0, <1>13, UnchangedRowsOnlyClose DEF EnableDevice, TypeOK
<1>14. ASSUME NEW value \in Policy, UpdateOrganizationPolicy(value)
       PROVE  OnlyCloses /\ TypeOK'
  <2> DEFINE chosen == IF value = "desktop_only"
                       THEN WebRowsUnder(value, memberPolicy, Users) ELSE {}
  <2>1. \A i \in chosen : i \in SessionIds /\ Exists(i)
    BY DEF WebRowsUnder
  <2>2. CloseUnended(chosen)
    BY <1>14 DEF UpdateOrganizationPolicy
  <2>3. OnlyCloses /\ WorkTypeOK'
    <3> HIDE DEF chosen
    <3> QED BY <1>0, <2>1, <2>2, CloseUnendedFacts
  <2> QED
    BY <1>0, <1>14, <2>3 DEF UpdateOrganizationPolicy, TypeOK, WorkTypeOK
<1>15. ASSUME NEW u \in Users, NEW value \in Policy \cup {"inherit"},
              UpdateMemberPolicy(u, value)
       PROVE  OnlyCloses /\ TypeOK'
  <2> DEFINE chosen == WebRowsUnder(orgPolicy, [memberPolicy EXCEPT ![u] = value], {u})
  <2>1. \A i \in chosen : i \in SessionIds /\ Exists(i)
    BY DEF WebRowsUnder
  <2>2. CloseUnended(chosen)
    BY <1>15 DEF UpdateMemberPolicy
  <2>3. OnlyCloses /\ WorkTypeOK'
    <3> HIDE DEF chosen
    <3> QED BY <1>0, <2>1, <2>2, CloseUnendedFacts
  <2> QED
    BY <1>0, <1>15, <2>3 DEF UpdateMemberPolicy, TypeOK, WorkTypeOK
<1>16. ASSUME NEW d \in Devices, CompactReceipts(d)
       PROVE  OnlyCloses /\ TypeOK'
  BY <1>0, <1>16, UnchangedRowsOnlyClose DEF CompactReceipts, TypeOK
<1>17. ASSUME Tick
       PROVE  OnlyCloses /\ TypeOK'
  BY <1>0, <1>17, UnchangedRowsOnlyClose DEF Tick, TypeOK
<1> QED
  BY <1>4, <1>5, <1>6, <1>7, <1>8, <1>9, <1>10, <1>11, <1>12, <1>13, <1>14, <1>15,
     <1>16, <1>17, <1>18, <1>19, <1>20, <1>21 DEF Administer

\* Steps of a request that leave the rows alone and begin no transaction.
LEMMA AnswerFacts ==
  ASSUME TypeOK, ConstantsAssumption, NEW r \in Requests, req[r] # NoEvent, Answer(r)
  PROVE  /\ req' = [req EXCEPT ![r] = NoEvent]
         /\ req' \in [Requests -> Request \cup {NoEvent}]
         /\ pending' \in [Devices -> Event \cup {NoEvent}]
         /\ journalled' = journalled
         /\ \A q \in Requests : InTransaction(q)' => InTransaction(q) /\ req'[q] = req[q]
<1>1. req' = [req EXCEPT ![r] = NoEvent] /\ journalled' = journalled
  BY DEF Answer
<1>2. pending' \in [Devices -> Event \cup {NoEvent}]
  BY DEF Answer, TypeOK
<1>3. req' \in [Requests -> Request \cup {NoEvent}]
  BY <1>1 DEF TypeOK
<1>4. \A q \in Requests : InTransaction(q)' => InTransaction(q) /\ req'[q] = req[q]
  BY <1>1 DEF InTransaction, TypeOK
<1> QED BY <1>1, <1>2, <1>3, <1>4

\* A request enters the server.
LEMMA AcceptedFacts ==
  ASSUME TypeOK, ConstantsAssumption, NEW r \in Requests, NEW e \in Event,
         req[r] = NoEvent, req' = [req EXCEPT ![r] = Accepted(e)]
  PROVE  /\ req' \in [Requests -> Request \cup {NoEvent}]
         /\ \A q \in Requests : InTransaction(q)' => InTransaction(q) /\ req'[q] = req[q]
<1>1. Accepted(e) \in Request
  BY DEF Accepted, Request, Status
<1>2. Accepted(e).pc = "authorize"
  BY DEF Accepted
<1> HIDE DEF Accepted
<1>3. req' \in [Requests -> Request \cup {NoEvent}]
  BY <1>1 DEF TypeOK
<1>4. \A q \in Requests : InTransaction(q)' => InTransaction(q) /\ req'[q] = req[q]
  BY <1>2 DEF InTransaction, TypeOK
<1> QED BY <1>3, <1>4

\* A client writes an event to its journal.
LEMMA JournalKeepsInv ==
  ASSUME SessionInv, ConstantsAssumption, NEW dev \in Devices,
         Journal(dev) \/ JournalField(dev)
  PROVE  SessionInv'
<1>. USE DEF clientVars, workVars, policyVars
<1>0. TypeOK
  BY DEF SessionInv
<1> DEFINE Keeps == /\ TypeOK' /\ UNCHANGED sessions
                    /\ \A q \in Requests : InTransaction(q)' =>
                          InTransaction(q) /\ req'[q] = req[q]
<1>1. SUFFICES Keeps
  BY ClosingKeepsInv, UnchangedRowsOnlyClose DEF SessionInv
<1>2. ASSUME NEW d \in Devices, Journal(d)
      PROVE  Keeps
  <2>1. PICK s \in Reported, t \in Tasks, at \in 0 .. (now + Skew), x \in BOOLEAN :
          \E idle \in (IF s = "paused" THEN Idles ELSE {0}) :
            pending' = [pending EXCEPT ![d] =
              [id |-> journalled[d] + 1, device |-> d, status |-> s, task |-> t,
               at |-> at, idle |-> idle, transition |-> x]]
    BY <1>2 DEF Journal
  <2>2. PICK idle \in (IF s = "paused" THEN Idles ELSE {0}) :
            pending' = [pending EXCEPT ![d] =
              [id |-> journalled[d] + 1, device |-> d, status |-> s, task |-> t,
               at |-> at, idle |-> idle, transition |-> x]]
    BY <2>1
  <2>3. idle \in Nat /\ at \in Nat /\ s \in Status /\ journalled[d] + 1 \in Nat
    BY <1>0 DEF ConstantsAssumption, TypeOK
  <2>4. [id |-> journalled[d] + 1, device |-> d, status |-> s, task |-> t,
         at |-> at, idle |-> idle, transition |-> x] \in Event
    BY <2>3 DEF Event
  <2>5. pending' \in [Devices -> Event \cup {NoEvent}]
    BY <1>0, <2>2, <2>4 DEF TypeOK
  <2>6. journalled' \in [Devices -> Nat]
    BY <1>0, <1>2 DEF Journal, TypeOK
  <2> QED BY <1>0, <1>2, <2>5, <2>6 DEF Journal, TypeOK, InTransaction
<1>3. ASSUME NEW d \in Devices, JournalField(d)
      PROVE  Keeps
  <2>1. PICK s \in Reported, t \in Tasks, at \in 0 .. (now + Skew) :
          /\ ReadsClock(d, at)
          /\ pending' = [pending EXCEPT ![d] =
               [id |-> journalled[d] + 1, device |-> d, status |-> s, task |-> t,
                at |-> at, idle |-> 0, transition |-> TRUE]]
    <3> HIDE DEF Keeps
    <3> QED BY <1>3 DEF JournalField
  <2>3. at \in Nat /\ s \in Status /\ journalled[d] + 1 \in Nat
    BY <1>0 DEF ConstantsAssumption, TypeOK
  <2>4. [id |-> journalled[d] + 1, device |-> d, status |-> s, task |-> t,
         at |-> at, idle |-> 0, transition |-> TRUE] \in Event
    BY <2>3 DEF Event
  <2>5. pending' \in [Devices -> Event \cup {NoEvent}]
    BY <1>0, <2>1, <2>4 DEF TypeOK
  <2>6. journalled' \in [Devices -> Nat]
    BY <1>0, <1>3 DEF JournalField, TypeOK
  <2> QED BY <1>0, <1>3, <2>5, <2>6 DEF JournalField, TypeOK, InTransaction
<1> HIDE DEF Keeps
<1> QED
  BY <1>2, <1>3

\* The steps before a transaction, and the ends that write no row.
LEMMA QuietKeepsInv ==
  ASSUME SessionInv, ConstantsAssumption, NEW r \in Requests,
         \/ \E d \in Devices : Heartbeat(r, d) \/ FieldTimer(r, d) \/ WebTimer(r, d)
         \/ Authorize(r) \/ Refuse(r) \/ EndEarly(r) \/ Rollback(r)
  PROVE  SessionInv'
<1>. USE DEF clientVars, workVars, policyVars
<1>0. TypeOK
  BY DEF SessionInv
<1> DEFINE Keeps == /\ TypeOK' /\ UNCHANGED sessions
                    /\ \A q \in Requests : InTransaction(q)' =>
                          InTransaction(q) /\ req'[q] = req[q]
<1>1. SUFFICES Keeps
  BY ClosingKeepsInv, UnchangedRowsOnlyClose DEF SessionInv
<1>4. ASSUME NEW d \in Devices, Heartbeat(r, d)
      PROVE  Keeps
  <2>1. pending[d] \in Event
    BY <1>0, <1>4 DEF Heartbeat, TypeOK
  <2> QED BY <1>0, <1>4, <2>1, AcceptedFacts DEF Heartbeat, TypeOK
<1>5. ASSUME NEW d \in Devices, FieldTimer(r, d)
      PROVE  Keeps
  <2>1. pending[d] \in Event
    BY <1>0, <1>5 DEF FieldTimer, TypeOK
  <2>2. PICK t \in {sessions[i].task : i \in OpenOf(d)} \cup {pending[d].task} :
          req' = [req EXCEPT ![r] = Accepted([pending[d] EXCEPT !.task = t])]
    BY <1>5 DEF FieldTimer
  <2>3. t \in Tasks
    BY <1>0, <2>1 DEF OpenOf, IsOpen, Exists, TypeOK, Session, Event
  <2>4. [pending[d] EXCEPT !.task = t] \in Event
    BY <2>1, <2>3 DEF Event
  <2> QED BY <1>0, <1>5, <2>2, <2>4, AcceptedFacts DEF FieldTimer, TypeOK
<1>6. ASSUME NEW d \in Devices, WebTimer(r, d)
      PROVE  Keeps
  <2>1. PICK s \in Reported, t \in Tasks :
          req' = [req EXCEPT ![r] = Accepted(
            [id |-> 0, device |-> d, status |-> s, task |-> t, at |-> now,
             idle |-> 0, transition |-> TRUE])]
    BY <1>6 DEF WebTimer
  <2>2. [id |-> 0, device |-> d, status |-> s, task |-> t, at |-> now,
             idle |-> 0, transition |-> TRUE] \in Event
    BY <1>0 DEF Event, TypeOK, ConstantsAssumption
  <2> QED BY <1>0, <1>6, <2>1, <2>2, AcceptedFacts DEF WebTimer, TypeOK
<1>7. ASSUME Authorize(r)
      PROVE  Keeps
  <2>1. req[r] \in Request /\ req[r].pc = "authorize"
    BY <1>0, <1>7 DEF Authorize, TypeOK
  <2>2. req' = [req EXCEPT ![r] = [req[r] EXCEPT !.pc = "begin"]]
    BY <1>7 DEF Authorize
  <2>3. [req[r] EXCEPT !.pc = "begin"] \in Request
        /\ [req[r] EXCEPT !.pc = "begin"].pc = "begin"
    BY <2>1 DEF Request
  <2>4. req' \in [Requests -> Request \cup {NoEvent}]
    BY <1>0, <2>2, <2>3 DEF TypeOK
  <2>5. \A q \in Requests : InTransaction(q)' => InTransaction(q) /\ req'[q] = req[q]
    BY <1>0, <2>2, <2>3 DEF InTransaction, TypeOK
  <2> QED BY <1>0, <1>7, <2>4, <2>5 DEF Authorize, TypeOK
<1>8. ASSUME Refuse(r)
      PROVE  Keeps
  BY <1>0, <1>8, AnswerFacts DEF Refuse, TypeOK
<1>9. ASSUME EndEarly(r)
      PROVE  Keeps
  BY <1>0, <1>9, AnswerFacts DEF EndEarly, TypeOK
<1>10. ASSUME Rollback(r)
       PROVE  Keeps
  BY <1>0, <1>10, AnswerFacts DEF Rollback, TypeOK
<1> HIDE DEF Keeps
<1> QED
  BY <1>4, <1>5, <1>6, <1>7, <1>8, <1>9, <1>10

\* A transaction begins: no other of the user is open, and the session read is
\* the only one the device has open.
LEMMA BeginKeepsInv ==
  ASSUME SessionInv, ConstantsAssumption, NEW r \in Requests, BeginTransaction(r)
  PROVE  SessionInv'
<1>. USE DEF clientVars, workVars, policyVars
<1>0. TypeOK /\ OneOpenSessionPerUser /\ SnapshotStaysSound
  BY DEF SessionInv
<1>1. req[r] \in Request /\ req[r].pc = "begin" /\ UNCHANGED sessions
  BY <1>0 DEF BeginTransaction, TypeOK
<1> DEFINE d == req[r].ev.device
<1>2. d \in Devices
  BY <1>1 DEF Request, Event
<1>3. PICK i \in IF OpenOf(d) = {} THEN {NoSession} ELSE OpenOf(d) :
        req' = [req EXCEPT ![r] =
          [req[r] EXCEPT !.pc = "commit", !.own = i,
                         !.was = IF i = NoSession THEN "stopped" ELSE sessions[i].status]]
  BY DEF BeginTransaction
<1>4. i \in SessionIds \cup {NoSession}
  BY DEF OpenOf
<1>5. (IF i = NoSession THEN "stopped" ELSE sessions[i].status) \in Status
  BY <1>0, ConstantsAssumption DEF OpenOf, IsOpen, OpenStatus, Status
<1> DEFINE w == IF i = NoSession THEN "stopped" ELSE sessions[i].status
<1> DEFINE new == [req[r] EXCEPT !.pc = "commit", !.own = i, !.was = w]
<1>6. new \in Request /\ new.ev = req[r].ev /\ new.own = i
  <2> HIDE DEF w
  <2>1. w \in Status
    BY <1>5 DEF w
  <2> QED BY <1>1, <1>4, <2>1 DEF Request
<1>7. req' = [req EXCEPT ![r] = new]
  BY <1>3
<1>8. new # NoEvent
  BY <1>6 DEF ConstantsAssumption
<1>9. req' \in [Requests -> Request \cup {NoEvent}]
  BY <1>0, <1>6, <1>7 DEF TypeOK
<1>10. TypeOK'
  BY <1>0, <1>9 DEF BeginTransaction, TypeOK
<1>11. OneOpenSessionPerUser'
  BY <1>0, <1>1 DEF OneOpenSessionPerUser, IsOpen, Exists, UserOf
<1>12. req'[r] = new /\ \A q \in Requests : q # r => req'[q] = req[q]
  BY <1>0, <1>7 DEF TypeOK
<1>13. \A q \in Requests : InTransaction(q) => Owner[req[q].ev.device] # Owner[d]
  BY DEF BeginTransaction, TimerLockFree, Locked, InTransaction
<1>14. new.ev = req[r].ev /\ new.own = i
  BY <1>6
<1> HIDE DEF new
<1>15. ASSUME NEW p \in Requests, NEW q \in Requests,
              InTransaction(p)', InTransaction(q)', SameUser(p, q)'
       PROVE  p = q
  <2>1. \A x \in Requests : x # r => (InTransaction(x)' <=> InTransaction(x))
    BY <1>12 DEF InTransaction
  <2>2. CASE p = r /\ q # r
    BY <2>1, <2>2, <1>12, <1>13, <1>14, <1>15 DEF SameUser
  <2>3. CASE q = r /\ p # r
    BY <2>1, <2>3, <1>12, <1>13, <1>14, <1>15 DEF SameUser
  <2>4. CASE p # r /\ q # r
    BY <2>1, <2>4, <1>0, <1>12, <1>15 DEF SameUser, SnapshotStaysSound
  <2> QED BY <2>2, <2>3, <2>4
<1>16. ASSUME NEW q \in Requests, InTransaction(q)'
       PROVE  ReadIsSound(q)'
  <2>1. CASE q # r
    <3>1. InTransaction(q) /\ req'[q] = req[q] /\ ReadIsSound(q)
      BY <1>0, <1>12, <1>16, <2>1 DEF InTransaction, SnapshotStaysSound
    <3> QED BY <1>1, <3>1 DEF ReadIsSound, OpenOf, IsOpen, Exists
  <2>2. CASE q = r
    <3>1. req'[r].own = i /\ req'[r].ev.device = d
      BY <1>12, <1>14
    <3>2. \A j \in OpenOf(d) : j = i
      BY <1>0, <1>2 DEF OpenOf, OneOpenSessionPerUser, UserOf
    <3>3. i # NoSession => Exists(i) /\ sessions[i].device = d
      BY DEF OpenOf, IsOpen
    <3> QED BY <1>1, <2>2, <3>1, <3>2, <3>3 DEF ReadIsSound, OpenOf, IsOpen, Exists
  <2> QED BY <2>1, <2>2
<1> QED
  BY <1>10, <1>11, <1>15, <1>16 DEF SessionInv, SnapshotStaysSound

\* A commit of request r that may open one session, k, of its own device and
\* leaves no other session of the user open.  The other transactions are other
\* users', so what they read is still sound.
LEMMA OpeningKeepsInv ==
  ASSUME SessionInv, ConstantsAssumption, NEW r \in Requests, InTransaction(r),
         req' = [req EXCEPT ![r] = NoEvent],
         NEW k \in SessionIds, Exists(k) => k = req[r].own,
         Exists(k)', sessions'[k].device = req[r].ev.device,
         \A j \in SessionIds : j # k =>
           /\ Exists(j)' <=> Exists(j)
           /\ Exists(j) => sessions'[j].device = sessions[j].device
           /\ IsOpen(j)' => IsOpen(j) /\ UserOf(j) # Owner[req[r].ev.device]
  PROVE  OneOpenSessionPerUser' /\ SnapshotStaysSound'
<1>0. TypeOK /\ OneOpenSessionPerUser /\ SnapshotStaysSound
  BY DEF SessionInv
<1>1. req[r] \in Request
  BY <1>0 DEF TypeOK, InTransaction
<1>2. UserOf(k)' = Owner[req[r].ev.device]
  BY DEF UserOf
<1>3. \A j \in SessionIds : j # k /\ IsOpen(j)' => IsOpen(j) /\ UserOf(j)' = UserOf(j)
                                                  /\ UserOf(j) # UserOf(k)'
  BY <1>2 DEF UserOf, IsOpen
<1>4. OneOpenSessionPerUser'
  BY <1>0, <1>3 DEF OneOpenSessionPerUser
<1>5. \A q \in Requests : InTransaction(q)' => q # r /\ InTransaction(q) /\ req'[q] = req[q]
  BY <1>0 DEF InTransaction, TypeOK
<1>6. ASSUME NEW p \in Requests, NEW q \in Requests,
             InTransaction(p)', InTransaction(q)', SameUser(p, q)'
      PROVE  p = q
  BY <1>0, <1>5, <1>6 DEF SnapshotStaysSound, SameUser
<1>7. ASSUME NEW q \in Requests, InTransaction(q)'
      PROVE  ReadIsSound(q)'
  <2>1. q # r /\ InTransaction(q) /\ req'[q] = req[q] /\ ReadIsSound(q) /\ ReadIsSound(r)
    BY <1>0, <1>5, <1>7 DEF SnapshotStaysSound
  <2>2. Owner[req[q].ev.device] # Owner[req[r].ev.device]
    BY <1>0, <2>1 DEF SnapshotStaysSound, SameUser
  <2>3. req[q].ev.device # req[r].ev.device
    BY <2>2
  <2>4. req[q].own # NoSession => req[q].own \in SessionIds
    BY <1>0, <2>1 DEF InTransaction, TypeOK, Request
  <2>5. req[q].own # NoSession => req[q].own # k
    BY <2>1, <2>3 DEF ReadIsSound
  <2>6. \A j \in OpenOf(req[q].ev.device)' : j \in OpenOf(req[q].ev.device)
    BY <2>1, <2>3 DEF OpenOf, IsOpen
  <2> QED
    BY <2>1, <2>4, <2>5, <2>6 DEF ReadIsSound, OpenOf
<1> QED
  BY <1>4, <1>6, <1>7 DEF SnapshotStaysSound

\* What _stop_session and _close_segment write for the sessions a commit stops.
LEMMA StoppingFacts ==
  ASSUME SessionInv, ConstantsAssumption, NEW r \in Requests, InTransaction(r),
         NEW previous \in Previous(req[r].ev)
  PROVE  /\ previous \in Receipt
         /\ Observed(req[r].ev, previous) \in Nat
         /\ \A i \in Stopping(r, previous) : i \in SessionIds /\ Exists(i)
         /\ StoppedRows(r, previous) \in [SessionIds -> Session \cup {NoSession}]
         /\ \A i \in SessionIds : i \notin Stopping(r, previous) =>
              StoppedRows(r, previous)[i] = sessions[i]
         /\ \A i \in Stopping(r, previous) :
              /\ StoppedRows(r, previous)[i] \in Session
              /\ StoppedRows(r, previous)[i].status = "stopped"
              /\ StoppedRows(r, previous)[i].device = sessions[i].device
              /\ StoppedRows(r, previous)[i].task = sessions[i].task
         /\ StoppedSegments(r, previous) \subseteq Segment
<1>0. TypeOK /\ ReadIsSound(r) /\ req[r] \in Request /\ req[r].ev \in Event
  BY DEF SessionInv, SnapshotStaysSound, TypeOK, InTransaction, Request
<1>1. previous \in Receipt
  BY <1>0 DEF Previous, Newest, NoReceipt, TypeOK, Receipt, Event, Status
<1>2. previous.at \in Nat /\ req[r].ev.at \in Nat
  BY <1>0, <1>1 DEF Receipt, Event
<1>3. Observed(req[r].ev, previous) \in Nat
  BY <1>2 DEF Observed, Later
<1>4. \A i \in Stopping(r, previous) : i \in SessionIds /\ Exists(i)
  BY <1>0 DEF Stopping, Others, ReadIsSound, IsOpen, Request
<1>5. \A i : StopTime(r, previous, i) \in Nat
  BY <1>2, <1>3 DEF StopTime, ConstantsAssumption
<1> DEFINE S == Stopping(r, previous)
<1> DEFINE T(i) == StopTime(r, previous, i)
<1>6. StoppedRows(r, previous) = [i \in SessionIds |->
         IF i \in S THEN [sessions[i] EXCEPT !.status = "stopped", !.ended = T(i)]
         ELSE sessions[i]]
  BY DEF StoppedRows, StopRows
<1>7. StoppedSegments(r, previous) =
        {IF OpenSegment(g) /\ g.session \in S
           THEN [g EXCEPT !.to = Later(g.from, T(g.session))] ELSE g : g \in segments}
  BY DEF StoppedSegments, CloseSegments
<1>8. \A i : T(i) \in Nat
  BY <1>5
<1> DEFINE R == StoppedRows(r, previous)
<1> HIDE DEF S, T
<1>9. ASSUME NEW i \in S
      PROVE  /\ R[i] \in Session /\ R[i].status = "stopped"
             /\ R[i].device = sessions[i].device /\ R[i].task = sessions[i].task
  <2>1. i \in SessionIds /\ sessions[i] \in Session
    BY <1>0, <1>4 DEF S, Exists, TypeOK
  <2>2. R[i] = [sessions[i] EXCEPT !.status = "stopped", !.ended = T(i)]
    BY <1>6, <2>1
  <2>3. T(i) \in Nat
    BY <1>8
  <2> HIDE DEF R
  <2> QED BY <2>1, <2>2, <2>3 DEF Session, Status
<1>10. \A i \in SessionIds : i \notin S => R[i] = sessions[i]
  BY <1>6
<1>11. R \in [SessionIds -> Session \cup {NoSession}]
  <2>1. \A i \in SessionIds : R[i] \in Session \cup {NoSession}
    <3> HIDE DEF R
    <3> QED BY <1>0, <1>9, <1>10 DEF TypeOK
  <2> QED BY <1>6, <2>1
<1>12. StoppedSegments(r, previous) \subseteq Segment
  <2>1. ASSUME NEW g \in segments
        PROVE  [g EXCEPT !.to = Later(g.from, T(g.session))] \in Segment
    <3>1. g \in Segment /\ g.from \in Nat
      BY <1>0 DEF TypeOK, Segment
    <3>2. Later(g.from, T(g.session)) \in Nat
      BY <1>8, <3>1 DEF Later
    <3> QED BY <3>1, <3>2 DEF Segment
  <2> QED BY <1>0, <1>7, <2>1 DEF TypeOK
<1> QED
  BY <1>1, <1>3, <1>4, <1>9, <1>10, <1>11, <1>12 DEF S

\* A commit: everything of the user's but the session it reports is stopped.
LEMMA CommitKeepsInv ==
  ASSUME SessionInv, ConstantsAssumption, NEW r \in Requests, Commit(r)
  PROVE  SessionInv'
<1>. USE DEF policyVars
<1>0. TypeOK /\ InTransaction(r) /\ ReadIsSound(r) /\ req[r] \in Request
      /\ req[r].ev \in Event
  BY DEF SessionInv, SnapshotStaysSound, TypeOK, InTransaction, Request, Commit
<1>1. PICK previous \in Previous(req[r].ev) :
        \/ CommitStop(r, previous)
        \/ CommitInsert(r, previous)
        \/ CommitUpdate(r, previous)
  BY DEF Commit
<1> DEFINE e == req[r].ev
<1> DEFINE S == Stopping(r, previous)
<1> DEFINE R == StoppedRows(r, previous)
<1> DEFINE G == StoppedSegments(r, previous)
<1>2. /\ previous \in Receipt /\ Observed(e, previous) \in Nat
      /\ R \in [SessionIds -> Session \cup {NoSession}] /\ G \subseteq Segment
  BY <1>0, StoppingFacts
<1>3. \A i \in SessionIds :
        /\ R[i] # NoSession <=> Exists(i)
        /\ Exists(i) => R[i].device = sessions[i].device /\ R[i].task = sessions[i].task
        /\ i \in S => R[i] \in Session /\ R[i].status = "stopped"
        /\ i \notin S => R[i] = sessions[i]
  BY <1>0, StoppingFacts DEF ConstantsAssumption, Exists
<1>4. /\ req' = [req EXCEPT ![r] = NoEvent] /\ req' \in [Requests -> Request \cup {NoEvent}]
      /\ pending' \in [Devices -> Event \cup {NoEvent}] /\ journalled' = journalled
      /\ \A q \in Requests : InTransaction(q)' => InTransaction(q) /\ req'[q] = req[q]
  BY <1>0, AnswerFacts DEF Commit, InTransaction
<1>5. receipts' \subseteq Receipt
  <2>1. [id |-> e.id, device |-> e.device, status |-> e.status,
         at |-> Observed(e, previous)] \in Receipt
    BY <1>0, <1>2 DEF Receipt, Event
  <2> QED BY <1>0, <1>1, <2>1 DEF CommitStop, CommitInsert, CommitUpdate, Record, TypeOK
<1>6. SUFFICES /\ sessions' \in [SessionIds -> Session \cup {NoSession}]
               /\ segments' \subseteq Segment
               /\ OneOpenSessionPerUser' /\ SnapshotStaysSound'
  <2> SUFFICES ASSUME sessions' \in [SessionIds -> Session \cup {NoSession}],
                      segments' \subseteq Segment
               PROVE  TypeOK'
    BY DEF SessionInv
  <2>1. overlooked' \subseteq Segment /\ admin' \in [Admins -> Closing \cup {NoClosing}]
    BY <1>0, SettleFacts DEF Commit
  <2> QED BY <1>0, <1>4, <1>5, <2>1 DEF TypeOK, Commit
<1>7. \A i \in SessionIds \ S : IsOpen(i) /\ e.status # "stopped"
                                /\ UserOf(i) = Owner[e.device] => i = req[r].own
  <2>1. e.status # "stopped" => e.status \in OpenStatus
    BY <1>0 DEF Event, Status, OpenStatus
  <2> QED BY <1>0, <2>1 DEF Stopping, Others, ReadIsSound, OpenOf
<1> HIDE DEF S, R, G
<1>8. CASE CommitStop(r, previous)
  <2>1. sessions' = R /\ segments' = G
    BY <1>8 DEF CommitStop, R, G
  <2>2. OnlyCloses
    BY <1>3, <2>1 DEF OnlyCloses, IsOpen, Exists, OpenStatus
  <2> QED
    BY <1>2, <1>4, <2>1, <2>2, ClosingKeepsInv
<1>9. CASE CommitInsert(r, previous)
  <2> DEFINE t == Observed(e, previous)
  <2>1. PICK k \in SessionIds :
          /\ ~Exists(k)
          /\ sessions' = [R EXCEPT ![k] =
               [device |-> e.device, task |-> e.task, status |-> e.status,
                started |-> t, ended |-> Open]]
          /\ segments' = G \cup
               (IF e.status = "active"
                THEN {[session |-> k, from |-> t, to |-> Open]} ELSE {})
    BY <1>9 DEF CommitInsert, R, G
  <2> DEFINE row == [device |-> e.device, task |-> e.task, status |-> e.status,
                     started |-> t, ended |-> Open]
  <2>2. row \in Session /\ row.device = e.device
    BY <1>0, <1>2 DEF Session, Event
  <2>3. [session |-> k, from |-> t, to |-> Open] \in Segment
    BY <1>2 DEF Segment
  <2>4. segments' \subseteq Segment
    BY <1>2, <2>1, <2>3
  <2>5. sessions' = [R EXCEPT ![k] = row]
    BY <2>1
  <2> HIDE DEF row, t
  <2>6. sessions' \in [SessionIds -> Session \cup {NoSession}] /\ sessions'[k] = row
        /\ \A j \in SessionIds : j # k => sessions'[j] = R[j]
    BY <1>2, <2>2, <2>5
  <2>7. e.status # "stopped" /\ (req[r].own # NoSession => req[r].own \in S)
    BY <1>9 DEF CommitInsert, Stopping, S
  <2>8. ASSUME NEW j \in SessionIds, j # k
        PROVE  /\ Exists(j)' <=> Exists(j)
               /\ Exists(j) => sessions'[j].device = sessions[j].device
               /\ IsOpen(j)' => IsOpen(j) /\ UserOf(j) # Owner[e.device]
    <3>1. (Exists(j)' <=> Exists(j)) /\ (Exists(j) => sessions'[j].device = sessions[j].device)
      BY <1>3, <2>6, <2>8 DEF Exists
    <3>2. IsOpen(j)' => j \notin S /\ IsOpen(j)
      BY <1>3, <2>6, <2>8 DEF IsOpen, Exists, OpenStatus
    <3>3. j # NoSession
      BY DEF ConstantsAssumption
    <3> QED BY <1>7, <2>7, <3>1, <3>2, <3>3
  <2>9. Exists(k)' /\ sessions'[k].device = e.device
    BY <2>2, <2>6 DEF Exists, ConstantsAssumption
  <2>10. OneOpenSessionPerUser' /\ SnapshotStaysSound'
    BY <1>0, <1>4, <2>1, <2>8, <2>9, OpeningKeepsInv
  <2> QED BY <2>4, <2>6, <2>10
<1>10. CASE CommitUpdate(r, previous)
  <2> DEFINE t == Observed(e, previous)
  <2>0. PICK own \in SessionIds : own = req[r].own
    BY <1>0, <1>10 DEF CommitUpdate, Continues, Request
  <2>1. Exists(own) /\ sessions[own].device = e.device /\ e.status # "stopped"
    BY <1>0, <1>10, <2>0 DEF CommitUpdate, Continues, ReadIsSound
  <2>2. sessions' = [R EXCEPT ![own].status = e.status]
    BY <1>10, <2>0 DEF CommitUpdate, R
  <2>3. R[own] \in Session /\ R[own].device = e.device /\ e.status \in Status
    BY <1>0, <1>2, <1>3, <2>1 DEF Event
  <2> DEFINE row == [R[own] EXCEPT !.status = e.status]
  <2>4. row \in Session /\ row.device = e.device
    BY <2>3 DEF Session
  <2>5. sessions' = [R EXCEPT ![own] = row]
    BY <2>2
  <2> HIDE DEF row
  <2>6. sessions' \in [SessionIds -> Session \cup {NoSession}] /\ sessions'[own] = row
        /\ \A j \in SessionIds : j # own => sessions'[j] = R[j]
    BY <1>2, <2>1, <2>4, <2>5
  <2>7. ASSUME NEW j \in SessionIds, j # own
        PROVE  /\ Exists(j)' <=> Exists(j)
               /\ Exists(j) => sessions'[j].device = sessions[j].device
               /\ IsOpen(j)' => IsOpen(j) /\ UserOf(j) # Owner[e.device]
    <3>1. (Exists(j)' <=> Exists(j)) /\ (Exists(j) => sessions'[j].device = sessions[j].device)
      BY <1>3, <2>6, <2>7 DEF Exists
    <3>2. IsOpen(j)' => j \notin S /\ IsOpen(j)
      BY <1>3, <2>6, <2>7 DEF IsOpen, Exists, OpenStatus
    <3> QED BY <1>7, <2>0, <2>1, <2>7, <3>1, <3>2
  <2>8. Exists(own)' /\ sessions'[own].device = e.device
    BY <2>4, <2>6 DEF Exists, ConstantsAssumption
  <2>9. OneOpenSessionPerUser' /\ SnapshotStaysSound'
    BY <1>0, <1>4, <2>0, <2>1, <2>7, <2>8, OpeningKeepsInv
  <2>10. segments' \subseteq Segment
    <3>1. ASSUME NEW g \in G
          PROVE  [g EXCEPT !.to = PauseTime(g, r, t)] \in Segment
      <4>1. g \in Segment /\ g.from \in Nat /\ t - e.idle \in Int
        BY <1>0, <1>2 DEF Segment, Event
      <4>2. PauseTime(g, r, t) \in Nat
        BY <4>1 DEF PauseTime, Later
      <4> QED BY <4>1, <4>2 DEF Segment
    <3>2. [session |-> own, from |-> t, to |-> Open] \in Segment
      BY <1>2, <2>1 DEF Segment
    <3>3. \A h \in segments' : \/ h \in G
                               \/ h = [session |-> own, from |-> t, to |-> Open]
                               \/ \E g \in G : h = [g EXCEPT !.to = PauseTime(g, r, t)]
      BY <1>10, <2>0 DEF CommitUpdate, G
    <3> QED BY <1>2, <3>1, <3>2, <3>3
  <2> QED BY <2>6, <2>9, <2>10
<1> QED
  BY <1>1, <1>8, <1>9, <1>10

\* The initial state has no rows and no requests.
LEMMA InitSessionInv == Init => SessionInv
<1> SUFFICES ASSUME Init PROVE SessionInv
  OBVIOUS
<1>1. TypeOK
  BY DEF Init, TypeOK, Policy
<1> QED
  BY <1>1 DEF Init, SessionInv, OneOpenSessionPerUser, SnapshotStaysSound, IsOpen, Exists,
     InTransaction

\* The invariant holds at first and is kept by every step.
LEMMA SessionInvHolds == Spec => []SessionInv
<1>1. Init => SessionInv
  BY InitSessionInv
<1>2. ASSUME SessionInv, [Next]_vars
      PROVE  SessionInv'
  <2>1. CASE UNCHANGED vars
    BY <1>2, <2>1 DEF SessionInv, TypeOK, OneOpenSessionPerUser, SnapshotStaysSound,
       ReadIsSound, InTransaction, SameUser, OpenOf, IsOpen, Exists, UserOf, vars, policyVars,
       workVars, clientVars
  <2>2. CASE Tick \/ Administer
    BY <1>2, <2>2, AdministerKeepsInv, ConstantsAssumption
  <2>3. ASSUME NEW d \in Devices, Journal(d) \/ JournalField(d)
        PROVE  SessionInv'
    BY <1>2, <2>3, JournalKeepsInv, ConstantsAssumption
  <2>4. ASSUME NEW r \in Requests, Serve(r)
        PROVE  SessionInv'
    BY <1>2, <2>4, QuietKeepsInv, BeginKeepsInv, CommitKeepsInv, ConstantsAssumption DEF Serve
  <2> QED BY <1>2, <2>1, <2>2, <2>3, <2>4 DEF Next
<1> QED
  BY <1>1, <1>2, PTL DEF Spec

\* Type correctness of the work tables, the requests and the receipts.
THEOREM TypeCorrect == Spec => []TypeOK
<1>1. SessionInv => TypeOK
  BY DEF SessionInv
<1> QED BY <1>1, SessionInvHolds, PTL

\* A user has at most one open session, whatever the number of devices and
\* requests: the unique index uq_work_sessions_one_active_per_user is never hit.
THEOREM OneOpenSession == Spec => []OneOpenSessionPerUser
<1>1. SessionInv => OneOpenSessionPerUser
  BY DEF SessionInv
<1> QED BY <1>1, SessionInvHolds, PTL

\* The session read at the start of a transaction is, at its commit, still the
\* only one its device may have open.
THEOREM SnapshotSound == Spec => []SnapshotStaysSound
<1>1. SessionInv => SnapshotStaysSound
  BY DEF SessionInv
<1> QED BY <1>1, SessionInvHolds, PTL

-----------------------------------------------------------------------------
(***************************************************************************)
(* Receipts: an event is applied once, and never behind a later one.       *)
(***************************************************************************)

\* A device that has receipts has a newest one, whatever was compacted.
NewestExists == \A d \in Devices : AllReceipts(d) # {} => Newest(d) # {}

\* Past its duplicate check a request stays the first to apply its event: only
\* a request of the same user could, and the timer lock keeps those out.
FreshInTransaction == \A r \in Requests : InTransaction(r) => ~Duplicate(req[r].ev)

ReceiptInv == SessionInv /\ NewestExists /\ FreshInTransaction

\* What a commit adds to agent_state_events: at most the event of its request,
\* at no earlier time than any receipt of the device.
AddsNewest(r) ==
  LET e == req[r].ev
  IN \/ receipts' = receipts
     \/ \E x \in Receipt : /\ x.device = e.device /\ x.id = e.id /\ e.id # 0
                           /\ receipts' = receipts \cup {x}
                           /\ \A y \in receipts : y.device = x.device => y.at <= x.at
                           /\ e.at <= x.at
                           /\ \/ x.at = e.at
                              \/ \E y \in receipts : y.device = x.device /\ y.at = x.at

\* A commit appends the event of its request, clamped to the newest receipt.
LEMMA CommitAddsNewest ==
  ASSUME ReceiptInv, ConstantsAssumption, NEW r \in Requests, Commit(r)
  PROVE  AddsNewest(r)
<1>0. TypeOK /\ InTransaction(r) /\ req[r] \in Request /\ req[r].ev \in Event
  BY DEF ReceiptInv, SessionInv, TypeOK, InTransaction, Request, Commit
<1>1. PICK previous \in Previous(req[r].ev) : Record(req[r].ev, previous)
  BY DEF Commit, CommitStop, CommitInsert, CommitUpdate
<1> DEFINE e == req[r].ev
<1> DEFINE x == [id |-> e.id, device |-> e.device, status |-> e.status,
                 at |-> Observed(e, previous)]
<1>2. CASE e.id = 0
  BY <1>1, <1>2 DEF Record, AddsNewest
<1>3. CASE e.id # 0
  <2>1. previous \in Receipt /\ Observed(e, previous) \in Nat
    BY <1>0, StoppingFacts DEF ReceiptInv
  <2>2. x \in Receipt
    BY <1>0, <2>1 DEF Receipt, Event
  <2>3. previous.at \in Nat /\ e.at \in Nat /\ previous.at <= Observed(e, previous)
    BY <1>0, <2>1 DEF Observed, Later, Receipt, Event
  <2>4. ASSUME NEW y \in receipts, y.device = e.device
        PROVE  y.at <= Observed(e, previous)
    <3>1. e.device \in Devices /\ Newest(e.device) # {}
      BY <1>0, <2>4 DEF Event, ReceiptInv, NewestExists, AllReceipts
    <3>2. previous \in Newest(e.device)
      BY <1>3, <3>1 DEF Previous
    <3>3. y.at <= previous.at /\ y.at \in Nat
      BY <1>0, <2>4, <3>2 DEF Newest, TypeOK, Receipt
    <3> QED BY <2>1, <2>3, <3>3
  <2>5. receipts' = receipts \cup {x}
    BY <1>1, <1>3 DEF Record
  <2>6. x.device = e.device /\ x.id = e.id /\ x.at = Observed(e, previous)
    OBVIOUS
  <2>7. /\ e.at <= Observed(e, previous)
        /\ \/ Observed(e, previous) = e.at
           \/ \E y \in receipts : y.device = e.device /\ y.at = Observed(e, previous)
    <3>1. previous = NoReceipt(e.device) \/ previous \in Newest(e.device)
      BY DEF Previous
    <3>2. CASE previous = NoReceipt(e.device)
      BY <2>3, <3>2 DEF NoReceipt, Observed, Later
    <3>3. CASE previous \in Newest(e.device)
      BY <2>3, <3>3 DEF Newest, Observed, Later
    <3> QED BY <3>1, <3>2, <3>3
  <2> HIDE DEF x
  <2> QED BY <1>3, <2>2, <2>4, <2>5, <2>6, <2>7 DEF AddsNewest
<1> QED BY <1>2, <1>3

\* A step that leaves the receipts alone and begins no transaction.
LEMMA SameReceiptsKeepInv ==
  ASSUME ReceiptInv, SessionInv', UNCHANGED receipts,
         \A q \in Requests : InTransaction(q)' => InTransaction(q) /\ req'[q] = req[q]
  PROVE  ReceiptInv'
<1>1. NewestExists'
  BY DEF ReceiptInv, NewestExists, AllReceipts, Newest
<1>2. FreshInTransaction'
  BY DEF ReceiptInv, FreshInTransaction, Duplicate
<1> QED BY <1>1, <1>2 DEF ReceiptInv

\* The receipt a commit adds is the newest, and no other transaction has its event.
LEMMA CommitKeepsReceipts ==
  ASSUME ReceiptInv, SessionInv', ConstantsAssumption, NEW r \in Requests, Commit(r)
  PROVE  ReceiptInv'
<1>0. TypeOK /\ InTransaction(r) /\ SnapshotStaysSound
  BY DEF ReceiptInv, SessionInv, InTransaction, Commit
<1>1. /\ req' = [req EXCEPT ![r] = NoEvent]
      /\ \A q \in Requests : InTransaction(q)' => InTransaction(q) /\ req'[q] = req[q]
  BY <1>0, AnswerFacts DEF Commit, InTransaction
<1>2. CASE UNCHANGED receipts
  BY <1>1, <1>2, SameReceiptsKeepInv
<1>3. ASSUME NEW x \in Receipt, x.device = req[r].ev.device,
             receipts' = receipts \cup {x},
             \A y \in receipts : y.device = x.device => y.at <= x.at
      PROVE  ReceiptInv'
  <2>1. ASSUME NEW d \in Devices, AllReceipts(d)' # {}
        PROVE  Newest(d)' # {}
    <3>1. CASE d = x.device
      <4>1. x.at <= x.at
        BY DEF Receipt
      <4>2. x \in Newest(d)'
        BY <1>3, <3>1, <4>1 DEF Newest
      <4> QED BY <4>2
    <3>2. CASE d # x.device
      <4>1. AllReceipts(d) # {}
        BY <1>3, <2>1, <3>2 DEF AllReceipts
      <4>2. PICK n : n \in Newest(d)
        BY <4>1 DEF ReceiptInv, NewestExists
      <4>3. n \in Newest(d)'
        BY <1>3, <3>2, <4>2 DEF Newest
      <4> QED BY <4>3
    <3> QED BY <3>1, <3>2
  <2>2. ASSUME NEW q \in Requests, InTransaction(q)'
        PROVE  ~Duplicate(req[q].ev)'
    <3>1. InTransaction(q) /\ req'[q] = req[q] /\ ~Duplicate(req[q].ev)
      BY <1>1, <2>2 DEF ReceiptInv, FreshInTransaction
    <3>2. q # r
      BY <1>0, <1>1, <2>2 DEF InTransaction, TypeOK
    <3>3. req[q].ev.device # req[r].ev.device
      BY <1>0, <3>1, <3>2 DEF SnapshotStaysSound, SameUser
    <3> QED BY <1>3, <3>1, <3>3 DEF Duplicate
  <2> QED BY <2>1, <2>2 DEF ReceiptInv, NewestExists, FreshInTransaction
<1> QED BY <1>2, <1>3, CommitAddsNewest DEF AddsNewest

\* Compaction keeps the newest receipt of every device.
LEMMA CompactKeepsReceipts ==
  ASSUME ReceiptInv, SessionInv', NEW c \in Devices, CompactReceipts(c)
  PROVE  ReceiptInv'
<1>1. receipts' = receipts \ OldReceipts(c) /\ UNCHANGED req
  BY DEF CompactReceipts
<1>2. FreshInTransaction'
  BY <1>1 DEF ReceiptInv, FreshInTransaction, InTransaction, Duplicate
<1>3. ASSUME NEW d \in Devices, AllReceipts(d)' # {}
      PROVE  Newest(d)' # {}
  <2>1. PICK n : n \in Newest(d)
    BY <1>1, <1>3 DEF ReceiptInv, NewestExists, AllReceipts
  <2>2. n \notin OldReceipts(c)
    <3>1. ASSUME NEW y \in receipts, y.device = d PROVE ~(y.at > n.at)
      <4>1. y.at <= n.at /\ y.at \in Nat /\ n.at \in Nat
        BY <2>1, <3>1 DEF Newest, ReceiptInv, SessionInv, TypeOK, Receipt
      <4> QED BY <4>1
    <3> QED BY <2>1, <3>1 DEF Newest, OldReceipts
  <2>3. n \in Newest(d)'
    BY <1>1, <2>1, <2>2 DEF Newest
  <2> QED BY <2>3
<1> QED BY <1>2, <1>3 DEF ReceiptInv, NewestExists

\* The transaction opens behind the duplicate check.
LEMMA BeginKeepsReceipts ==
  ASSUME ReceiptInv, SessionInv', ConstantsAssumption, NEW r \in Requests,
         BeginTransaction(r)
  PROVE  ReceiptInv'
<1>1. NewestExists'
  BY DEF BeginTransaction, ReceiptInv, NewestExists, AllReceipts, Newest
<1>2. ASSUME NEW q \in Requests, InTransaction(q)'
      PROVE  ~Duplicate(req[q].ev)'
  <2>1. CASE q = r
    <3>1. req'[r].ev = req[r].ev
      BY DEF BeginTransaction, ReceiptInv, SessionInv, TypeOK, Request
    <3> QED BY <2>1, <3>1 DEF BeginTransaction, Duplicate
  <2>2. CASE q # r
    <3>1. req'[q] = req[q]
      BY <2>2 DEF BeginTransaction, ReceiptInv, SessionInv, TypeOK
    <3> QED BY <1>2, <3>1 DEF BeginTransaction, Duplicate, ReceiptInv,
                              FreshInTransaction, InTransaction
  <2> QED BY <2>1, <2>2
<1> QED BY <1>1, <1>2 DEF ReceiptInv, FreshInTransaction

\* Every other step begins no transaction: administrators, clients, and the
\* steps of a request before and beside the transaction.
QuietStep ==
  \/ Tick \/ Administer
  \/ \E d \in Devices : Journal(d) \/ JournalField(d)
  \/ \E r \in Requests :
       \/ \E d \in Devices : Heartbeat(r, d) \/ FieldTimer(r, d) \/ WebTimer(r, d)
       \/ Authorize(r) \/ Refuse(r) \/ EndEarly(r) \/ Rollback(r)

\* A step is quiet, opens a transaction or commits one.
LEMMA NextSteps ==
  Next => QuietStep \/ \E r \in Requests : BeginTransaction(r) \/ Commit(r)
  BY DEF Next, Serve, QuietStep

\* A step that an administrator closes work with, in one statement or in two.
CloseStep ==
  \/ \E chosen : /\ \A i \in chosen : i \in SessionIds /\ Exists(i)
                 /\ CloseUnended(chosen) \/ CloseOpen(chosen)
  \/ \E a \in Admins : \E op, of : BeginClosing(a, op, of)
  \/ \E a \in Admins : \E op : FinishClosing(a, op)

\* A quiet step begins no transaction, adds no receipt, and only closes work.
LEMMA QuietStepFacts ==
  ASSUME TypeOK, ConstantsAssumption, QuietStep
  PROVE  /\ \A q \in Requests : InTransaction(q)' => InTransaction(q) /\ req'[q] = req[q]
         /\ UNCHANGED receipts \/ \E d \in Devices : CompactReceipts(d)
         /\ UNCHANGED workVars \/ CloseStep
<1>. USE DEF adminUnchanged, clientVars, workVars, policyVars
<1> DEFINE Begun(q) == InTransaction(q)' => InTransaction(q) /\ req'[q] = req[q]
<1> DEFINE Facts == /\ \A q \in Requests : Begun(q)
                    /\ UNCHANGED receipts \/ \E d \in Devices : CompactReceipts(d)
                    /\ UNCHANGED workVars \/ CloseStep
<1>1. UNCHANGED req => \A q \in Requests : Begun(q)
  BY DEF InTransaction
<1>2. CASE Tick \/ \E d \in Devices : Journal(d) \/ JournalField(d)
  <2>1. UNCHANGED <<req, receipts, workVars>>
    BY <1>2 DEF Tick, Journal, JournalField
  <2> QED BY <1>1, <2>1
<1>3. CASE Administer
  <2>1. UNCHANGED req
    BY <1>3 DEF Administer, ArchiveTask, TaskArchived, ActivateTask, ArchiveProject,
       ProjectArchived, RestoreProject, RemoveMember, MemberRemoved, AddMember, DisableUser,
       UserDisabled, EnableUser, DisableDevice, EnableDevice, UpdateOrganizationPolicy,
       UpdateMemberPolicy, CompactReceipts, BeginClosing, FinishClosing
  <2>2. UNCHANGED receipts \/ \E d \in Devices : CompactReceipts(d)
    BY <1>3 DEF Administer, ArchiveTask, TaskArchived, ActivateTask, ArchiveProject,
       ProjectArchived, RestoreProject, RemoveMember, MemberRemoved, AddMember, DisableUser,
       UserDisabled, EnableUser, DisableDevice, EnableDevice, UpdateOrganizationPolicy,
       UpdateMemberPolicy, BeginClosing, FinishClosing
  <2>3. UNCHANGED workVars \/ CloseStep
    <3>1. ASSUME NEW a \in Admins, NEW op, NEW of, BeginClosing(a, op, of) PROVE CloseStep
      BY <3>1 DEF CloseStep
    <3>2. ASSUME NEW a \in Admins, NEW op, FinishClosing(a, op) PROVE CloseStep
      BY <3>2 DEF CloseStep
    <3>3. ASSUME NEW a \in Admins,
                 \/ (\E t \in Tasks : ArchiveTask(a, t)) \/ TaskArchived(a)
                 \/ (\E p \in Projects : ArchiveProject(a, p)) \/ ProjectArchived(a)
          PROVE  CloseStep
      BY <3>1, <3>2, <3>3 DEF ArchiveTask, TaskArchived, ArchiveProject, ProjectArchived
    <3>4. ASSUME NEW a \in Admins,
                 \/ (\E u \in Users, p \in Projects : RemoveMember(a, u, p))
                 \/ MemberRemoved(a)
                 \/ (\E u \in Users : DisableUser(a, u)) \/ UserDisabled(a)
          PROVE  CloseStep
      BY <3>1, <3>2, <3>4 DEF RemoveMember, MemberRemoved, DisableUser, UserDisabled
    <3>5. ASSUME NEW chosen, \A i \in chosen : i \in SessionIds /\ Exists(i),
                 CloseUnended(chosen) \/ CloseOpen(chosen)
          PROVE  CloseStep
      BY <3>5 DEF CloseStep
    <3>6. ASSUME NEW d \in Devices, DisableDevice(d) PROVE CloseStep
      BY <3>5, <3>6 DEF DisableDevice, Rows
    <3>7. ASSUME NEW value \in Policy, UpdateOrganizationPolicy(value) PROVE CloseStep
      BY <3>5, <3>7 DEF UpdateOrganizationPolicy, WebRowsUnder
    <3>8. ASSUME NEW u \in Users, NEW value \in Policy \cup {"inherit"},
                 UpdateMemberPolicy(u, value)
          PROVE  CloseStep
      BY <3>5, <3>8 DEF UpdateMemberPolicy, WebRowsUnder
    <3>9. ASSUME \/ \E t \in Tasks : ActivateTask(t)
                 \/ \E p \in Projects : RestoreProject(p)
                 \/ \E u \in Users, p \in Projects : AddMember(u, p)
                 \/ \E u \in Users : EnableUser(u)
                 \/ \E d \in Devices : EnableDevice(d) \/ CompactReceipts(d)
          PROVE  UNCHANGED workVars
      BY <3>9 DEF ActivateTask, RestoreProject, AddMember, EnableUser, EnableDevice,
         CompactReceipts
    <3> QED BY <1>3, <3>3, <3>4, <3>6, <3>7, <3>8, <3>9 DEF Administer
  <2> QED BY <1>1, <2>1, <2>2, <2>3
<1>4. ASSUME NEW r \in Requests,
             \/ \E d \in Devices : Heartbeat(r, d) \/ FieldTimer(r, d) \/ WebTimer(r, d)
             \/ Authorize(r) \/ Refuse(r) \/ EndEarly(r) \/ Rollback(r)
      PROVE  Facts
  <2>1. UNCHANGED <<receipts, workVars>>
    BY <1>4 DEF Heartbeat, FieldTimer, WebTimer, Authorize, Refuse, EndEarly, Rollback
  <2>2. ASSUME NEW q \in Requests, InTransaction(q)'
        PROVE  InTransaction(q) /\ req'[q] = req[q]
    <3>1. CASE q # r
      <4>1. ASSUME NEW d \in Devices, Heartbeat(r, d) \/ FieldTimer(r, d) \/ WebTimer(r, d)
            PROVE  \E e : req' = [req EXCEPT ![r] = e]
        BY <4>1 DEF Heartbeat, FieldTimer, WebTimer
      <4>2. ASSUME Authorize(r) \/ Refuse(r) \/ EndEarly(r) \/ Rollback(r)
            PROVE  \E e : req' = [req EXCEPT ![r] = e]
        BY <4>2 DEF Authorize, Refuse, EndEarly, Rollback, Answer
      <4>3. PICK e : req' = [req EXCEPT ![r] = e]
        BY <1>4, <4>1, <4>2
      <4>4. req'[q] = req[q]
        BY <3>1, <4>3 DEF TypeOK
      <4> QED BY <2>2, <4>4 DEF InTransaction
    <3>2. CASE q = r
      <4>1. req'[r] = NoEvent \/ req'[r].pc \in {"authorize", "begin"}
        BY <1>4 DEF TypeOK, Request, Heartbeat, FieldTimer, WebTimer,
           Authorize, Refuse, EndEarly, Rollback, Answer, Accepted
      <4> QED BY <2>2, <3>2, <4>1 DEF InTransaction
    <3> QED BY <3>1, <3>2
  <2> QED BY <2>1, <2>2
<1> HIDE DEF Facts
<1>5. Facts
  BY <1>2, <1>3, <1>4 DEF QuietStep, Facts
<1> QED BY <1>5 DEF Facts

\* The receipt invariant holds of every reachable state.
LEMMA ReceiptInvHolds == Spec => []ReceiptInv
<1>1. Init => ReceiptInv
  <2> SUFFICES ASSUME Init PROVE NewestExists /\ FreshInTransaction /\ SessionInv
    BY DEF ReceiptInv
  <2>1. SessionInv
    BY InitSessionInv
  <2> QED BY <2>1 DEF Init, NewestExists, FreshInTransaction, AllReceipts, InTransaction
<1>2. ASSUME ReceiptInv, SessionInv', [Next]_vars
      PROVE  ReceiptInv'
  <2>0. TypeOK
    BY <1>2 DEF ReceiptInv, SessionInv
  <2>1. CASE UNCHANGED vars
    BY <1>2, <2>1, SameReceiptsKeepInv DEF vars, InTransaction
  <2>2. CASE QuietStep
    BY <1>2, <2>0, <2>2, QuietStepFacts, ConstantsAssumption, SameReceiptsKeepInv,
       CompactKeepsReceipts
  <2>3. ASSUME NEW r \in Requests, BeginTransaction(r) \/ Commit(r)
        PROVE  ReceiptInv'
    BY <1>2, <2>3, BeginKeepsReceipts, CommitKeepsReceipts, ConstantsAssumption
  <2> QED BY <1>2, <2>1, <2>2, <2>3, NextSteps
<1> QED
  BY <1>1, <1>2, SessionInvHolds, PTL DEF Spec

AppliesForward == \A x \in receipts' \ receipts : \A y \in receipts :
                    y.device = x.device => y.id # x.id /\ y.at <= x.at

\* An event takes effect at most once and never before one that took effect
\* already: for any number of requests carrying it, clocks that step back, and
\* receipts compacted meanwhile.
THEOREM AppliedOnce == Spec => AppliedOnceForward
<1>1. ASSUME ReceiptInv, [Next]_vars
      PROVE  AppliesForward
  <2>0. TypeOK
    BY <1>1 DEF ReceiptInv, SessionInv
  <2>1. CASE receipts' \subseteq receipts
    BY <2>1 DEF AppliesForward
  <2>2. ASSUME NEW r \in Requests, Commit(r)
        PROVE  AppliesForward
    <3>1. ~Duplicate(req[r].ev)
      BY <1>1, <2>2 DEF ReceiptInv, FreshInTransaction, InTransaction, Commit
    <3>2. AddsNewest(r)
      BY <1>1, <2>2, CommitAddsNewest, ConstantsAssumption
    <3> QED BY <3>1, <3>2 DEF AddsNewest, Duplicate, AppliesForward
  <2>3. CASE QuietStep
    BY <2>0, <2>1, <2>3, QuietStepFacts, ConstantsAssumption DEF CompactReceipts
  <2>4. ASSUME NEW r \in Requests, BeginTransaction(r)
        PROVE  AppliesForward
    BY <2>1, <2>4 DEF BeginTransaction
  <2> QED BY <1>1, <2>1, <2>2, <2>3, <2>4, NextSteps DEF vars
<1> QED
  BY <1>1, ReceiptInvHolds, PTL DEF Spec, AppliedOnceForward, AppliesForward

-----------------------------------------------------------------------------
(***************************************************************************)
(* Segments follow the status of their session.                            *)
(***************************************************************************)

\* A segment's session is a row.
SegmentsHaveRows == \A g \in segments : g.session \in SessionIds /\ Exists(g.session)

\* ended_at is set whenever the status is stopped; the converse fails for a
\* session an administrator closed under a commit that set it active again.
StoppedIsEnded ==
  \A i \in SessionIds :
    Exists(i) /\ sessions[i].status = "stopped" => sessions[i].ended # Open

\* The status a transaction read is still the session's, unless it was stopped.
ReadStatusStands ==
  \A r \in Requests : InTransaction(r) /\ req[r].own # NoSession =>
    /\ req[r].was \in OpenStatus
    /\ sessions[req[r].own].status \in {req[r].was, "stopped"}

\* What the first statement of a close has seen is open, and of the work it closes,
\* until a commit ends it; and what a close overlooked is still a segment.
SeenStands ==
  /\ overlooked \subseteq segments
  /\ \A a \in Admins : admin[a] # NoClosing => \A g \in admin[a].seen :
       /\ g \in segments /\ OpenSegment(g)
       /\ Selected(admin[a].op, admin[a].of, g.session)

CountingInv == /\ CountsExactlyWhileActive /\ SegmentsHaveRows
               /\ StoppedIsEnded /\ ReadStatusStands /\ SeenStands
FullInv == SessionInv /\ CountingInv

\* A step that only closes work: a row it writes ends, an open segment that
\* stays is overlooked or of a row it did not write, and one it ends is of a row that
\* does.
ClosesWork ==
  /\ \A i \in SessionIds :
       \/ sessions'[i] = sessions[i]
       \/ Exists(i) /\ Exists(i)' /\ sessions'[i].status = "stopped"
                    /\ sessions'[i].ended # Open
  /\ \A h \in segments' : \E g \in segments : h.session = g.session
  /\ \A h \in segments' : OpenSegment(h) =>
       h \in segments /\ (h \in overlooked' \/ sessions'[h.session] = sessions[h.session])
  /\ \A h \in segments' : h \in overlooked => h \in overlooked'
  /\ \A g \in segments :
       OpenSegment(g) /\ g \notin segments' =>
         sessions'[g.session].status # "active" \/ sessions'[g.session].ended # Open

\* Rows keep their device and task.
RowsStay ==
  \A i \in SessionIds : Exists(i) =>
    /\ Exists(i)'
    /\ sessions'[i].device = sessions[i].device /\ sessions'[i].task = sessions[i].task

\* So what a close under way has seen stays of the work it closes.
LEMMA SettleKeepsSeen ==
  ASSUME SeenStands, SegmentsHaveRows, RowsStay, ClosingsSettle
  PROVE  SeenStands'
<1> SUFFICES ASSUME NEW a \in Admins, admin'[a] # NoClosing, NEW g \in admin'[a].seen
             PROVE  /\ g \in segments' /\ OpenSegment(g)
                    /\ Selected(admin[a].op, admin[a].of, g.session)'
  BY DEF SeenStands, ClosingsSettle, OpenSegment
<1>1. /\ admin[a] # NoClosing /\ g \in admin[a].seen /\ g \in segments'
      /\ admin'[a].op = admin[a].op /\ admin'[a].of = admin[a].of
  BY DEF ClosingsSettle
<1>2. /\ g \in segments /\ OpenSegment(g)
      /\ Selected(admin[a].op, admin[a].of, g.session)
  BY <1>1 DEF SeenStands
<1>3. /\ sessions'[g.session].device = sessions[g.session].device
      /\ sessions'[g.session].task = sessions[g.session].task
  BY <1>2 DEF SegmentsHaveRows, RowsStay
<1> QED BY <1>1, <1>2, <1>3 DEF Selected, UserOf

\* Closing by web device (_stop_web_timer_sessions) is a closing step.
LEMMA CloseUnendedCloses ==
  ASSUME TypeOK, ConstantsAssumption, SegmentsHaveRows, NEW chosen,
         \A i \in chosen : i \in SessionIds /\ Exists(i),
         CloseUnended(chosen)
  PROVE  ClosesWork
<1> DEFINE live == {i \in chosen : sessions[i].ended = Open}
<1>1. sessions' = [i \in SessionIds |->
         IF i \in live THEN [sessions[i] EXCEPT !.status = "stopped", !.ended = now]
         ELSE sessions[i]]
  BY DEF CloseUnended, StopRows
<1>2. segments' = {IF OpenSegment(g) /\ g.session \in live
                     THEN [g EXCEPT !.to = now] ELSE g : g \in segments}
  BY DEF CloseUnended, CloseSegments
<1>3. now \in Nat /\ now # Open
  BY DEF TypeOK, Open
<1>4. \A i \in live : /\ i \in SessionIds /\ Exists(i) /\ Exists(i)'
                      /\ sessions'[i].status = "stopped" /\ sessions'[i].ended # Open
  <2> TAKE i \in live
  <2>1. i \in SessionIds /\ Exists(i) /\ sessions[i] \in Session
    BY DEF TypeOK, Exists
  <2>2. sessions'[i] = [sessions[i] EXCEPT !.status = "stopped", !.ended = now]
    BY <1>1, <2>1
  <2> HIDE DEF live
  <2>3. sessions'[i] \in Session /\ sessions'[i].status = "stopped" /\ sessions'[i].ended = now
    BY <1>3, <2>1, <2>2 DEF Session, Status
  <2> QED BY <1>3, <2>1, <2>3 DEF Exists, ConstantsAssumption
<1>5. \A i \in SessionIds : i \notin live => sessions'[i] = sessions[i]
  BY <1>1
<1> HIDE DEF live
<1>6. ASSUME NEW g \in segments
      PROVE  /\ [g EXCEPT !.to = now].session = g.session
             /\ ~OpenSegment([g EXCEPT !.to = now])
  BY <1>3 DEF TypeOK, Segment, OpenSegment
<1>7. \A h \in segments' : \E g \in segments : h.session = g.session
  BY <1>2, <1>6
<1>8. \A h \in segments' : OpenSegment(h) => h \in segments /\ h.session \notin live
  BY <1>2, <1>6
<1>9. \A g \in segments : OpenSegment(g) /\ g \notin segments' => g.session \in live
  BY <1>2
<1>10. \A h \in segments' : h \in overlooked => h \in overlooked'
  BY DEF CloseUnended, Settle
<1> QED
  BY <1>4, <1>5, <1>7, <1>8, <1>9, <1>10 DEF ClosesWork, SegmentsHaveRows

\* So is closing a device's work.
LEMMA CloseOpenCloses ==
  ASSUME TypeOK, ConstantsAssumption, SegmentsHaveRows, NEW chosen,
         \A i \in chosen : i \in SessionIds /\ Exists(i),
         CloseOpen(chosen)
  PROVE  ClosesWork
<1> DEFINE live == {i \in chosen : IsOpen(i)}
<1>1. sessions' = [i \in SessionIds |->
         IF i \in live THEN [sessions[i] EXCEPT !.status = "stopped",
                                !.ended = Later(now, sessions[i].started)]
         ELSE sessions[i]]
  BY DEF CloseOpen, StopRows
<1>2. segments' = {IF OpenSegment(g) /\ g.session \in chosen
                     THEN [g EXCEPT !.to = Later(now, g.from)] ELSE g : g \in segments}
  BY DEF CloseOpen, CloseSegments
<1>3. now \in Nat
  BY DEF TypeOK
<1>4. \A i \in live : /\ i \in SessionIds /\ Exists(i) /\ Exists(i)'
                      /\ sessions'[i].status = "stopped" /\ sessions'[i].ended # Open
  <2> TAKE i \in live
  <2>1. i \in SessionIds /\ Exists(i) /\ sessions[i] \in Session
    BY DEF TypeOK, Exists
  <2>2. sessions'[i] = [sessions[i] EXCEPT !.status = "stopped",
                                    !.ended = Later(now, sessions[i].started)]
    BY <1>1, <2>1
  <2>3. Later(now, sessions[i].started) \in Nat
    <3>1. sessions[i].started \in Nat
      BY <2>1 DEF Session
    <3> QED BY <1>3, <3>1 DEF Later
  <2> HIDE DEF live
  <2>4. sessions'[i] \in Session /\ sessions'[i].status = "stopped"
        /\ sessions'[i].ended = Later(now, sessions[i].started)
    BY <2>1, <2>2, <2>3 DEF Session, Status
  <2> QED BY <2>1, <2>3, <2>4 DEF Exists, ConstantsAssumption, Open
<1>5. \A i \in SessionIds : i \notin live => sessions'[i] = sessions[i]
  BY <1>1
<1>6. ASSUME NEW g \in segments
      PROVE  /\ [g EXCEPT !.to = Later(now, g.from)].session = g.session
             /\ ~OpenSegment([g EXCEPT !.to = Later(now, g.from)])
  <2>1. g \in Segment /\ g.from \in Nat
    BY DEF TypeOK, Segment
  <2>2. Later(now, g.from) \in Nat
    BY <1>3, <2>1 DEF Later
  <2> QED BY <2>1, <2>2 DEF Segment, OpenSegment, Open
<1>7. \A h \in segments' : \E g \in segments : h.session = g.session
  BY <1>2, <1>6
<1>8. \A h \in segments' : OpenSegment(h) => h \in segments /\ h.session \notin live
  BY <1>2, <1>6
<1>9. \A g \in segments : OpenSegment(g) /\ g \notin segments' => g.session \in chosen
  BY <1>2
<1>10. \A i \in chosen : i \notin live => sessions[i].status # "active"
  BY DEF IsOpen, OpenStatus
<1>11. \A h \in segments' : h \in overlooked => h \in overlooked'
  BY DEF CloseOpen, Settle
<1> HIDE DEF live
<1> QED
  BY <1>4, <1>5, <1>7, <1>8, <1>9, <1>10, <1>11 DEF ClosesWork, SegmentsHaveRows

\* And so is the second statement of a close: what was committed after the first is
\* overlooked.
LEMMA FinishCloses ==
  ASSUME TypeOK, ConstantsAssumption, SegmentsHaveRows, SeenStands,
         NEW a \in Admins, NEW op, FinishClosing(a, op)
  PROVE  ClosesWork
<1> DEFINE c == admin[a]
<1> DEFINE rows == ClosedRows(c)
<1>1. \A i \in SessionIds :
        /\ i \notin rows => sessions'[i] = sessions[i]
        /\ i \in rows => /\ Exists(i) /\ Exists(i)' /\ sessions'[i].status = "stopped"
                         /\ sessions'[i].ended # Open
  BY FinishedRows DEF Exists, ConstantsAssumption
<1>2. /\ \A g \in segments \ c.seen : g \in segments'
      /\ \A h \in segments' :
           \/ h \in segments \ c.seen
           \/ ~OpenSegment(h) /\ \E g \in segments : h.session = g.session
  BY FinishedSegments
<1>3. overlooked' = (overlooked \cup LeftOpen(c)) \cap segments' /\ c # NoClosing
  BY DEF FinishClosing
<1>4. ASSUME NEW h \in segments', OpenSegment(h)
      PROVE  h \in segments /\ (h \in overlooked' \/ sessions'[h.session] = sessions[h.session])
  <2>1. h \in segments \ c.seen /\ h.session \in SessionIds
    BY <1>2, <1>4 DEF SegmentsHaveRows
  <2>2. CASE h.session \in rows
    BY <1>3, <1>4, <2>1, <2>2 DEF LeftOpen
  <2>3. CASE h.session \notin rows
    BY <1>1, <2>1, <2>3
  <2> QED BY <2>1, <2>2, <2>3
<1>5. ASSUME NEW g \in segments, OpenSegment(g), g \notin segments'
      PROVE  sessions'[g.session].status # "active" \/ sessions'[g.session].ended # Open
  <2>1. g \in c.seen /\ g.session \in SessionIds /\ Exists(g.session)
    BY <1>2, <1>5 DEF SegmentsHaveRows
  <2>2. Selected(c.op, c.of, g.session)
    BY <1>3, <2>1 DEF SeenStands
  <2>3. CASE g.session \in rows
    BY <1>1, <2>1, <2>3
  <2>4. CASE g.session \notin rows
    <3>1. sessions[g.session].ended # Open \/ ~IsOpen(g.session)
      BY <2>1, <2>2, <2>4 DEF ClosedRows
    <3>2. sessions[g.session].ended # Open \/ sessions[g.session].status # "active"
      BY <2>1, <3>1 DEF IsOpen, OpenStatus
    <3> QED BY <1>1, <2>1, <2>4, <3>2
  <2> QED BY <2>3, <2>4
<1>6. \A h \in segments' : h \in overlooked => h \in overlooked'
  BY <1>3
<1>7. \A h \in segments' : \E g \in segments : h.session = g.session
  BY <1>2
<1> HIDE DEF rows, c
<1> QED BY <1>1, <1>4, <1>5, <1>6, <1>7 DEF ClosesWork

\* Every step that an administrator closes work with only closes work, and leaves the
\* closes under way something to go by.
LEMMA CloseStepFacts ==
  ASSUME FullInv, ConstantsAssumption, CloseStep
  PROVE  ClosesWork /\ OnlyCloses /\ SeenStands'
<1>0. TypeOK /\ SegmentsHaveRows /\ SeenStands
  BY DEF FullInv, SessionInv, CountingInv
<1>1. OnlyCloses /\ ClosingsSettle => SeenStands'
  BY <1>0, SettleKeepsSeen DEF RowsStay, OnlyCloses
<1>2. ASSUME NEW chosen, \A i \in chosen : i \in SessionIds /\ Exists(i),
             CloseUnended(chosen)
      PROVE  ClosesWork /\ OnlyCloses /\ SeenStands'
  BY <1>0, <1>1, <1>2, CloseUnendedFacts, CloseUnendedCloses
<1>3. ASSUME NEW chosen, \A i \in chosen : i \in SessionIds /\ Exists(i),
             CloseOpen(chosen)
      PROVE  ClosesWork /\ OnlyCloses /\ SeenStands'
  BY <1>0, <1>1, <1>3, CloseOpenFacts, CloseOpenCloses
<1>4. ASSUME NEW a \in Admins, NEW op, FinishClosing(a, op)
      PROVE  ClosesWork /\ OnlyCloses /\ SeenStands'
  BY <1>0, <1>1, <1>4, FinishFacts, FinishCloses
<1>5. ASSUME NEW a \in Admins, NEW op, NEW of, BeginClosing(a, op, of)
      PROVE  ClosesWork /\ OnlyCloses /\ SeenStands'
  <2>1. UNCHANGED <<sessions, segments, overlooked>>
    BY <1>5 DEF BeginClosing
  <2>2. ClosesWork /\ OnlyCloses
    BY <2>1, UnchangedRowsOnlyClose DEF ClosesWork
  <2> DEFINE c == [op |-> op, of |-> of, at |-> now, seen |-> SeenNow(op, of)]
  <2>3. \A g \in c.seen : g \in segments /\ OpenSegment(g) /\ Selected(c.op, c.of, g.session)
    BY DEF SeenNow
  <2>4. admin' = [admin EXCEPT ![a] = c]
    BY <1>5 DEF BeginClosing
  <2> HIDE DEF c
  <2>5. \A b \in Admins : admin'[b] = IF b = a THEN c ELSE admin[b]
    BY <1>0, <2>4 DEF TypeOK
  <2>6. SeenStands'
    BY <1>0, <2>1, <2>3, <2>5 DEF SeenStands, Selected, UserOf, OpenSegment
  <2> QED BY <2>2, <2>6
<1> QED BY <1>2, <1>3, <1>4, <1>5 DEF CloseStep

\* A step that only closes work and begins no transaction.
LEMMA ClosingKeepsCounting ==
  ASSUME FullInv, SessionInv', ConstantsAssumption, ClosesWork, SeenStands',
         \A q \in Requests : InTransaction(q)' => InTransaction(q) /\ req'[q] = req[q]
  PROVE  FullInv'
<1>1. CountsExactlyWhileActive /\ SegmentsHaveRows /\ StoppedIsEnded /\ ReadStatusStands
  BY DEF FullInv, CountingInv
<1>2. \A i \in SessionIds : Exists(i)' <=> Exists(i)
  BY DEF ClosesWork, Exists
<1>3. SegmentsHaveRows'
  BY <1>1, <1>2 DEF ClosesWork, SegmentsHaveRows
<1>4. StoppedIsEnded'
  BY <1>1, <1>2 DEF ClosesWork, StoppedIsEnded
<1>5. ASSUME NEW q \in Requests, InTransaction(q)', req'[q].own # NoSession
      PROVE  /\ req'[q].was \in OpenStatus
             /\ sessions'[req'[q].own].status \in {req'[q].was, "stopped"}
  <2>1. InTransaction(q) /\ req'[q] = req[q] /\ req[q].own \in SessionIds
    BY <1>5 DEF FullInv, SessionInv, TypeOK, InTransaction, Request
  <2> QED BY <1>1, <1>5, <2>1 DEF ReadStatusStands, ClosesWork
<1>6. ASSUME NEW h \in segments', OpenSegment(h)
      PROVE  h \in overlooked' \/ sessions'[h.session].status = "active"
  BY <1>1, <1>6 DEF ClosesWork, CountsExactlyWhileActive
<1>7. ASSUME NEW i \in SessionIds, Exists(i)', sessions'[i].status = "active",
             sessions'[i].ended = Open
      PROVE  \E g \in segments' : OpenSegment(g) /\ g.session = i
  <2>1. sessions'[i] = sessions[i] /\ Exists(i)
    BY <1>2, <1>7 DEF ClosesWork
  <2>2. PICK g \in segments : OpenSegment(g) /\ g.session = i
    BY <1>1, <1>7, <2>1 DEF CountsExactlyWhileActive
  <2> QED BY <1>7, <2>2 DEF ClosesWork
<1> QED
  BY <1>3, <1>4, <1>5, <1>6, <1>7
     DEF FullInv, CountingInv, ReadStatusStands, CountsExactlyWhileActive


\* What _stop_session and _close_segment leave open.
LEMMA StoppingCloses ==
  ASSUME SessionInv, ConstantsAssumption, NEW r \in Requests, InTransaction(r),
         NEW previous \in Previous(req[r].ev)
  PROVE  /\ \A i \in Stopping(r, previous) :
              /\ i \in SessionIds /\ Exists(i)
              /\ StoppedRows(r, previous)[i] \in Session
              /\ StoppedRows(r, previous)[i].status = "stopped"
              /\ StoppedRows(r, previous)[i].ended # Open
         /\ \A h \in StoppedSegments(r, previous) :
              /\ \E g \in segments : h.session = g.session
              /\ OpenSegment(h) => h \in segments /\ h.session \notin Stopping(r, previous)
         /\ \A g \in segments : g \notin StoppedSegments(r, previous) =>
              g.session \in Stopping(r, previous)
<1>0. TypeOK /\ req[r].ev \in Event
  BY DEF SessionInv, TypeOK, InTransaction, Request
<1>1. /\ previous.at \in Nat /\ Observed(req[r].ev, previous) \in Nat
      /\ \A i \in Stopping(r, previous) :
           /\ i \in SessionIds /\ Exists(i)
           /\ StoppedRows(r, previous)[i] \in Session
           /\ StoppedRows(r, previous)[i].status = "stopped"
  BY StoppingFacts DEF Receipt
<1> DEFINE S == Stopping(r, previous)
<1> DEFINE T(i) == StopTime(r, previous, i)
<1> DEFINE G == StoppedSegments(r, previous)
<1>2. \A i : T(i) \in Nat
  BY <1>1 DEF StopTime, ConstantsAssumption
<1>3. \A i \in S : i \in SessionIds =>
        StoppedRows(r, previous)[i] = [sessions[i] EXCEPT !.status = "stopped", !.ended = T(i)]
  BY DEF StoppedRows, StopRows
<1>4. G = {IF OpenSegment(g) /\ g.session \in S
             THEN [g EXCEPT !.to = Later(g.from, T(g.session))] ELSE g : g \in segments}
  BY DEF StoppedSegments, CloseSegments
<1> HIDE DEF S, T, G
<1>5. ASSUME NEW i \in S
      PROVE  StoppedRows(r, previous)[i].ended # Open
  <2>1. i \in SessionIds /\ sessions[i] \in Session
    BY <1>0, <1>1 DEF S, Exists, TypeOK
  <2>2. T(i) \in Nat
    BY <1>2
  <2>3. StoppedRows(r, previous)[i] = [sessions[i] EXCEPT !.status = "stopped", !.ended = T(i)]
    BY <1>3, <2>1
  <2>4. StoppedRows(r, previous)[i].ended = T(i)
    BY <2>1, <2>3 DEF Session
  <2> QED BY <2>2, <2>4 DEF Open
<1>6. ASSUME NEW g \in segments
      PROVE  /\ [g EXCEPT !.to = Later(g.from, T(g.session))].session = g.session
             /\ ~OpenSegment([g EXCEPT !.to = Later(g.from, T(g.session))])
  <2>1. g \in Segment /\ g.from \in Nat
    BY <1>0 DEF TypeOK, Segment
  <2>2. Later(g.from, T(g.session)) \in Nat
    BY <1>2, <2>1 DEF Later
  <2> QED BY <2>1, <2>2 DEF Segment, OpenSegment, Open
<1>7. \A h \in G : /\ \E g \in segments : h.session = g.session
                   /\ OpenSegment(h) => h \in segments /\ h.session \notin S
  BY <1>4, <1>6
<1>8. \A g \in segments : g \notin G => g.session \in S
  BY <1>4
<1> QED BY <1>1, <1>5, <1>7, <1>8 DEF S, G

\* A commit keeps the device and the task of every row, and the end of those it does not stop.
LEMMA CommitRows ==
  ASSUME SessionInv, ConstantsAssumption, NEW r \in Requests, InTransaction(r),
         NEW previous \in Previous(req[r].ev),
         \/ CommitStop(r, previous)
         \/ CommitInsert(r, previous)
         \/ CommitUpdate(r, previous),
         NEW i \in SessionIds, Exists(i)
  PROVE  /\ Exists(i)' /\ sessions'[i].device = sessions[i].device
         /\ sessions'[i].task = sessions[i].task
         /\ i \notin Stopping(r, previous) => sessions'[i].ended = sessions[i].ended
<1> DEFINE e == req[r].ev
<1> DEFINE S == Stopping(r, previous)
<1> DEFINE R == StoppedRows(r, previous)
<1>1. /\ R \in [SessionIds -> Session \cup {NoSession}]
      /\ i \notin S => R[i] = sessions[i]
      /\ i \in S => R[i].device = sessions[i].device /\ R[i].task = sessions[i].task
      /\ sessions[i] \in Session /\ TypeOK
      /\ R[i] \in Session /\ R[i] # NoSession
  BY StoppingFacts DEF SessionInv, TypeOK, Exists, ConstantsAssumption
<1> HIDE DEF S, R
<1>2. CASE CommitStop(r, previous)
  BY <1>1, <1>2 DEF CommitStop, R, S, Exists
<1>3. CASE CommitInsert(r, previous)
  <2>1. PICK k \in SessionIds :
          /\ ~Exists(k)
          /\ sessions' = [R EXCEPT ![k] =
               [device |-> e.device, task |-> e.task, status |-> e.status,
                started |-> Observed(e, previous), ended |-> Open]]
    BY <1>3 DEF CommitInsert, R
  <2>2. sessions'[i] = R[i]
    BY <1>1, <2>1
  <2> QED BY <1>1, <2>2 DEF S, Exists
<1>4. CASE CommitUpdate(r, previous)
  <2>1. sessions' = [R EXCEPT ![req[r].own].status = e.status]
    BY <1>4 DEF CommitUpdate, R
  <2>2. CASE i # req[r].own
    <3>1. sessions'[i] = R[i]
      BY <1>1, <2>1, <2>2
    <3> QED BY <1>1, <3>1 DEF S, Exists
  <2>3. CASE i = req[r].own
    <3>1. sessions'[i] = [R[i] EXCEPT !.status = e.status]
      BY <1>1, <2>1, <2>3
    <3>2. /\ sessions'[i].device = R[i].device /\ sessions'[i].ended = R[i].ended
          /\ sessions'[i].task = R[i].task
      BY <1>1, <3>1 DEF Session
    <3>3. Exists(i)'
      <4>1. req[r].ev.status \in Status
        BY <1>1 DEF InTransaction, TypeOK, Request, Event
      <4>2. sessions'[i] \in Session
        BY <1>1, <3>1, <4>1 DEF Session
      <4> QED BY <4>2 DEF Exists, ConstantsAssumption
    <3> QED BY <1>1, <3>2, <3>3 DEF S
  <2> QED BY <2>2, <2>3
<1> QED BY <1>2, <1>3, <1>4

\* A commit that stops, inserts or updates keeps segments and rows together.
LEMMA CommitKeepsCounting ==
  ASSUME FullInv, SessionInv', ConstantsAssumption, NEW r \in Requests, Commit(r)
  PROVE  FullInv'
<1>0. /\ SessionInv /\ TypeOK /\ InTransaction(r) /\ ReadIsSound(r) /\ req[r] \in Request
      /\ req[r].ev \in Event
      /\ CountsExactlyWhileActive /\ SegmentsHaveRows /\ StoppedIsEnded /\ ReadStatusStands
      /\ overlooked' = overlooked \cap segments'
  BY DEF FullInv, CountingInv, SessionInv, SnapshotStaysSound, TypeOK, InTransaction,
     Request, Commit, Settle
<1>1. PICK previous \in Previous(req[r].ev) :
        \/ CommitStop(r, previous)
        \/ CommitInsert(r, previous)
        \/ CommitUpdate(r, previous)
  BY DEF Commit
<1> DEFINE e == req[r].ev
<1> DEFINE S == Stopping(r, previous)
<1> DEFINE R == StoppedRows(r, previous)
<1> DEFINE G == StoppedSegments(r, previous)
<1> DEFINE t == Observed(e, previous)
<1>2. t \in Nat /\ R \in [SessionIds -> Session \cup {NoSession}]
      /\ \A i \in SessionIds : i \notin S => R[i] = sessions[i]
  BY <1>0, StoppingFacts
<1>3. \A i \in S : /\ i \in SessionIds /\ Exists(i) /\ R[i] # NoSession
                   /\ R[i].status = "stopped" /\ R[i].ended # Open
  BY <1>0, StoppingCloses DEF ConstantsAssumption
<1>4. /\ \A h \in G : /\ \E g \in segments : h.session = g.session
                      /\ OpenSegment(h) => h \in segments /\ h.session \notin S
      /\ \A g \in segments : g \notin G => g.session \in S
  BY <1>0, StoppingCloses
<1>5. \A q \in Requests : InTransaction(q)' => InTransaction(q) /\ req'[q] = req[q]
  BY <1>0, AnswerFacts DEF Commit, InTransaction
<1>6. req' = [req EXCEPT ![r] = NoEvent]
  BY DEF Commit, Answer
<1>7. \A q \in Requests : InTransaction(q)' /\ req'[q].own # NoSession =>
        /\ InTransaction(q) /\ req'[q] = req[q] /\ req[q].own \in SessionIds
        /\ Exists(req[q].own) /\ req[q].own # req[r].own
        /\ req[q].was \in OpenStatus
        /\ sessions[req[q].own].status \in {req[q].was, "stopped"}
  <2> TAKE q \in Requests
  <2> HAVE InTransaction(q)' /\ req'[q].own # NoSession
  <2>1. InTransaction(q) /\ req'[q] = req[q] /\ q # r
    BY <1>0, <1>5, <1>6 DEF InTransaction, TypeOK
  <2>2. ReadIsSound(q) /\ req[q].own \in SessionIds
    BY <1>0, <2>1 DEF SessionInv, SnapshotStaysSound, InTransaction, TypeOK, Request
  <2>3. req[q].ev.device # req[r].ev.device
    BY <1>0, <2>1 DEF SessionInv, SnapshotStaysSound, SameUser
  <2>4. Exists(req[q].own) /\ req[q].own # req[r].own
    BY <1>0, <2>1, <2>2, <2>3 DEF ReadIsSound
  <2> QED BY <1>0, <2>1, <2>2, <2>4 DEF ReadStatusStands
<1> HIDE DEF S, R, G, t
<1>11. SeenStands'
  <2>1. ClosingsSettle
    BY <1>0, SettleFacts DEF Commit, SessionInv, TypeOK
  <2>2. RowsStay
    BY <1>0, <1>1, CommitRows DEF RowsStay
  <2> QED BY <1>0, <2>1, <2>2, SettleKeepsSeen DEF FullInv, CountingInv
<1>8. CASE CommitStop(r, previous)
  <2>1. sessions' = R /\ segments' = G
    BY <1>8 DEF CommitStop, R, G
  <2>2. ClosesWork
    <3>1. \A i \in SessionIds : i \notin S => sessions'[i] = sessions[i]
      BY <1>2, <2>1
    <3>2. \A i \in S : /\ i \in SessionIds /\ Exists(i) /\ Exists(i)'
                       /\ sessions'[i].status = "stopped" /\ sessions'[i].ended # Open
      BY <1>3, <2>1 DEF Exists
    <3> QED BY <1>0, <1>4, <2>1, <3>1, <3>2 DEF ClosesWork, SegmentsHaveRows
  <2> QED BY <1>5, <1>11, <2>2, ClosingKeepsCounting
<1>9. CASE CommitInsert(r, previous)
  <2>1. PICK k \in SessionIds :
          /\ ~Exists(k)
          /\ sessions' = [R EXCEPT ![k] =
               [device |-> e.device, task |-> e.task, status |-> e.status,
                started |-> t, ended |-> Open]]
          /\ segments' = G \cup
               (IF e.status = "active"
                THEN {[session |-> k, from |-> t, to |-> Open]} ELSE {})
    BY <1>9 DEF CommitInsert, R, G, t
  <2> DEFINE row == [device |-> e.device, task |-> e.task, status |-> e.status,
                     started |-> t, ended |-> Open]
  <2> DEFINE new == [session |-> k, from |-> t, to |-> Open]
  <2>2. row \in Session /\ row.status = e.status /\ row # NoSession
    BY <1>0, <1>2 DEF Session, Event, ConstantsAssumption
  <2>3. OpenSegment(new) /\ new.session = k
    BY DEF OpenSegment
  <2>4. sessions' = [R EXCEPT ![k] = row]
        /\ segments' = G \cup (IF e.status = "active" THEN {new} ELSE {})
    BY <2>1
  <2>5. e.status # "stopped"
    BY <1>9 DEF CommitInsert
  <2> HIDE DEF row, new
  <2>6. sessions'[k] = row /\ \A j \in SessionIds : j # k => sessions'[j] = R[j]
    BY <1>2, <2>2, <2>4
  <2>7. k \notin S
    BY <1>3, <2>1
  <2>8. \A j \in SessionIds : Exists(j) => j # k /\ Exists(j)'
    BY <1>2, <1>3, <2>1, <2>6 DEF Exists
  <2>9. SegmentsHaveRows'
    <3>1. Exists(k)'
      BY <2>2, <2>6 DEF Exists
    <3> QED BY <1>0, <1>4, <2>3, <2>4, <2>8, <3>1 DEF SegmentsHaveRows
  <2>10. StoppedIsEnded'
    <3>1. ASSUME NEW j \in SessionIds, Exists(j)', sessions'[j].status = "stopped"
          PROVE  sessions'[j].ended # Open
      <4>1. j # k /\ sessions'[j] = R[j]
        BY <2>2, <2>5, <2>6, <3>1
      <4> QED BY <1>0, <1>2, <1>3, <3>1, <4>1 DEF StoppedIsEnded, Exists
    <3> QED BY <3>1 DEF StoppedIsEnded
  <2>11. ReadStatusStands'
    <3>1. ASSUME NEW q \in Requests, InTransaction(q)', req'[q].own # NoSession
          PROVE  /\ req'[q].was \in OpenStatus
                 /\ sessions'[req'[q].own].status \in {req'[q].was, "stopped"}
      BY <1>2, <1>3, <1>7, <2>6, <2>8, <3>1
    <3> QED BY <3>1 DEF ReadStatusStands
  <2>12. ASSUME NEW h \in segments', OpenSegment(h)
         PROVE  h \in overlooked' \/ sessions'[h.session].status = "active"
    <3>1. CASE h \in G
      <4>1. h \in segments /\ h.session \notin S /\ h.session \in SessionIds
            /\ Exists(h.session)
        BY <1>0, <1>4, <2>12, <3>1 DEF SegmentsHaveRows
      <4>2. sessions'[h.session] = sessions[h.session]
        BY <1>2, <2>6, <2>8, <4>1
      <4> QED BY <1>0, <2>12, <4>1, <4>2 DEF CountsExactlyWhileActive
    <3>2. CASE h \notin G
      BY <2>2, <2>3, <2>4, <2>6, <2>12, <3>2
    <3> QED BY <3>1, <3>2
  <2>13. ASSUME NEW i \in SessionIds, Exists(i)', sessions'[i].status = "active",
                sessions'[i].ended = Open
         PROVE  \E g \in segments' : OpenSegment(g) /\ g.session = i
    <3>1. CASE i = k
      BY <2>2, <2>3, <2>4, <2>6, <2>13, <3>1
    <3>2. CASE i # k
      <4>1. i \notin S /\ sessions'[i] = sessions[i]
        BY <1>2, <1>3, <2>6, <2>13, <3>2
      <4>2. PICK g \in segments : OpenSegment(g) /\ g.session = i
        BY <1>0, <2>13, <4>1 DEF CountsExactlyWhileActive, Exists
      <4> QED BY <1>4, <2>4, <4>1, <4>2
    <3> QED BY <3>1, <3>2
  <2> QED BY <1>11, <2>9, <2>10, <2>11, <2>12, <2>13
             DEF FullInv, CountingInv, CountsExactlyWhileActive
<1>10. CASE CommitUpdate(r, previous)
  <2>0. PICK own \in SessionIds : own = req[r].own
    BY <1>0, <1>10 DEF CommitUpdate, Continues, Request
  <2>1. Exists(own) /\ e.status \in OpenStatus /\ own \notin S
    BY <1>0, <1>10, <2>0 DEF CommitUpdate, Continues, ReadIsSound, S, Stopping, Others,
       Event, Status, OpenStatus, ConstantsAssumption
  <2>2. req[r].was \in OpenStatus /\ sessions[own].status \in {req[r].was, "stopped"}
    BY <1>0, <1>10, <2>0 DEF ReadStatusStands, CommitUpdate, Continues
  <2> DEFINE new == [session |-> own, from |-> t, to |-> Open]
  <2> DEFINE Paused(g) == [g EXCEPT !.to = PauseTime(g, r, t)]
  <2>3. /\ sessions' = [R EXCEPT ![own].status = e.status]
        /\ segments' = {IF Pauses(r) /\ OpenSegment(g) /\ g.session = own
                          THEN Paused(g) ELSE g : g \in G}
                       \cup (IF Resumes(r) THEN {new} ELSE {})
    BY <1>10, <2>0 DEF CommitUpdate, R, G, t
  <2>4. R[own] = sessions[own] /\ sessions[own] \in Session
    BY <1>0, <1>2, <2>1 DEF TypeOK, Exists
  <2>5. /\ sessions'[own] # NoSession /\ sessions'[own].status = e.status
        /\ sessions'[own].ended = sessions[own].ended
        /\ \A j \in SessionIds : j # own => sessions'[j] = R[j]
    <3>1. sessions'[own] = [sessions[own] EXCEPT !.status = e.status]
          /\ \A j \in SessionIds : j # own => sessions'[j] = R[j]
      BY <1>2, <2>3, <2>4
    <3>2. e.status \in Status
      BY <2>1 DEF Status
    <3>3. sessions'[own] \in Session
      BY <2>4, <3>1, <3>2 DEF Session
    <3> QED BY <2>4, <3>1, <3>3 DEF Session, ConstantsAssumption
  <2>6. OpenSegment(new) /\ new.session = own
    BY DEF OpenSegment
  <2>7. ASSUME NEW g \in G, OpenSegment(g)
        PROVE  Paused(g).session = g.session /\ ~OpenSegment(Paused(g))
    <3>1. g \in Segment /\ g.from \in Nat /\ t - e.idle \in Int
      BY <1>0, <1>2, <1>4, <2>7 DEF TypeOK, Segment, Event
    <3>2. PauseTime(g, r, t) \in Nat
      BY <3>1 DEF PauseTime, Later
    <3> QED BY <3>1, <3>2 DEF Segment, OpenSegment, Open
  <2> HIDE DEF new, Paused
  <2>8. \A h \in segments' :
          \/ h \in G /\ ~(Pauses(r) /\ OpenSegment(h) /\ h.session = own)
          \/ h = new /\ Resumes(r)
          \/ ~OpenSegment(h) /\ \E g \in G : h.session = g.session
    BY <2>3, <2>7
  <2>9. \A g \in G : g.session # own \/ ~Pauses(r) => g \in segments'
    BY <2>3
  <2>10. \A j \in SessionIds : Exists(j) => Exists(j)'
    BY <1>2, <1>3, <2>5 DEF Exists
  <2>11. SegmentsHaveRows'
    BY <1>0, <1>4, <2>1, <2>6, <2>8, <2>10 DEF SegmentsHaveRows
  <2>12. StoppedIsEnded'
    <3>1. ASSUME NEW j \in SessionIds, Exists(j)', sessions'[j].status = "stopped"
          PROVE  sessions'[j].ended # Open
      <4>1. j # own /\ sessions'[j] = R[j]
        BY <2>1, <2>5, <3>1 DEF OpenStatus
      <4> QED BY <1>0, <1>2, <1>3, <3>1, <4>1 DEF StoppedIsEnded, Exists
    <3> QED BY <3>1 DEF StoppedIsEnded
  <2>13. ReadStatusStands'
    <3>1. ASSUME NEW q \in Requests, InTransaction(q)', req'[q].own # NoSession
          PROVE  /\ req'[q].was \in OpenStatus
                 /\ sessions'[req'[q].own].status \in {req'[q].was, "stopped"}
      BY <1>2, <1>3, <1>7, <2>0, <2>5, <3>1
    <3> QED BY <3>1 DEF ReadStatusStands
  <2>14. ASSUME NEW h \in segments', OpenSegment(h), h \notin overlooked'
         PROVE  sessions'[h.session].status = "active"
    <3>1. CASE h = new /\ Resumes(r)
      BY <2>5, <2>6, <3>1 DEF Resumes
    <3>2. CASE h \in G /\ ~(Pauses(r) /\ OpenSegment(h) /\ h.session = own)
      <4>1. h \in segments /\ h.session \notin S /\ h.session \in SessionIds
            /\ sessions[h.session].status = "active"
        BY <1>0, <1>4, <2>14, <3>2 DEF SegmentsHaveRows, CountsExactlyWhileActive
      <4>2. CASE h.session # own
        BY <1>2, <2>5, <4>1, <4>2
      <4>3. CASE h.session = own
        <5>1. req[r].was = "active" /\ ~Pauses(r)
          BY <2>2, <2>14, <3>2, <4>1, <4>3
        <5>2. e.status = "active"
          BY <2>1, <5>1 DEF Pauses, OpenStatus
        <5> QED BY <2>5, <4>3, <5>2
      <4> QED BY <4>2, <4>3
    <3> QED BY <2>8, <2>14, <3>1, <3>2
  <2>15. ASSUME NEW i \in SessionIds, Exists(i)', sessions'[i].status = "active",
                sessions'[i].ended = Open
         PROVE  \E g \in segments' : OpenSegment(g) /\ g.session = i
    <3>1. CASE i # own
      <4>1. i \notin S /\ sessions'[i] = sessions[i]
        BY <1>2, <1>3, <2>5, <2>15, <3>1
      <4>2. PICK g \in segments : OpenSegment(g) /\ g.session = i
        BY <1>0, <2>15, <4>1 DEF CountsExactlyWhileActive, Exists
      <4> QED BY <1>4, <2>9, <3>1, <4>1, <4>2
    <3>2. CASE i = own /\ req[r].was = "paused"
      <4>1. Resumes(r)
        BY <2>5, <2>15, <3>2 DEF Resumes
      <4> QED BY <2>3, <2>6, <3>2, <4>1
    <3>3. CASE i = own /\ req[r].was = "active"
      <4>1. e.status = "active" /\ ~Pauses(r)
        BY <2>5, <2>15, <3>3 DEF Pauses
      <4>2. sessions[own].status = "active"
        BY <1>0, <2>1, <2>2, <2>5, <2>15, <3>3 DEF StoppedIsEnded
      <4>3. PICK g \in segments : OpenSegment(g) /\ g.session = own
        BY <1>0, <2>1, <2>5, <2>15, <3>3, <4>2 DEF CountsExactlyWhileActive
      <4> QED BY <1>4, <2>1, <2>9, <3>3, <4>1, <4>3
    <3> QED BY <2>2, <3>1, <3>2, <3>3 DEF OpenStatus
  <2> QED BY <1>11, <2>11, <2>12, <2>13, <2>14, <2>15
             DEF FullInv, CountingInv, CountsExactlyWhileActive
<1> QED BY <1>1, <1>8, <1>9, <1>10

\* A transaction begins with a status it has just read.
LEMMA BeginKeepsCounting ==
  ASSUME FullInv, SessionInv', ConstantsAssumption, NEW r \in Requests, BeginTransaction(r)
  PROVE  FullInv'
<1>0. TypeOK /\ CountsExactlyWhileActive /\ SegmentsHaveRows /\ StoppedIsEnded
      /\ ReadStatusStands /\ SeenStands /\ UNCHANGED <<sessions, segments, admin, overlooked>>
  BY DEF FullInv, CountingInv, SessionInv, BeginTransaction, workVars
<1>1. CountsExactlyWhileActive' /\ SegmentsHaveRows' /\ StoppedIsEnded' /\ SeenStands'
  BY <1>0 DEF CountsExactlyWhileActive, SegmentsHaveRows, StoppedIsEnded, Exists, SeenStands,
     Selected, UserOf, OpenSegment
<1>2. PICK i \in IF OpenOf(req[r].ev.device) = {} THEN {NoSession}
                 ELSE OpenOf(req[r].ev.device) :
        req' = [req EXCEPT ![r] =
          [req[r] EXCEPT !.pc = "commit", !.own = i,
                         !.was = IF i = NoSession THEN "stopped" ELSE sessions[i].status]]
  BY DEF BeginTransaction
<1>3. i # NoSession => i \in SessionIds /\ sessions[i].status \in OpenStatus
  BY DEF OpenOf, IsOpen
<1>4. ASSUME NEW q \in Requests, InTransaction(q)', req'[q].own # NoSession
      PROVE  /\ req'[q].was \in OpenStatus
             /\ sessions'[req'[q].own].status \in {req'[q].was, "stopped"}
  <2>1. CASE q # r
    <3>1. req'[q] = req[q]
      BY <1>0, <1>2, <2>1 DEF TypeOK
    <3> QED BY <1>0, <1>4, <3>1 DEF ReadStatusStands, InTransaction
  <2>2. CASE q = r
    <3>1. req[r] \in Request
      BY <1>0 DEF BeginTransaction, TypeOK
    <3>2. req'[r].own = i
          /\ req'[r].was = (IF i = NoSession THEN "stopped" ELSE sessions[i].status)
      BY <1>0, <1>2, <3>1 DEF TypeOK, Request
    <3> QED BY <1>0, <1>3, <1>4, <2>2, <3>2
  <2> QED BY <2>1, <2>2
<1> QED BY <1>1, <1>4 DEF FullInv, CountingInv, ReadStatusStands

\* The counting invariant holds of every reachable state.
LEMMA FullInvHolds == Spec => []FullInv
<1>1. Init => FullInv
  <2> SUFFICES ASSUME Init PROVE SessionInv /\ CountingInv
    BY DEF FullInv
  <2>1. SessionInv
    BY InitSessionInv
  <2> QED BY <2>1 DEF Init, CountingInv, CountsExactlyWhileActive, SegmentsHaveRows,
                      StoppedIsEnded, ReadStatusStands, SeenStands, InTransaction, Exists
<1>2. ASSUME FullInv, SessionInv', [Next]_vars
      PROVE  FullInv'
  <2>0. TypeOK /\ SegmentsHaveRows
    BY <1>2 DEF FullInv, CountingInv, SessionInv
  <2>1. ASSUME UNCHANGED workVars,
               \A q \in Requests : InTransaction(q)' => InTransaction(q) /\ req'[q] = req[q]
        PROVE  FullInv'
    <3>1. ClosesWork
      BY <2>1 DEF workVars, ClosesWork
    <3>2. SeenStands'
      BY <1>2, <2>1 DEF workVars, FullInv, CountingInv, SeenStands, Selected, UserOf, OpenSegment
    <3> QED BY <1>2, <2>1, <3>1, <3>2, ClosingKeepsCounting, ConstantsAssumption
  <2>2. CASE UNCHANGED vars
    BY <2>1, <2>2 DEF vars, InTransaction
  <2>3. CASE QuietStep
    BY <1>2, <2>0, <2>1, <2>3, QuietStepFacts, CloseStepFacts, ClosingKeepsCounting,
       ConstantsAssumption
  <2>4. ASSUME NEW r \in Requests, BeginTransaction(r) \/ Commit(r)
        PROVE  FullInv'
    BY <1>2, <2>4, BeginKeepsCounting, CommitKeepsCounting, ConstantsAssumption
  <2> QED BY <1>2, <2>2, <2>3, <2>4, NextSteps
<1> QED
  BY <1>1, <1>2, SessionInvHolds, PTL DEF Spec

\* Time is counted exactly while a session is active, through commits of stale
\* reads, administrators that close the row in between, and closes of two statements:
\* only a segment committed between the two is left open on a stopped session.
THEOREM CountsWhileActive == Spec => []CountsExactlyWhileActive
<1>1. FullInv => CountsExactlyWhileActive
  BY DEF FullInv, CountingInv
<1> QED BY <1>1, FullInvHolds, PTL

KeepsClosed == \A g \in segments : ~OpenSegment(g) => g \in segments'

\* A segment that has ended is never rewritten, by a device's request or by an
\* administrator's closing, at once or in two statements: what was reported, approved
\* or paid stays.
THEOREM ClosedTime == Spec => ClosedTimeIsFinal
<1>1. ASSUME FullInv, [Next]_vars
      PROVE  KeepsClosed
  <2>. USE DEF KeepsClosed
  <2>0. TypeOK /\ SeenStands
    BY <1>1 DEF FullInv, SessionInv, CountingInv
  <2>1. CASE UNCHANGED segments
    BY <2>1
  <2>2. ASSUME NEW chosen, CloseUnended(chosen) \/ CloseOpen(chosen)
        PROVE  KeepsClosed
    BY <2>2 DEF CloseUnended, CloseOpen, CloseSegments
  <2>3. ASSUME NEW a \in Admins, NEW op, FinishClosing(a, op)
        PROVE  KeepsClosed
    BY <2>0, <2>3, FinishedSegments, ConstantsAssumption DEF FinishClosing, SeenStands
  <2>4. CASE QuietStep
    BY <2>0, <2>1, <2>2, <2>3, <2>4, QuietStepFacts, ConstantsAssumption
       DEF CloseStep, BeginClosing, workVars
  <2>5. ASSUME NEW r \in Requests, BeginTransaction(r)
        PROVE  KeepsClosed
    BY <2>1, <2>5 DEF BeginTransaction, workVars
  <2>6. ASSUME NEW r \in Requests, Commit(r)
        PROVE  KeepsClosed
    <3>1. PICK previous :
            \/ CommitStop(r, previous)
            \/ CommitInsert(r, previous)
            \/ CommitUpdate(r, previous)
      BY <2>6 DEF Commit
    <3>2. \A g \in segments : ~OpenSegment(g) => g \in StoppedSegments(r, previous)
      BY DEF StoppedSegments, CloseSegments
    <3> QED BY <3>1, <3>2 DEF CommitStop, CommitInsert, CommitUpdate
  <2> QED BY <1>1, <2>1, <2>4, <2>5, <2>6, NextSteps DEF vars, workVars
<1> QED
  BY <1>1, FullInvHolds, PTL DEF Spec, ClosedTimeIsFinal, KeepsClosed

-----------------------------------------------------------------------------
(***************************************************************************)
(* Events sent again after their receipt may have been compacted.          *)
(***************************************************************************)

\* The step hands an event to a request: the journal's head, or none at all.
Arrives(r, e) ==
  /\ req[r] = NoEvent /\ req' = [req EXCEPT ![r] = Accepted(e)]
  /\ e.id # 0 => /\ pending[e.device] # NoEvent
                 /\ e.id = pending[e.device].id /\ e.at = pending[e.device].at

SameEvents ==
  \A d \in Devices, r \in Requests :
    HandlesEventOf(r, d)' => HandlesEventOf(r, d) /\ req'[r].ev = req[r].ev

\* The device of a journalled event is the one whose journal it is in, numbers
\* only grow, and what the server holds was journalled.
EventsNumbered ==
  \A d \in Devices :
    /\ pending[d] # NoEvent => /\ pending[d].device = d /\ pending[d].id = journalled[d]
                               /\ journalled[d] # 0
    /\ \A r \in Requests : HandlesEventOf(r, d) => req[r].ev.id <= journalled[d]
    /\ \A x \in receipts : x.device = d => x.id <= journalled[d]

\* How a step may change journals, requests and receipts.
EventStep ==
  \/ \E d \in Devices, e \in Event :
       /\ pending[d] = NoEvent /\ e.id = journalled[d] + 1 /\ e.device = d
       /\ ReadsClock(d, e.at)
       /\ pending' = [pending EXCEPT ![d] = e]
       /\ journalled' = [journalled EXCEPT ![d] = @ + 1]
       /\ UNCHANGED <<receipts, req>>
  \/ \E r \in Requests, e \in Event :
       Arrives(r, e) /\ UNCHANGED <<pending, journalled, receipts>>
  \/ SameEvents /\ UNCHANGED <<pending, journalled>> /\ receipts' \subseteq receipts
  \/ \E r \in Requests :
       /\ req[r] # NoEvent /\ Answer(r)
       /\ \/ UNCHANGED receipts
          \/ AddsNewest(r) /\ ~Duplicate(req[r].ev)

\* A request keeps its event until it is answered.
LEMMA EventStays ==
  ASSUME TypeOK, NEW r \in Requests, Authorize(r) \/ BeginTransaction(r)
  PROVE  /\ req[r] # NoEvent /\ req'[r].ev = req[r].ev
         /\ \A q \in Requests : q # r => req'[q] = req[q]
<1>1. req[r] # NoEvent
  BY Zenon DEF Authorize, BeginTransaction
<1>2. req[r] \in Request
  BY <1>1 DEF TypeOK
<1>3. CASE Authorize(r)
  BY <1>2, <1>3 DEF Authorize, TypeOK, Request
<1>4. CASE BeginTransaction(r)
  <2>1. PICK i : req' = [req EXCEPT ![r] =
                   [req[r] EXCEPT !.pc = "commit", !.own = i,
                                  !.was = IF i = NoSession THEN "stopped"
                                          ELSE sessions[i].status]]
    BY <1>4, Zenon DEF BeginTransaction
  <2> DEFINE new == [req[r] EXCEPT !.pc = "commit", !.own = i,
                        !.was = IF i = NoSession THEN "stopped" ELSE sessions[i].status]
  <2>2. new.ev = req[r].ev /\ req' = [req EXCEPT ![r] = new]
    BY <1>2, <2>1 DEF Request
  <2>3. new \in Request \cup {new}
    OBVIOUS
  <2> HIDE DEF new
  <2>4. req'[r] = new /\ \A q \in Requests : q # r => req'[q] = req[q]
    BY <2>2, <2>3 DEF TypeOK
  <2> QED BY <1>1, <2>2, <2>4
<1> QED BY <1>1, <1>3, <1>4

\* Every step of the specification changes journals, requests and receipts so.
LEMMA EventSteps ==
  ASSUME ReceiptInv, EventsNumbered, ConstantsAssumption, [Next]_vars
  PROVE  EventStep
<1>. USE DEF adminUnchanged, clientVars, workVars, policyVars
<1>0. TypeOK
  BY DEF ReceiptInv, SessionInv
<1>1. ASSUME UNCHANGED <<req, pending, journalled>>, receipts' \subseteq receipts
      PROVE  EventStep
  BY <1>1 DEF EventStep, SameEvents, HandlesEventOf
<1>2. CASE UNCHANGED vars
  BY <1>1, <1>2 DEF vars
<1>3. CASE Tick \/ Administer
  <2>1. UNCHANGED <<req, pending, journalled>> /\ receipts' \subseteq receipts
    BY <1>3 DEF Tick, Administer, ArchiveTask, TaskArchived, ActivateTask, ArchiveProject,
       ProjectArchived, RestoreProject, RemoveMember, MemberRemoved, AddMember, DisableUser,
       UserDisabled, EnableUser, DisableDevice, EnableDevice, UpdateOrganizationPolicy,
       UpdateMemberPolicy, CompactReceipts, BeginClosing, FinishClosing
  <2> QED BY <1>1, <2>1
<1>4. ASSUME NEW d \in Devices, Journal(d)
      PROVE  EventStep
  <2>1. PICK s \in Reported, t \in Tasks, at \in 0 .. (now + Skew), x \in BOOLEAN :
          \E idle \in (IF s = "paused" THEN Idles ELSE {0}) :
            /\ ReadsClock(d, at)
            /\ pending' = [pending EXCEPT ![d] =
                 [id |-> journalled[d] + 1, device |-> d, status |-> s, task |-> t,
                  at |-> at, idle |-> idle, transition |-> x]]
    BY <1>4 DEF Journal
  <2>2. PICK idle \in (IF s = "paused" THEN Idles ELSE {0}) :
            /\ ReadsClock(d, at)
            /\ pending' = [pending EXCEPT ![d] =
                 [id |-> journalled[d] + 1, device |-> d, status |-> s, task |-> t,
                  at |-> at, idle |-> idle, transition |-> x]]
    BY <2>1
  <2>3. idle \in Nat /\ at \in Nat /\ s \in Status /\ journalled[d] + 1 \in Nat
    BY <1>0 DEF ConstantsAssumption, TypeOK
  <2> DEFINE e == [id |-> journalled[d] + 1, device |-> d, status |-> s, task |-> t,
                   at |-> at, idle |-> idle, transition |-> x]
  <2>4. e \in Event /\ e.id = journalled[d] + 1 /\ e.device = d /\ e.at = at
    BY <2>3 DEF Event
  <2>5. pending' = [pending EXCEPT ![d] = e]
    BY <2>2
  <2> HIDE DEF e
  <2> QED BY <1>4, <2>2, <2>4, <2>5 DEF Journal, EventStep
<1>5. ASSUME NEW d \in Devices, JournalField(d)
      PROVE  EventStep
  <2>1. PICK s \in Reported, t \in Tasks, at \in 0 .. (now + Skew) :
          /\ ReadsClock(d, at)
          /\ pending' = [pending EXCEPT ![d] =
               [id |-> journalled[d] + 1, device |-> d, status |-> s, task |-> t,
                at |-> at, idle |-> 0, transition |-> TRUE]]
    BY <1>5 DEF JournalField
  <2>3. at \in Nat /\ s \in Status /\ journalled[d] + 1 \in Nat
    BY <1>0 DEF ConstantsAssumption, TypeOK
  <2> DEFINE e == [id |-> journalled[d] + 1, device |-> d, status |-> s, task |-> t,
                   at |-> at, idle |-> 0, transition |-> TRUE]
  <2>4. e \in Event /\ e.id = journalled[d] + 1 /\ e.device = d /\ e.at = at
    BY <2>3 DEF Event
  <2>5. pending' = [pending EXCEPT ![d] = e]
    BY <2>1
  <2> HIDE DEF e
  <2> QED BY <1>5, <2>1, <2>4, <2>5 DEF JournalField, EventStep
<1>6. ASSUME NEW r \in Requests, NEW d \in Devices,
             Heartbeat(r, d) \/ FieldTimer(r, d) \/ WebTimer(r, d)
      PROVE  EventStep
  <2>1. UNCHANGED <<pending, journalled, receipts>> /\ req[r] = NoEvent
    BY <1>6 DEF Heartbeat, FieldTimer, WebTimer
  <2>2. \E e \in Event : Arrives(r, e)
    <3>1. CASE Heartbeat(r, d)
      <4>1. pending[d] \in Event /\ pending[d].device = d
        BY <1>0, <3>1 DEF Heartbeat, TypeOK, EventsNumbered
      <4>2. Arrives(r, pending[d])
        BY <3>1, <4>1 DEF Heartbeat, Arrives
      <4> QED BY <4>1, <4>2
    <3>2. CASE FieldTimer(r, d)
      <4>1. pending[d] \in Event /\ pending[d].device = d /\ pending[d] # NoEvent
        BY <1>0, <3>2 DEF FieldTimer, TypeOK, EventsNumbered
      <4>2. PICK t \in {sessions[i].task : i \in OpenOf(d)} \cup {pending[d].task} :
              req' = [req EXCEPT ![r] = Accepted([pending[d] EXCEPT !.task = t])]
        BY <3>2 DEF FieldTimer
      <4>3. t \in Tasks
        BY <1>0, <4>1 DEF OpenOf, IsOpen, Exists, TypeOK, Session, Event
      <4> DEFINE e == [pending[d] EXCEPT !.task = t]
      <4>4. e \in Event /\ e.device = d /\ e.id = pending[d].id /\ e.at = pending[d].at
        BY <4>1, <4>3 DEF Event
      <4>5. req' = [req EXCEPT ![r] = Accepted(e)]
        BY <4>2
      <4> HIDE DEF e
      <4>6. Arrives(r, e)
        BY <2>1, <4>1, <4>4, <4>5 DEF Arrives
      <4> QED BY <4>4, <4>6
    <3>3. CASE WebTimer(r, d)
      <4>1. PICK s \in Reported, t \in Tasks :
              req' = [req EXCEPT ![r] = Accepted(
                [id |-> 0, device |-> d, status |-> s, task |-> t, at |-> now,
                 idle |-> 0, transition |-> TRUE])]
        BY <3>3 DEF WebTimer
      <4> DEFINE e == [id |-> 0, device |-> d, status |-> s, task |-> t, at |-> now,
                       idle |-> 0, transition |-> TRUE]
      <4>2. e \in Event /\ e.id = 0
        BY <1>0 DEF Event, TypeOK, ConstantsAssumption
      <4>3. req' = [req EXCEPT ![r] = Accepted(e)]
        BY <4>1
      <4> HIDE DEF e
      <4>4. Arrives(r, e)
        BY <2>1, <4>2, <4>3 DEF Arrives
      <4> QED BY <4>2, <4>4
    <3> QED BY <1>6, <3>1, <3>2, <3>3
  <2> QED BY <2>1, <2>2 DEF EventStep
<1>7. ASSUME NEW r \in Requests, Authorize(r) \/ BeginTransaction(r)
      PROVE  EventStep
  <2>1. UNCHANGED <<pending, journalled, receipts>>
    BY <1>7, Zenon DEF Authorize, BeginTransaction
  <2>2. /\ req[r] # NoEvent /\ req'[r].ev = req[r].ev
        /\ \A q \in Requests : q # r => req'[q] = req[q]
    BY <1>0, <1>7, EventStays
  <2>3. SameEvents
    BY <2>2 DEF SameEvents, HandlesEventOf
  <2> QED BY <2>1, <2>3 DEF EventStep
<1>8. ASSUME NEW r \in Requests, Refuse(r) \/ EndEarly(r) \/ Rollback(r)
      PROVE  EventStep
  <2>1. req[r] # NoEvent /\ Answer(r) /\ UNCHANGED receipts
    BY <1>8 DEF Refuse, EndEarly, Rollback
  <2> QED BY <2>1 DEF EventStep
<1>9. ASSUME NEW r \in Requests, Commit(r)
      PROVE  EventStep
  <2>1. AddsNewest(r)
    BY <1>9, CommitAddsNewest
  <2>2. ~Duplicate(req[r].ev)
    BY <1>9 DEF ReceiptInv, FreshInTransaction, InTransaction, Commit
  <2> QED BY <1>9, <2>1, <2>2 DEF Commit, EventStep
<1> QED
  BY <1>2, <1>3, <1>4, <1>5, <1>6, <1>7, <1>8, <1>9 DEF Next, Serve


\* What a request's answer does to the journal of its device.
LEMMA AnsweredJournal ==
  ASSUME TypeOK, ConstantsAssumption, NEW r \in Requests, req[r] # NoEvent, Answer(r)
  PROVE  /\ journalled' = journalled
         /\ \A d \in Devices : \/ pending'[d] = pending[d]
                               \/ pending'[d] = NoEvent /\ pending[d] # NoEvent
                                  /\ d = req[r].ev.device /\ req[r].ev.id = journalled[d]
         /\ \A d \in Devices, q \in Requests :
              HandlesEventOf(q, d)' => q # r /\ HandlesEventOf(q, d) /\ req'[q] = req[q]
<1>1. journalled' = journalled /\ req' = [req EXCEPT ![r] = NoEvent]
  BY DEF Answer
<1>2. req[r].ev.device \in Devices
  BY DEF TypeOK, Request, Event
<1>3. \A d \in Devices : \/ pending'[d] = pending[d]
                         \/ pending'[d] = NoEvent /\ pending[d] # NoEvent
                            /\ d = req[r].ev.device /\ req[r].ev.id = journalled[d]
  BY <1>2 DEF Answer, TypeOK
<1>4. \A d \in Devices, q \in Requests :
        HandlesEventOf(q, d)' => q # r /\ HandlesEventOf(q, d) /\ req'[q] = req[q]
  BY <1>1 DEF HandlesEventOf, TypeOK
<1> QED BY <1>1, <1>3, <1>4

\* What an arriving request brings.
LEMMA ArrivedEvents ==
  ASSUME TypeOK, ConstantsAssumption, NEW r \in Requests, NEW e \in Event, Arrives(r, e)
  PROVE  \A d \in Devices, q \in Requests : HandlesEventOf(q, d)' =>
           \/ HandlesEventOf(q, d) /\ req'[q] = req[q]
           \/ /\ q = r /\ req'[q].ev = e /\ d = e.device /\ pending[d] # NoEvent
              /\ e.id = pending[d].id /\ e.at = pending[d].at
<1>1. req' = [req EXCEPT ![r] = Accepted(e)] /\ Accepted(e).ev = e
  BY DEF Arrives, Accepted
<1> HIDE DEF Accepted
<1> SUFFICES ASSUME NEW d \in Devices, NEW q \in Requests, HandlesEventOf(q, d)'
    PROVE \/ HandlesEventOf(q, d) /\ req'[q] = req[q]
          \/ /\ q = r /\ req'[q].ev = e /\ d = e.device /\ pending[d] # NoEvent
             /\ e.id = pending[d].id /\ e.at = pending[d].at
  OBVIOUS
<1>2. CASE q = r
  <2>1. req'[q].ev = e
    BY <1>1, <1>2 DEF TypeOK
  <2> QED BY <1>2, <2>1 DEF Arrives, HandlesEventOf
<1>3. CASE q # r
  BY <1>1, <1>3 DEF HandlesEventOf, TypeOK
<1> QED BY <1>2, <1>3

\* Event numbers only come from journals.
LEMMA StepKeepsNumbers ==
  ASSUME TypeOK, TypeOK', ConstantsAssumption, EventsNumbered, EventStep
  PROVE  EventsNumbered'
<1>1. ASSUME NEW c \in Devices, NEW e \in Event,
             pending[c] = NoEvent, e.id = journalled[c] + 1, e.device = c,
             pending' = [pending EXCEPT ![c] = e],
             journalled' = [journalled EXCEPT ![c] = @ + 1],
             UNCHANGED <<receipts, req>>
      PROVE  EventsNumbered'
  <2>0. \A d \in Devices : journalled[d] \in Nat
    BY DEF TypeOK
  <2>1. \A d \in Devices : d # c => pending'[d] = pending[d] /\ journalled'[d] = journalled[d]
    BY <1>1 DEF TypeOK
  <2>2. pending'[c] = e /\ journalled'[c] = journalled[c] + 1
    BY <1>1 DEF TypeOK
  <2>3. ASSUME NEW d \in Devices, pending'[d] # NoEvent
        PROVE  pending'[d].device = d /\ pending'[d].id = journalled'[d] /\ journalled'[d] # 0
    BY <1>1, <2>0, <2>1, <2>2, <2>3 DEF EventsNumbered
  <2>4. ASSUME NEW d \in Devices, NEW r \in Requests, HandlesEventOf(r, d)'
        PROVE  req'[r].ev.id <= journalled'[d]
    <3>1. HandlesEventOf(r, d) /\ req[r].ev.id <= journalled[d]
      BY <1>1, <2>4 DEF HandlesEventOf, EventsNumbered
    <3>2. req[r].ev.id \in Nat
      BY <3>1 DEF HandlesEventOf, TypeOK, Request, Event
    <3> QED BY <1>1, <2>0, <2>1, <2>2, <3>1, <3>2
  <2>5. ASSUME NEW d \in Devices, NEW x \in receipts', x.device = d
        PROVE  x.id <= journalled'[d]
    <3>1. x \in receipts /\ x.id \in Nat /\ x.id <= journalled[d]
      BY <1>1, <2>5 DEF TypeOK, Receipt, EventsNumbered
    <3> QED BY <2>0, <2>1, <2>2, <3>1
  <2> QED BY <2>3, <2>4, <2>5 DEF EventsNumbered
<1>2. ASSUME NEW r \in Requests, NEW e \in Event, Arrives(r, e),
             UNCHANGED <<pending, journalled, receipts>>
      PROVE  EventsNumbered'
  <2>1. \A d \in Devices : pending[d] # NoEvent => pending[d].id <= journalled[d]
    BY DEF EventsNumbered, TypeOK
  <2> QED BY <1>2, <2>1, ArrivedEvents DEF EventsNumbered
<1>3. ASSUME SameEvents, UNCHANGED <<pending, journalled>>, receipts' \subseteq receipts
      PROVE  EventsNumbered'
  BY <1>3 DEF EventsNumbered, SameEvents
<1>4. ASSUME NEW r \in Requests, req[r] # NoEvent, Answer(r),
             UNCHANGED receipts \/ AddsNewest(r)
      PROVE  EventsNumbered'
  <2>1. \A d \in Devices, x \in receipts' : x.device = d => x.id <= journalled[d]
    <3>1. req[r].ev.id # 0 => HandlesEventOf(r, req[r].ev.device)
      BY <1>4 DEF HandlesEventOf
    <3> QED BY <1>4, <3>1 DEF AddsNewest, EventsNumbered
  <2> QED BY <1>4, <2>1, AnsweredJournal DEF EventsNumbered
<1> QED BY <1>1, <1>2, <1>3, <1>4 DEF EventStep

NumberInv == ReceiptInv /\ EventsNumbered

\* They do so in every reachable state.
LEMMA NumberInvHolds == Spec => []NumberInv
<1>1. Init => EventsNumbered
  BY DEF Init, EventsNumbered, HandlesEventOf
<1>2. ASSUME ReceiptInv, ReceiptInv', EventsNumbered, [Next]_vars
      PROVE  EventsNumbered'
  BY <1>2, EventSteps, StepKeepsNumbers, ConstantsAssumption DEF ReceiptInv, SessionInv
<1>3. Spec => []EventsNumbered
  BY <1>1, <1>2, ReceiptInvHolds, PTL DEF Spec
<1> QED BY <1>3, ReceiptInvHolds, PTL DEF NumberInv

KnowsResends == \A x \in receipts \ receipts' :
                  pending[x.device] = NoEvent \/ pending[x.device].id # x.id

\* Only compaction removes receipts, and only those that are not the newest.
LEMMA OnlyOldReceiptsGo ==
  ASSUME NumberInv, ConstantsAssumption, [Next]_vars, NEW x \in receipts \ receipts'
  PROVE  /\ x.device \in Devices /\ x.at \in Nat
         /\ \E y \in receipts : y.device = x.device /\ y.at \in Nat /\ y.at > x.at
<1>0. TypeOK
  BY DEF NumberInv, ReceiptInv, SessionInv
<1>1. \E d \in Devices : CompactReceipts(d)
  <2>1. CASE UNCHANGED vars
    BY <2>1 DEF vars
  <2>2. CASE QuietStep
    BY <1>0, <2>2, QuietStepFacts
  <2>3. ASSUME NEW r \in Requests, BeginTransaction(r)
        PROVE  FALSE
    BY <2>3 DEF BeginTransaction
  <2>4. ASSUME NEW r \in Requests, Commit(r)
        PROVE  FALSE
    BY <2>4, CommitAddsNewest DEF AddsNewest, NumberInv
  <2> QED BY <2>1, <2>2, <2>3, <2>4, NextSteps
<1> QED BY <1>0, <1>1 DEF CompactReceipts, OldReceipts, TypeOK, Receipt

\* With a clock that moves on, the unanswered event is the latest the server
\* holds or has applied, however late the copies of the earlier ones arrive.
LatestIsPending ==
  \A d \in Devices : pending[d] # NoEvent =>
    /\ \A r \in Requests : HandlesEventOf(r, d) =>
         /\ req[r].ev.at <= pending[d].at
         /\ req[r].ev.id = pending[d].id => req[r].ev.at = pending[d].at
    /\ \A x \in receipts : x.device = d =>
         /\ x.at <= pending[d].at
         /\ x.id = pending[d].id => x.at = pending[d].at

\* No step makes the server hold or record anything past the unanswered event.
LEMMA StepKeepsLatest ==
  ASSUME NumberInv, TypeOK', ConstantsAssumption, ~ClockMayStepBack, LatestIsPending,
         EventStep
  PROVE  LatestIsPending'
<1>0. TypeOK /\ EventsNumbered
  BY DEF NumberInv, ReceiptInv, SessionInv
<1>1. \A r \in Requests : req[r] # NoEvent => req[r].ev \in Event /\ req[r].ev.at \in Nat
                                             /\ req[r].ev.id \in Nat
  BY <1>0 DEF TypeOK, Request, Event
<1>2. \A x \in receipts : x.at \in Nat /\ x.id \in Nat
  BY <1>0 DEF TypeOK, Receipt
<1>3. \A d \in Devices : pending[d] # NoEvent => pending[d].at \in Nat
  BY <1>0 DEF TypeOK, Event
<1>4. ASSUME NEW c \in Devices, NEW e \in Event,
             pending[c] = NoEvent, e.id = journalled[c] + 1, e.device = c,
             ReadsClock(c, e.at),
             pending' = [pending EXCEPT ![c] = e],
             UNCHANGED <<receipts, req>>
      PROVE  LatestIsPending'
  <2>1. \A d \in Devices : d # c => pending'[d] = pending[d]
    BY <1>0, <1>4 DEF TypeOK
  <2>2. pending'[c] = e /\ e.at \in Nat /\ journalled[c] \in Nat
    BY <1>0, <1>4 DEF TypeOK, Event
  <2>3. ASSUME NEW d \in Devices, pending'[d] # NoEvent, NEW r \in Requests,
               HandlesEventOf(r, d)'
        PROVE  /\ req'[r].ev.at <= pending'[d].at
               /\ req'[r].ev.id = pending'[d].id => req'[r].ev.at = pending'[d].at
    <3>1. HandlesEventOf(r, d) /\ req'[r] = req[r] /\ req[r] # NoEvent
      BY <1>4, <2>3 DEF HandlesEventOf
    <3>2. CASE d # c
      BY <2>1, <2>3, <3>1, <3>2 DEF LatestIsPending
    <3>3. CASE d = c
      <4>1. req[r].ev.at < e.at /\ req[r].ev.id <= journalled[c]
        BY <1>0, <1>4, <3>1, <3>3 DEF ReadsClock, EventsNumbered
      <4> QED BY <1>1, <1>4, <2>2, <3>1, <3>3, <4>1
    <3> QED BY <3>2, <3>3
  <2>4. ASSUME NEW d \in Devices, pending'[d] # NoEvent, NEW x \in receipts', x.device = d
        PROVE  /\ x.at <= pending'[d].at
               /\ x.id = pending'[d].id => x.at = pending'[d].at
    <3>1. x \in receipts
      BY <1>4
    <3>2. CASE d # c
      BY <2>1, <2>4, <3>1, <3>2 DEF LatestIsPending
    <3>3. CASE d = c
      <4>1. x.at < e.at /\ x.id <= journalled[c]
        BY <1>0, <1>4, <2>4, <3>1, <3>3 DEF ReadsClock, EventsNumbered
      <4> QED BY <1>2, <1>4, <2>2, <3>1, <3>3, <4>1
    <3> QED BY <3>2, <3>3
  <2> QED BY <2>3, <2>4 DEF LatestIsPending
<1>5. ASSUME NEW r \in Requests, NEW e \in Event, Arrives(r, e),
             UNCHANGED <<pending, journalled, receipts>>
      PROVE  LatestIsPending'
  <2>1. e.at <= e.at
    BY DEF Event
  <2> QED BY <1>0, <1>5, <2>1, ArrivedEvents DEF LatestIsPending
<1>6. ASSUME SameEvents, UNCHANGED <<pending, journalled>>, receipts' \subseteq receipts
      PROVE  LatestIsPending'
  BY <1>6 DEF LatestIsPending, SameEvents
<1>7. ASSUME NEW r \in Requests, req[r] # NoEvent, Answer(r),
             UNCHANGED receipts \/ AddsNewest(r)
      PROVE  LatestIsPending'
  <2>1. ASSUME NEW d \in Devices, pending[d] # NoEvent, NEW x \in receipts', x.device = d
        PROVE  /\ x.at <= pending[d].at
               /\ x.id = pending[d].id => x.at = pending[d].at
    <3>1. CASE x \in receipts
      BY <2>1, <3>1 DEF LatestIsPending
    <3>2. CASE x \notin receipts
      <4>1. /\ x \in Receipt /\ x.device = req[r].ev.device /\ x.id = req[r].ev.id
            /\ x.id # 0 /\ req[r].ev.at <= x.at
            /\ x.at = req[r].ev.at \/ \E y \in receipts : y.device = x.device /\ y.at = x.at
        BY <1>7, <2>1, <3>2 DEF AddsNewest
      <4>2. HandlesEventOf(r, d)
        BY <1>7, <2>1, <4>1 DEF HandlesEventOf
      <4>3. /\ req[r].ev.at <= pending[d].at
            /\ req[r].ev.id = pending[d].id => req[r].ev.at = pending[d].at
        BY <2>1, <4>2 DEF LatestIsPending
      <4>4. x.at <= pending[d].at
        BY <2>1, <4>1, <4>3 DEF LatestIsPending
      <4>5. x.at \in Nat
        BY <4>1 DEF Receipt
      <4> QED BY <1>1, <1>3, <1>7, <2>1, <4>1, <4>3, <4>4, <4>5
    <3> QED BY <3>1, <3>2
  <2> QED BY <1>0, <1>7, <2>1, AnsweredJournal DEF LatestIsPending
<1> QED BY <1>4, <1>5, <1>6, <1>7 DEF EventStep

\* An event that a device still sends keeps its receipt through every
\* compaction, with any number of late copies of earlier events, if the clock
\* of the device moves on: the event cannot be applied a second time.
THEOREM ResendRecognised == ~ClockMayStepBack => (Spec => ResendIsRecognised)
<1> SUFFICES ASSUME ~ClockMayStepBack PROVE Spec => ResendIsRecognised
  OBVIOUS
<1>1. Init => LatestIsPending
  BY DEF Init, LatestIsPending
<1>2. ASSUME NumberInv, NumberInv', LatestIsPending, [Next]_vars
      PROVE  LatestIsPending'
  BY <1>2, EventSteps, StepKeepsLatest, ConstantsAssumption
     DEF NumberInv, ReceiptInv, SessionInv
<1>3. ASSUME NumberInv, LatestIsPending, [Next]_vars
      PROVE  KnowsResends
  <2>1. ASSUME NEW x \in receipts \ receipts', pending[x.device] # NoEvent,
               pending[x.device].id = x.id
        PROVE  FALSE
    <3>1. PICK y \in receipts : /\ x.device \in Devices /\ x.at \in Nat
                                /\ y.device = x.device /\ y.at \in Nat /\ y.at > x.at
      BY <1>3, OnlyOldReceiptsGo, ConstantsAssumption
    <3>2. x.at = pending[x.device].at /\ y.at <= pending[x.device].at
      BY <1>3, <2>1, <3>1 DEF LatestIsPending
    <3> QED BY <3>1, <3>2
  <2> QED BY <2>1 DEF KnowsResends
<1> QED
  BY <1>1, <1>2, <1>3, NumberInvHolds, PTL DEF Spec, ResendIsRecognised, KnowsResends


\* No two requests with the same event of a device are handled at once: what a
\* client that waits for each answer guarantees, and one that retries after a
\* timeout does not.
OneCopyAtATime ==
  \A r, q \in Requests, d \in Devices :
    HandlesEventOf(r, d) /\ HandlesEventOf(q, d) /\ req[r].ev.id = req[q].ev.id => r = q

\* What is handled is then the unanswered event, and its receipt is the newest.
InTurn ==
  \A d \in Devices :
    /\ \A r \in Requests : HandlesEventOf(r, d) =>
         pending[d] # NoEvent /\ req[r].ev.id = pending[d].id
    /\ \A x, y \in receipts :
         x.device = d /\ y.device = d /\ x.id = journalled[d] => y.at <= x.at

\* Copies handled one by one keep the newest receipt that of the newest event.
LEMMA StepKeepsTurn ==
  ASSUME NumberInv, ConstantsAssumption, OneCopyAtATime, InTurn, EventStep
  PROVE  InTurn'
<1>0. TypeOK /\ EventsNumbered
  BY DEF NumberInv, ReceiptInv, SessionInv
<1>1. ASSUME NEW c \in Devices, NEW e \in Event,
             pending[c] = NoEvent, e.id = journalled[c] + 1,
             pending' = [pending EXCEPT ![c] = e],
             journalled' = [journalled EXCEPT ![c] = @ + 1],
             UNCHANGED <<receipts, req>>
      PROVE  InTurn'
  <2>1. /\ pending'[c] = e /\ journalled'[c] = journalled[c] + 1 /\ journalled[c] \in Nat
        /\ \A d \in Devices : d # c => /\ pending'[d] = pending[d]
                                       /\ journalled'[d] = journalled[d]
    BY <1>0, <1>1 DEF TypeOK
  <2>2. \A d \in Devices, r \in Requests : HandlesEventOf(r, d)' =>
          d # c /\ HandlesEventOf(r, d) /\ req'[r] = req[r]
    BY <1>1 DEF InTurn, HandlesEventOf
  <2>3. \A x \in receipts : x.device = c => x.id # journalled'[c]
    <3>1. \A x \in receipts : x.device = c => x.id \in Nat /\ x.id <= journalled[c]
      BY <1>0 DEF EventsNumbered, TypeOK, Receipt
    <3> QED BY <2>1, <3>1
  <2> QED BY <1>1, <2>1, <2>2, <2>3 DEF InTurn
<1>2. ASSUME NEW r \in Requests, NEW e \in Event, Arrives(r, e),
             UNCHANGED <<pending, journalled, receipts>>
      PROVE  InTurn'
  BY <1>0, <1>2, ArrivedEvents DEF InTurn
<1>3. ASSUME SameEvents, UNCHANGED <<pending, journalled>>, receipts' \subseteq receipts
      PROVE  InTurn'
  BY <1>3 DEF InTurn, SameEvents
<1>4. ASSUME NEW r \in Requests, req[r] # NoEvent, Answer(r),
             \/ UNCHANGED receipts
             \/ AddsNewest(r) /\ ~Duplicate(req[r].ev)
      PROVE  InTurn'
  <2>1. ASSUME NEW d \in Devices, NEW q \in Requests, HandlesEventOf(q, d)'
        PROVE  pending'[d] # NoEvent /\ req'[q].ev.id = pending'[d].id
    <3>1. q # r /\ HandlesEventOf(q, d) /\ req'[q] = req[q]
      BY <1>0, <1>4, <2>1, AnsweredJournal
    <3>2. pending[d] # NoEvent /\ req[q].ev.id = pending[d].id
      BY <3>1 DEF InTurn
    <3>3. CASE pending'[d] = pending[d]
      BY <3>1, <3>2, <3>3
    <3>4. CASE d = req[r].ev.device /\ req[r].ev.id = journalled[d]
      <4>1. HandlesEventOf(r, d) /\ req[r].ev.id = req[q].ev.id
        BY <1>0, <1>4, <3>2, <3>4 DEF EventsNumbered, HandlesEventOf
      <4> QED BY <3>1, <4>1 DEF OneCopyAtATime
    <3> QED BY <1>0, <1>4, <3>3, <3>4, AnsweredJournal
  <2>2. ASSUME NEW d \in Devices, NEW x \in receipts', NEW y \in receipts',
               x.device = d, y.device = d, x.id = journalled[d]
        PROVE  y.at <= x.at
    <3>1. CASE UNCHANGED receipts
      BY <2>2, <3>1 DEF InTurn
    <3>2. CASE AddsNewest(r) /\ ~Duplicate(req[r].ev) /\ receipts' # receipts
      <4>1. PICK z \in Receipt :
              /\ z.device = req[r].ev.device /\ z.id = req[r].ev.id /\ z.id # 0
              /\ receipts' = receipts \cup {z}
              /\ \A w \in receipts : w.device = z.device => w.at <= z.at
        BY <3>2 DEF AddsNewest
      <4>2. z.at <= z.at
        BY DEF Receipt
      <4>3. CASE x = z
        BY <2>2, <4>1, <4>2, <4>3
      <4>4. CASE x # z /\ y # z
        BY <2>2, <4>1, <4>4 DEF InTurn
      <4>5. CASE x # z /\ y = z
        <5>1. x \in receipts /\ HandlesEventOf(r, d)
          BY <1>4, <2>2, <4>1, <4>5 DEF HandlesEventOf
        <5>2. req[r].ev.id = journalled[d]
          BY <1>0, <5>1 DEF InTurn, EventsNumbered
        <5> QED BY <2>2, <3>2, <4>1, <4>5, <5>1, <5>2 DEF Duplicate
      <4> QED BY <4>3, <4>4, <4>5
    <3> QED BY <1>4, <3>1, <3>2
  <2>3. journalled' = journalled
    BY <1>0, <1>4, AnsweredJournal
  <2> QED BY <2>1, <2>2, <2>3 DEF InTurn
<1> QED BY <1>1, <1>2, <1>3, <1>4 DEF EventStep

\* The same whatever the clock does, if the copies of an event come one by one:
\* only a late copy and a clock that steps back together defeat the receipt.
THEOREM ResendRecognisedInTurn == Spec /\ []OneCopyAtATime => ResendIsRecognised
<1>1. Init => InTurn
  BY DEF Init, InTurn, HandlesEventOf
<1>2. ASSUME NumberInv, OneCopyAtATime, InTurn, [Next]_vars
      PROVE  InTurn'
  BY <1>2, EventSteps, StepKeepsTurn, ConstantsAssumption DEF NumberInv
<1>3. ASSUME NumberInv, InTurn, [Next]_vars
      PROVE  KnowsResends
  <2>1. ASSUME NEW x \in receipts \ receipts', pending[x.device] # NoEvent,
               pending[x.device].id = x.id
        PROVE  FALSE
    <3>1. PICK y \in receipts : /\ x.device \in Devices /\ x.at \in Nat
                                /\ y.device = x.device /\ y.at \in Nat /\ y.at > x.at
      BY <1>3, OnlyOldReceiptsGo, ConstantsAssumption
    <3>2. x.id = journalled[x.device]
      BY <1>3, <2>1, <3>1 DEF NumberInv, EventsNumbered
    <3>3. y.at <= x.at
      BY <1>3, <3>1, <3>2 DEF InTurn
    <3> QED BY <3>1, <3>3
  <2> QED BY <2>1 DEF KnowsResends
<1> QED
  BY <1>1, <1>2, <1>3, NumberInvHolds, PTL DEF Spec, ResendIsRecognised, KnowsResends

-----------------------------------------------------------------------------
(***************************************************************************)
(* What a commit does to one segment.                                      *)
(***************************************************************************)

\* The commit ends the open segment of the session its transaction read.
EndsOwnSegment(r, previous) == req[r].own \in Stopping(r, previous) \/ Pauses(r)

\* A segment of before stays as it is; if it is open, of the reporting device and not
\* overlooked by a close, the event is an active one that follows without a gap.
KeptBy(r, previous, h) ==
  /\ h \in segments /\ SegmentDevice(h)' = SegmentDevice(h)
  /\ OpenSegment(h) => /\ sessions'[h.session].ended = sessions[h.session].ended
                       /\ SegmentDevice(h) = req[r].ev.device /\ h \notin overlooked =>
                            ~EndsOwnSegment(r, previous) /\ ~Lapsed(r, previous)
                            /\ req[r].ev.status = "active"

\* When a commit would end an open segment: as the stop of its session says, or
\* at the beginning of the idle time of a pause.
EndTime(r, previous, g) ==
  IF g.session \in Stopping(r, previous) THEN StopTime(r, previous, g.session)
  ELSE Observed(req[r].ev, previous) - req[r].ev.idle

\* An open segment g ends, but not before its start; on the reporting device its
\* end is no later than the event and not past a gap.
EndedFrom(r, previous, h, g) ==
  LET u == EndTime(r, previous, g) IN
  /\ OpenSegment(g) /\ h = [g EXCEPT !.to = Later(g.from, u)] /\ u \in Int
  /\ SegmentDevice(h)' = SegmentDevice(g)
  /\ Owner[SegmentDevice(g)] = Owner[req[r].ev.device]
  /\ SegmentDevice(g) = req[r].ev.device =>
       /\ EndsOwnSegment(r, previous)
       /\ u <= Observed(req[r].ev, previous)
       /\ previous.status = "active" => u - previous.at <= Lease
EndedBy(r, previous, h) == \E g \in segments : EndedFrom(r, previous, h, g)

\* A segment starts on the reporting device, which has no other open one unless a close
\* overlooked it.
StartedBy(r, previous, h) ==
  /\ OpenSegment(h) /\ h.from = Observed(req[r].ev, previous)
  /\ SegmentDevice(h)' = req[r].ev.device /\ req[r].ev.status = "active"
  /\ \A g \in segments :
       OpenSegment(g) /\ g \notin overlooked /\ SegmentDevice(g) = req[r].ev.device =>
         EndsOwnSegment(r, previous)

\* The open segments of the reporting device are of the session that was read, but for
\* those that a close overlooked.
LEMMA OpenIsOwn ==
  ASSUME FullInv, ConstantsAssumption, NEW r \in Requests, InTransaction(r),
         NEW g \in segments, OpenSegment(g), g \notin overlooked,
         SegmentDevice(g) = req[r].ev.device
  PROVE  /\ g.session = req[r].own /\ req[r].own # NoSession
         /\ IsOpen(g.session) /\ req[r].was = "active"
<1>1. g.session \in SessionIds /\ Exists(g.session) /\ sessions[g.session].status = "active"
  BY DEF FullInv, CountingInv, SegmentsHaveRows, CountsExactlyWhileActive
<1>2. g.session \in OpenOf(req[r].ev.device)
  BY <1>1 DEF OpenOf, IsOpen, OpenStatus, SegmentDevice
<1>3. g.session = req[r].own /\ req[r].own # NoSession
  BY <1>1, <1>2 DEF FullInv, SessionInv, SnapshotStaysSound, ReadIsSound, ConstantsAssumption
<1>4. req[r].was = "active"
  BY <1>1, <1>3 DEF FullInv, CountingInv, ReadStatusStands
<1> QED BY <1>1, <1>2, <1>3, <1>4 DEF OpenOf

\* The end a stop gives a segment of the reporting device.
LEMMA StopTimeFacts ==
  ASSUME FullInv, ConstantsAssumption, NEW r \in Requests, InTransaction(r),
         NEW previous \in Previous(req[r].ev), req[r].own # NoSession
  PROVE  LET u == StopTime(r, previous, req[r].own)
         IN /\ u \in Int /\ u <= Observed(req[r].ev, previous)
            /\ previous.status = "active" => u - previous.at <= Lease
<1>1. previous.at \in Nat /\ Observed(req[r].ev, previous) \in Nat
  BY StoppingFacts DEF FullInv, Receipt
<1>2. Interval \in Nat /\ Lease \in Nat /\ Interval <= Lease
  BY DEF ConstantsAssumption
<1>3. CASE Lapsed(r, previous)
  <2>1. Observed(req[r].ev, previous) - previous.at > Lease
    BY <1>3 DEF Lapsed
  <2> QED BY <1>1, <1>2, <1>3, <2>1 DEF StopTime
<1>4. CASE ~Lapsed(r, previous)
  <2>1. previous.status = "active" => ~(Observed(req[r].ev, previous) - previous.at > Lease)
    BY <1>4 DEF Lapsed
  <2> QED BY <1>1, <1>2, <1>4, <2>1 DEF StopTime
<1> QED BY <1>3, <1>4

\* A segment that _stop_session saw is kept, or ended by it.
LEMMA StoppedSegmentFacts ==
  ASSUME FullInv, ConstantsAssumption, NEW r \in Requests, InTransaction(r),
         NEW previous \in Previous(req[r].ev), NEW h \in StoppedSegments(r, previous)
  PROVE  \/ h \in segments /\ (OpenSegment(h) => h.session \notin Stopping(r, previous))
         \/ \E g \in segments : LET u == EndTime(r, previous, g) IN
              /\ OpenSegment(g) /\ h = [g EXCEPT !.to = Later(g.from, u)] /\ u \in Int
              /\ g.session \in Stopping(r, previous)
              /\ Owner[SegmentDevice(g)] = Owner[req[r].ev.device]
              /\ SegmentDevice(g) = req[r].ev.device =>
                   /\ u <= Observed(req[r].ev, previous)
                   /\ previous.status = "active" => u - previous.at <= Lease
<1>0. SessionInv /\ ReadIsSound(r)
  BY DEF FullInv, SessionInv, SnapshotStaysSound
<1>1. PICK g \in segments :
        h = IF OpenSegment(g) /\ g.session \in Stopping(r, previous)
              THEN [g EXCEPT !.to = Later(g.from, StopTime(r, previous, g.session))] ELSE g
  BY DEF StoppedSegments, CloseSegments
<1>2. CASE ~(OpenSegment(g) /\ g.session \in Stopping(r, previous))
  BY <1>1, <1>2
<1>3. CASE OpenSegment(g) /\ g.session \in Stopping(r, previous)
  <2> DEFINE u == StopTime(r, previous, g.session)
  <2>1. u \in Int
    <3>1. previous.at \in Nat /\ Observed(req[r].ev, previous) \in Nat
      BY <1>0, StoppingFacts DEF Receipt
    <3> QED BY <3>1 DEF StopTime, ConstantsAssumption
  <2>2. Owner[SegmentDevice(g)] = Owner[req[r].ev.device]
    <3>1. CASE g.session \in Others(req[r].ev)
      BY <3>1 DEF Others, UserOf, SegmentDevice
    <3>2. CASE g.session = req[r].own /\ req[r].own # NoSession
      BY <1>0, <3>2 DEF ReadIsSound, SegmentDevice
    <3> QED BY <1>3, <3>1, <3>2 DEF Stopping
  <2>3. SegmentDevice(g) = req[r].ev.device =>
          /\ u <= Observed(req[r].ev, previous)
          /\ previous.status = "active" => u - previous.at <= Lease
    BY <1>3, StopTimeFacts DEF Stopping, Others, SegmentDevice
  <2>4. h = [g EXCEPT !.to = Later(g.from, u)] /\ u = EndTime(r, previous, g)
    BY <1>1, <1>3 DEF EndTime
  <2> HIDE DEF u
  <2> QED BY <1>3, <2>1, <2>2, <2>3, <2>4
<1> QED BY <1>2, <1>3

\* What a commit does to a segment is one of the three.
LEMMA CommitSegments ==
  ASSUME FullInv, ConstantsAssumption, NEW r \in Requests, InTransaction(r),
         NEW previous \in Previous(req[r].ev),
         \/ CommitStop(r, previous)
         \/ CommitInsert(r, previous)
         \/ CommitUpdate(r, previous),
         NEW h \in segments'
  PROVE  KeptBy(r, previous, h) \/ EndedBy(r, previous, h) \/ StartedBy(r, previous, h)
<1> DEFINE e == req[r].ev
<1> DEFINE t == Observed(e, previous)
<1> DEFINE G == StoppedSegments(r, previous)
<1>0. /\ TypeOK /\ SessionInv /\ ReadIsSound(r) /\ req[r] \in Request /\ e \in Event
      /\ SegmentsHaveRows /\ ReadStatusStands
      /\ previous \in Receipt /\ t \in Nat
  BY StoppingFacts DEF FullInv, CountingInv, SessionInv, SnapshotStaysSound, TypeOK,
     InTransaction, Request
<1>1. \A g \in segments : g.session \in SessionIds /\ SegmentDevice(g)' = SegmentDevice(g)
  BY <1>0, CommitRows DEF SegmentsHaveRows, SegmentDevice
<1>2. ASSUME NEW g \in segments, OpenSegment(g) => g.session \notin Stopping(r, previous),
             OpenSegment(g) /\ SegmentDevice(g) = e.device /\ g \notin overlooked =>
               ~EndsOwnSegment(r, previous) /\ ~Lapsed(r, previous) /\ e.status = "active"
      PROVE  KeptBy(r, previous, g)
  BY <1>0, <1>1, <1>2, CommitRows DEF KeptBy, SegmentsHaveRows
<1>3. ASSUME NEW g \in segments, NEW u \in Int, OpenSegment(g), u = EndTime(r, previous, g),
             h = [g EXCEPT !.to = Later(g.from, u)],
             g.session \in Stopping(r, previous) \/ (Pauses(r) /\ g.session = req[r].own),
             Owner[SegmentDevice(g)] = Owner[e.device],
             SegmentDevice(g) = e.device =>
               /\ u <= t
               /\ previous.status = "active" => u - previous.at <= Lease
      PROVE  EndedBy(r, previous, h)
  <2>1. SegmentDevice(h)' = SegmentDevice(g)
    <3>1. h.session = g.session
      BY <1>0, <1>3 DEF TypeOK, Segment
    <3> QED BY <1>1, <3>1 DEF SegmentDevice
  <2>2. SegmentDevice(g) = e.device => EndsOwnSegment(r, previous)
    BY <1>3 DEF Stopping, Others, SegmentDevice, EndsOwnSegment
  <2> QED BY <1>3, <2>1, <2>2 DEF EndedBy, EndedFrom
<1>4. ASSUME h \in G,
             h \in segments /\ OpenSegment(h) /\ SegmentDevice(h) = e.device
                 /\ h \notin overlooked =>
               ~EndsOwnSegment(r, previous) /\ ~Lapsed(r, previous) /\ e.status = "active"
      PROVE  KeptBy(r, previous, h) \/ EndedBy(r, previous, h)
  <2>1. CASE h \in segments /\ (OpenSegment(h) => h.session \notin Stopping(r, previous))
    BY <1>2, <1>4, <2>1
  <2>2. ASSUME NEW g \in segments, NEW u \in Int, u = EndTime(r, previous, g),
               /\ OpenSegment(g) /\ h = [g EXCEPT !.to = Later(g.from, u)]
               /\ g.session \in Stopping(r, previous)
               /\ Owner[SegmentDevice(g)] = Owner[e.device]
               /\ SegmentDevice(g) = e.device =>
                    /\ u <= t
                    /\ previous.status = "active" => u - previous.at <= Lease
        PROVE  EndedBy(r, previous, h)
    BY <1>3, <2>2
  <2> QED BY <1>4, <2>1, <2>2, StoppedSegmentFacts
<1>5. CASE CommitStop(r, previous)
  <2>1. h \in G /\ e.status = "stopped"
    BY <1>5 DEF CommitStop
  <2>2. ASSUME h \in segments, OpenSegment(h), SegmentDevice(h) = e.device, h \notin overlooked
        PROVE  FALSE
    <3>1. h.session = req[r].own /\ req[r].own # NoSession
      BY <2>2, OpenIsOwn
    <3>2. h.session \in Stopping(r, previous)
      BY <2>1, <3>1 DEF Stopping
    <3>3. h \notin segments \/ h.session \notin Stopping(r, previous)
      BY <1>0, <2>1, <2>2, StoppingCloses
    <3> QED BY <2>2, <3>2, <3>3
  <2> QED BY <1>4, <2>1, <2>2
<1>6. CASE CommitInsert(r, previous)
  <2>1. ASSUME NEW g \in segments, OpenSegment(g), SegmentDevice(g) = e.device,
               g \notin overlooked
        PROVE  g.session \in Stopping(r, previous) /\ EndsOwnSegment(r, previous)
    <3>1. g.session = req[r].own /\ req[r].own # NoSession
      BY <2>1, OpenIsOwn
    <3> QED BY <1>6, <3>1 DEF CommitInsert, Stopping, EndsOwnSegment
  <2>2. CASE h \in G
    <3>1. ASSUME h \in segments, OpenSegment(h), SegmentDevice(h) = e.device,
                 h \notin overlooked
          PROVE  FALSE
      <4>1. h \notin segments \/ h.session \notin Stopping(r, previous)
        BY <1>0, <2>2, <3>1, StoppingCloses
      <4> QED BY <2>1, <3>1, <4>1
    <3> QED BY <1>4, <2>2, <3>1
  <2>3. CASE h \notin G
    <3>1. PICK k \in SessionIds :
            /\ sessions' = [StoppedRows(r, previous) EXCEPT ![k] =
                 [device |-> e.device, task |-> e.task, status |-> e.status,
                  started |-> t, ended |-> Open]]
            /\ segments' = G \cup
                 (IF e.status = "active"
                  THEN {[session |-> k, from |-> t, to |-> Open]} ELSE {})
      BY <1>6 DEF CommitInsert
    <3>2. h = [session |-> k, from |-> t, to |-> Open] /\ e.status = "active"
      BY <2>3, <3>1
    <3>3. StoppedRows(r, previous) \in [SessionIds -> Session \cup {NoSession}]
      BY <1>0, StoppingFacts
    <3>4. h.session = k /\ h.from = t /\ OpenSegment(h)
      BY <3>2 DEF OpenSegment
    <3>5. sessions'[k].device = e.device
      BY <3>1, <3>3
    <3> QED BY <2>1, <3>2, <3>4, <3>5 DEF StartedBy, SegmentDevice
  <2> QED BY <2>2, <2>3
<1>7. CASE CommitUpdate(r, previous)
  <2>0. PICK own \in SessionIds : own = req[r].own
    BY <1>0, <1>7 DEF CommitUpdate, Continues, Request
  <2>1. /\ e.status \in OpenStatus /\ own \notin Stopping(r, previous)
        /\ ~Lapsed(r, previous) /\ Exists(own)
        /\ sessions[own].device = e.device /\ own # NoSession
    BY <1>0, <1>7, <2>0 DEF CommitUpdate, Continues, ReadIsSound, Stopping, Others,
       Event, Status, OpenStatus, ConstantsAssumption
  <2> DEFINE new == [session |-> own, from |-> t, to |-> Open]
  <2>2. \/ h = new /\ Resumes(r)
        \/ \E g \in G : h = IF Pauses(r) /\ OpenSegment(g) /\ g.session = own
                              THEN [g EXCEPT !.to = PauseTime(g, r, t)] ELSE g
    BY <1>7, <2>0 DEF CommitUpdate
  <2>3. ASSUME Resumes(r), h = new
        PROVE  StartedBy(r, previous, h)
    <3>1. h.session = own /\ h.from = t /\ OpenSegment(h)
      BY <2>3 DEF OpenSegment
    <3>2. /\ e.status = "active"
          /\ \A g \in segments :
               ~(OpenSegment(g) /\ g \notin overlooked /\ SegmentDevice(g) = e.device)
      BY <2>3, OpenIsOwn DEF Resumes
    <3>3. sessions'[own].device = e.device
      BY <1>0, <2>1, CommitRows
    <3> QED BY <3>1, <3>2, <3>3 DEF StartedBy, SegmentDevice
  <2>4. ASSUME NEW g \in G, Pauses(r), OpenSegment(g), g.session = own,
               h = [g EXCEPT !.to = PauseTime(g, r, t)]
        PROVE  EndedBy(r, previous, h)
    <3>1. g \in segments
      BY <1>0, <2>4, StoppingCloses
    <3>2. t - e.idle \in Int /\ t - e.idle <= t /\ h = [g EXCEPT !.to = Later(g.from, t - e.idle)]
          /\ t - e.idle = EndTime(r, previous, g)
      BY <1>0, <2>1, <2>4 DEF Event, PauseTime, EndTime
    <3>3. SegmentDevice(g) = e.device
      BY <2>1, <2>4 DEF SegmentDevice
    <3>4. previous.status = "active" => (t - e.idle) - previous.at <= Lease
      <4>1. previous.status = "active" => ~(t - previous.at > Lease)
        BY <2>0, <2>1 DEF Lapsed
      <4>2. previous.at \in Nat /\ Lease \in Nat /\ e.idle \in Nat
        BY <1>0 DEF Receipt, ConstantsAssumption, Event
      <4> QED BY <1>0, <4>1, <4>2
    <3> QED BY <1>3, <2>0, <2>4, <3>1, <3>2, <3>3, <3>4
  <2>5. ASSUME h \in G, ~(Pauses(r) /\ OpenSegment(h) /\ h.session = own)
        PROVE  KeptBy(r, previous, h) \/ EndedBy(r, previous, h)
    <3>1. ASSUME h \in segments, OpenSegment(h), SegmentDevice(h) = e.device,
                 h \notin overlooked
          PROVE  ~EndsOwnSegment(r, previous) /\ ~Lapsed(r, previous) /\ e.status = "active"
      <4>1. h.session = own /\ req[r].was = "active"
        BY <2>0, <3>1, OpenIsOwn
      <4>2. ~Pauses(r) /\ e.status = "active"
        BY <2>1, <2>5, <3>1, <4>1 DEF Pauses, OpenStatus
      <4> QED BY <2>0, <2>1, <4>2 DEF EndsOwnSegment
    <3> QED BY <1>4, <2>5, <3>1
  <2> QED BY <2>2, <2>3, <2>4, <2>5
<1> QED BY <1>5, <1>6, <1>7

-----------------------------------------------------------------------------
(***************************************************************************)
(* The desktop-only policy.                                                *)
(***************************************************************************)

\* The policy still allows the start a transaction was admitted for: the update
\* of a policy waits for the transactions that start time under it.
PolicyStands ==
  \A r \in Requests :
    InTransaction(r) /\ req[r].ev.status = "active" /\ Kind[req[r].ev.device] # "desktop"
      => EffectivePolicy(Owner[req[r].ev.device]) # "desktop_only"

PolicyInv == PolicyStands /\ DesktopOnlyEnforced

\* The rows that closing by task or web device writes.
LEMMA CloseUnendedRows ==
  ASSUME TypeOK, NEW chosen, CloseUnended(chosen), NEW i \in SessionIds, i \in chosen,
         sessions[i].ended = Open
  PROVE  sessions'[i] = [sessions[i] EXCEPT !.status = "stopped", !.ended = now]
<1> DEFINE live == {j \in chosen : sessions[j].ended = Open}
<1>1. sessions' = [j \in SessionIds |->
         IF j \in live THEN [sessions[j] EXCEPT !.status = "stopped", !.ended = now]
         ELSE sessions[j]]
  BY Zenon DEF CloseUnended, StopRows
<1>2. i \in live
  OBVIOUS
<1> HIDE DEF live
<1> QED BY <1>1, <1>2, Zenon

\* An update that holds the policy lock of every member it affects, and closes
\* the rows of those it newly restricts.
LEMMA PolicyUpdates ==
  ASSUME FullInv, ConstantsAssumption, PolicyInv, UNCHANGED req,
         NEW affected, PolicyLockFree(affected),
         NEW chosen, CloseUnended(chosen),
         \A i \in chosen : i \in SessionIds /\ Exists(i),
         \A u \in Users : EffectivePolicy(u)' = "desktop_only" =>
           \/ EffectivePolicy(u) = "desktop_only"
           \/ /\ u \in affected
              /\ \A i \in SessionIds : Exists(i) /\ UserOf(i) = u
                   /\ Kind[sessions[i].device] # "desktop" => i \in chosen
  PROVE  PolicyInv'
<1>0. TypeOK /\ SegmentsHaveRows /\ CountsExactlyWhileActive
  BY DEF FullInv, SessionInv, CountingInv
<1>1. PolicyStands'
  <2> SUFFICES ASSUME NEW r \in Requests, InTransaction(r), req[r].ev.status = "active",
                      Kind[req[r].ev.device] # "desktop",
                      EffectivePolicy(Owner[req[r].ev.device])' = "desktop_only"
               PROVE  FALSE
    BY DEF PolicyStands, InTransaction, EffectivePolicy
  <2>1. req[r].ev.device \in Devices
    BY <1>0 DEF InTransaction, TypeOK, Request, Event
  <2>2. Owner[req[r].ev.device] \in Users
    BY <2>1 DEF ConstantsAssumption
  <2>3. Owner[req[r].ev.device] \notin affected
    BY DEF PolicyLockFree, Locked, InTransaction
  <2>4. EffectivePolicy(Owner[req[r].ev.device]) = "desktop_only"
    <3> DEFINE w == Owner[req[r].ev.device]
    <3>1. EffectivePolicy(w)' = "desktop_only"
      BY DEF EffectivePolicy
    <3> QED BY <2>2, <2>3, <3>1 DEF EffectivePolicy
  <2> QED BY <2>4 DEF PolicyInv, PolicyStands
<1>3. DesktopOnlyEnforced'
  <2> SUFFICES ASSUME NEW h \in segments', OpenSegment(h), ~Revived(h.session)',
                      h \notin overlooked',
                      EffectivePolicy(UserOf(h.session))' = "desktop_only",
                      Kind[SegmentDevice(h)'] # "desktop"
               PROVE  FALSE
    BY DEF DesktopOnlyEnforced, OpenSegment
  <2> DEFINE i == h.session
  <2>1. h \in segments /\ h \notin overlooked /\ sessions'[i] = sessions[i]
    BY <1>0, CloseUnendedCloses DEF ClosesWork
  <2>2. /\ i \in SessionIds /\ Exists(i) /\ IsOpen(i)
        /\ sessions[i] \in Session /\ sessions[i].device \in Devices
    BY <1>0, <2>1 DEF SegmentsHaveRows, CountsExactlyWhileActive, IsOpen, OpenStatus,
       Exists, TypeOK, Session
  <2>3. sessions[i].ended = Open
    BY <2>1, <2>2 DEF Revived, IsOpen, Exists
  <2>4. Owner[sessions[i].device] \in Users
    BY <2>2 DEF ConstantsAssumption
  <2>5. EffectivePolicy(UserOf(i))' = EffectivePolicy(Owner[sessions[i].device])'
    BY <2>1 DEF UserOf
  <2>6. EffectivePolicy(Owner[sessions[i].device]) # "desktop_only"
    BY <2>1, <2>3 DEF PolicyInv, DesktopOnlyEnforced, Revived, UserOf, SegmentDevice
  <2>7. i \in chosen
    BY <2>1, <2>2, <2>4, <2>5, <2>6 DEF UserOf, SegmentDevice
  <2>8. sessions'[i] = [sessions[i] EXCEPT !.status = "stopped", !.ended = now]
    BY <1>0, <2>2, <2>3, <2>7, CloseUnendedRows, Zenon
  <2>9. sessions'[i].ended = now /\ now # Open
    BY <1>0, <2>2, <2>8 DEF Session, TypeOK, Open
  <2> QED BY <2>1, <2>3, <2>9
<1> QED BY <1>1, <1>3 DEF PolicyInv

\* The two operations that set a policy are such updates.
LEMMA PolicyOperations ==
  ASSUME FullInv, ConstantsAssumption, PolicyInv,
         \/ \E value \in Policy : UpdateOrganizationPolicy(value)
         \/ \E u \in Users : \E value \in Policy \cup {"inherit"} : UpdateMemberPolicy(u, value)
  PROVE  PolicyInv'
<1>0. memberPolicy \in [Users -> Policy \cup {"inherit"}]
  BY DEF FullInv, SessionInv, TypeOK
<1>1. ASSUME NEW value \in Policy, UpdateOrganizationPolicy(value)
      PROVE  PolicyInv'
  <2> DEFINE chosen == IF value = "desktop_only"
                         THEN WebRowsUnder(value, memberPolicy, Users) ELSE {}
  <2>1. UNCHANGED <<req, memberPolicy>> /\ PolicyLockFree(Users) /\ CloseUnended(chosen)
        /\ orgPolicy' = value
    BY <1>1 DEF UpdateOrganizationPolicy, adminUnchanged
  <2>2. \A i \in chosen : i \in SessionIds /\ Exists(i)
    BY DEF WebRowsUnder
  <2>3. ASSUME NEW u \in Users, EffectivePolicy(u)' = "desktop_only",
               EffectivePolicy(u) # "desktop_only",
               NEW i \in SessionIds, Exists(i), UserOf(i) = u,
               Kind[sessions[i].device] # "desktop"
        PROVE  i \in chosen
    BY <2>1, <2>3 DEF EffectivePolicy, WebRowsUnder
  <2> HIDE DEF chosen
  <2> QED BY <2>1, <2>2, <2>3, PolicyUpdates
<1>2. ASSUME NEW u \in Users, NEW value \in Policy \cup {"inherit"}, UpdateMemberPolicy(u, value)
      PROVE  PolicyInv'
  <2> DEFINE member == [memberPolicy EXCEPT ![u] = value]
  <2> DEFINE chosen == WebRowsUnder(orgPolicy, member, {u})
  <2>1. UNCHANGED <<req, orgPolicy>> /\ PolicyLockFree({u}) /\ CloseUnended(chosen)
        /\ memberPolicy' = member
    BY <1>2 DEF UpdateMemberPolicy, adminUnchanged
  <2>2. \A i \in chosen : i \in SessionIds /\ Exists(i)
    BY DEF WebRowsUnder
  <2>3. ASSUME NEW v \in Users, EffectivePolicy(v)' = "desktop_only",
               EffectivePolicy(v) # "desktop_only"
        PROVE  /\ v = u
               /\ \A i \in SessionIds : Exists(i) /\ UserOf(i) = v
                    /\ Kind[sessions[i].device] # "desktop" => i \in chosen
    <3>1. v = u
      BY <1>0, <2>1, <2>3 DEF EffectivePolicy
    <3> QED BY <2>1, <2>3, <3>1 DEF EffectivePolicy, WebRowsUnder
  <2> HIDE DEF chosen, member
  <2> QED BY <2>1, <2>2, <2>3, PolicyUpdates
<1> QED BY <1>1, <1>2

\* A commit starts time on its own device only, which the policy allows.
LEMMA CommitKeepsPolicy ==
  ASSUME FullInv, ConstantsAssumption, PolicyInv, NEW r \in Requests, Commit(r)
  PROVE  PolicyInv'
<1>0. /\ TypeOK /\ InTransaction(r) /\ CountsExactlyWhileActive /\ SegmentsHaveRows
      /\ UNCHANGED <<orgPolicy, memberPolicy>>
  BY DEF FullInv, SessionInv, CountingInv, InTransaction, Commit, policyVars
<1>1. PICK previous \in Previous(req[r].ev) :
        \/ CommitStop(r, previous)
        \/ CommitInsert(r, previous)
        \/ CommitUpdate(r, previous)
  BY DEF Commit
<1>2. PolicyStands'
  <2>1. \A q \in Requests : InTransaction(q)' => InTransaction(q) /\ req'[q] = req[q]
    BY <1>0, AnswerFacts DEF Commit, InTransaction
  <2> QED BY <1>0, <2>1 DEF PolicyInv, PolicyStands, EffectivePolicy
<1>3. ASSUME NEW h \in segments', OpenSegment(h), ~Revived(h.session)', h \notin overlooked',
             EffectivePolicy(UserOf(h.session)') = "desktop_only"
      PROVE  Kind[SegmentDevice(h)'] = "desktop"
  <2>1. CASE KeptBy(r, previous, h)
    <3>1. /\ h \in segments /\ h \notin overlooked
          /\ sessions'[h.session].ended = sessions[h.session].ended
          /\ sessions'[h.session].device = sessions[h.session].device
      BY <1>3, <2>1 DEF KeptBy, SegmentDevice, Commit, Settle
    <3>2. IsOpen(h.session) /\ IsOpen(h.session)'
      <4>1. SessionInv'
        BY CommitKeepsInv DEF FullInv
      <4>2. CountsExactlyWhileActive' /\ SegmentsHaveRows'
        BY <4>1, CommitKeepsCounting DEF FullInv, CountingInv
      <4> QED BY <1>0, <1>3, <3>1, <4>2 DEF IsOpen, OpenStatus, CountsExactlyWhileActive,
                 SegmentsHaveRows, OpenSegment
    <3>3. ~Revived(h.session)
      BY <1>3, <3>1, <3>2 DEF Revived
    <3>4. UserOf(h.session)' = UserOf(h.session) /\ SegmentDevice(h)' = SegmentDevice(h)
      BY <3>1 DEF UserOf, SegmentDevice
    <3> QED BY <1>3, <3>1, <3>3, <3>4 DEF PolicyInv, DesktopOnlyEnforced
  <2>2. CASE StartedBy(r, previous, h)
    <3>1. /\ UserOf(h.session)' = Owner[req[r].ev.device]
          /\ SegmentDevice(h)' = req[r].ev.device /\ req[r].ev.status = "active"
      BY <2>2 DEF StartedBy, SegmentDevice, UserOf
    <3> QED BY <1>0, <1>3, <3>1 DEF PolicyInv, PolicyStands
  <2>3. ~EndedBy(r, previous, h)
    <3> SUFFICES ASSUME NEW g \in segments, EndedFrom(r, previous, h, g)
                 PROVE  FALSE
      BY DEF EndedBy
    <3> DEFINE u == EndTime(r, previous, g)
    <3>1. g \in Segment /\ g.from \in Nat
      BY <1>0 DEF TypeOK, Segment
    <3>2. Later(g.from, u) \in Nat
      BY <3>1, LaterType DEF EndedFrom
    <3>3. h.to = Later(g.from, u)
      BY <3>1 DEF EndedFrom, Segment
    <3> QED BY <1>3, <3>2, <3>3 DEF OpenSegment, Open
  <2> QED BY <1>0, <1>1, <2>1, <2>2, <2>3, CommitSegments
<1> QED
  <2>1. \A u : EffectivePolicy(u)' = EffectivePolicy(u)
    BY <1>0 DEF EffectivePolicy
  <2>2. ASSUME NEW h \in segments', OpenSegment(h)', ~Revived(h.session)', h \notin overlooked',
               EffectivePolicy(UserOf(h.session))' = "desktop_only"
        PROVE  Kind[SegmentDevice(h)'] = "desktop"
    <3>1. EffectivePolicy(UserOf(h.session)') = "desktop_only"
      BY <1>0, <2>2 DEF EffectivePolicy
    <3> QED BY <1>3, <2>2, <3>1 DEF OpenSegment
  <2> QED BY <1>2, <2>2 DEF PolicyInv, DesktopOnlyEnforced

\* A step that closes work, changes no policy and begins no transaction.
LEMMA ClosingKeepsPolicy ==
  ASSUME FullInv, PolicyInv, ClosesWork, UNCHANGED <<orgPolicy, memberPolicy>>,
         \A q \in Requests : InTransaction(q)' => InTransaction(q) /\ req'[q] = req[q]
  PROVE  PolicyInv'
<1>1. PolicyStands'
  BY DEF PolicyInv, PolicyStands, EffectivePolicy
<1>2. ASSUME NEW h \in segments', OpenSegment(h), h \notin overlooked'
      PROVE  /\ h \in segments /\ h \notin overlooked
             /\ sessions'[h.session] = sessions[h.session]
  BY <1>2 DEF ClosesWork
<1>3. DesktopOnlyEnforced'
  BY <1>2 DEF PolicyInv, DesktopOnlyEnforced, EffectivePolicy, Revived, IsOpen, Exists,
     UserOf, SegmentDevice, OpenSegment
<1> QED BY <1>1, <1>3 DEF PolicyInv

\* A transaction begins when the policy allows its event.
LEMMA BeginKeepsPolicy ==
  ASSUME FullInv, PolicyInv, NEW r \in Requests, BeginTransaction(r)
  PROVE  PolicyInv'
<1>0. TypeOK /\ UNCHANGED <<orgPolicy, memberPolicy, sessions, segments, overlooked>>
  BY DEF FullInv, SessionInv, BeginTransaction, policyVars, workVars
<1>1. ASSUME NEW q \in Requests, InTransaction(q)'
      PROVE  \/ InTransaction(q) /\ req'[q] = req[q]
             \/ q = r /\ req'[r].ev = req[r].ev
  <2>1. CASE q = r
    BY <1>0, <2>1 DEF BeginTransaction, TypeOK, Request
  <2>2. CASE q # r
    <3>1. req'[q] = req[q]
      BY <1>0, <2>2 DEF BeginTransaction, TypeOK
    <3> QED BY <1>1, <3>1 DEF InTransaction
  <2> QED BY <2>1, <2>2
<1>2. ~Disallowed(req[r].ev)
  BY DEF BeginTransaction
<1>3. PolicyStands'
  BY <1>0, <1>1, <1>2 DEF PolicyInv, PolicyStands, Disallowed, EffectivePolicy
<1>4. DesktopOnlyEnforced'
  BY <1>0 DEF PolicyInv, DesktopOnlyEnforced, EffectivePolicy, Revived, IsOpen, Exists,
     UserOf, SegmentDevice
<1> QED BY <1>3, <1>4 DEF PolicyInv

\* Quiet steps that set no policy leave both policies as they are.
LEMMA PoliciesStay ==
  ASSUME QuietStep
  PROVE  \/ \E value \in Policy : UpdateOrganizationPolicy(value)
         \/ \E u \in Users : \E value \in Policy \cup {"inherit"} : UpdateMemberPolicy(u, value)
         \/ UNCHANGED <<orgPolicy, memberPolicy>>
<1>1. CASE Tick \/ \E d \in Devices : Journal(d) \/ JournalField(d)
  BY <1>1 DEF Tick, Journal, JournalField, policyVars
<1>2. CASE Administer
  BY <1>2 DEF Administer, ArchiveTask, TaskArchived, ActivateTask, ArchiveProject,
     ProjectArchived, RestoreProject, RemoveMember, MemberRemoved, AddMember, DisableUser,
     UserDisabled, EnableUser, DisableDevice, EnableDevice, CompactReceipts, BeginClosing,
     policyVars
<1>3. ASSUME NEW r \in Requests,
             \/ \E d \in Devices : Heartbeat(r, d) \/ FieldTimer(r, d) \/ WebTimer(r, d)
             \/ Authorize(r) \/ Refuse(r) \/ EndEarly(r) \/ Rollback(r)
      PROVE  UNCHANGED <<orgPolicy, memberPolicy>>
  BY <1>3 DEF Heartbeat, FieldTimer, WebTimer, Authorize, Refuse, EndEarly, Rollback, policyVars
<1> QED BY <1>1, <1>2, <1>3 DEF QuietStep

\* Under a desktop-only policy no web or mobile device counts time, whatever
\* starts and policy changes race (the policy lock of workforce.py), except in
\* a row that an administrator ended and a commit in flight set active again, and in
\* a segment that was committed between the two statements of a close.
THEOREM DesktopOnly == Spec => []DesktopOnlyEnforced
<1>1. Init => PolicyInv
  BY DEF Init, PolicyInv, PolicyStands, DesktopOnlyEnforced, InTransaction
<1>2. ASSUME FullInv, PolicyInv, [Next]_vars
      PROVE  PolicyInv'
  <2>0. TypeOK /\ SegmentsHaveRows
    BY <1>2 DEF FullInv, CountingInv, SessionInv
  <2>1. ASSUME UNCHANGED workVars, UNCHANGED <<orgPolicy, memberPolicy>>,
               \A q \in Requests : InTransaction(q)' => InTransaction(q) /\ req'[q] = req[q]
        PROVE  PolicyInv'
    <3>1. ClosesWork
      BY <2>1 DEF workVars, ClosesWork
    <3> QED BY <1>2, <2>1, <3>1, ClosingKeepsPolicy
  <2>2. CASE UNCHANGED vars
    BY <2>1, <2>2 DEF vars, policyVars, InTransaction
  <2>3. CASE QuietStep /\ UNCHANGED <<orgPolicy, memberPolicy>>
    BY <1>2, <2>0, <2>1, <2>3, QuietStepFacts, ClosingKeepsPolicy, CloseStepFacts,
       ConstantsAssumption
  <2>4. CASE QuietStep /\ ~UNCHANGED <<orgPolicy, memberPolicy>>
    BY <1>2, <2>4, PoliciesStay, PolicyOperations, ConstantsAssumption
  <2>5. ASSUME NEW r \in Requests, BeginTransaction(r) \/ Commit(r)
        PROVE  PolicyInv'
    BY <1>2, <2>5, BeginKeepsPolicy, CommitKeepsPolicy, ConstantsAssumption
  <2> QED BY <1>2, <2>2, <2>3, <2>4, <2>5, NextSteps
<1>3. PolicyInv => DesktopOnlyEnforced
  BY DEF PolicyInv
<1> QED
  BY <1>1, <1>2, <1>3, FullInvHolds, PTL DEF Spec

-----------------------------------------------------------------------------
(***************************************************************************)
(* The time of a device that no one else of its owner's disturbs.          *)
(***************************************************************************)

\* Only the dashboard's timer sends events without an id; a tracker's event
\* leaves a receipt.
EventsHaveIds ==
  \A r \in Requests : req[r] # NoEvent /\ Kind[req[r].ev.device] # "web" => req[r].ev.id # 0

\* A segment's times are observations the server has receipts of, or earlier.
SegmentsSeen ==
  \A g \in segments : Lone(SegmentDevice(g)) =>
    \E x \in AllReceipts(SegmentDevice(g)) :
      g.from <= x.at /\ (~OpenSegment(g) => g.to <= x.at)

\* While a segment is open the newest observation is an active one.
NewestCounts ==
  \A g \in segments, z \in receipts :
    OpenSegment(g) /\ Lone(SegmentDevice(g)) /\ Newest(SegmentDevice(g)) = {z}
      => z.status = "active"

\* The instants a segment credits, an open one up to the newest observation.
Credited(g, t) ==
  /\ g.from <= t
  /\ IF OpenSegment(g) THEN \E x \in AllReceipts(SegmentDevice(g)) : t <= x.at ELSE t <= g.to
Distinct(seen) == \A x, y \in seen : x.at = y.at => x = y
Witnessed(t, seen) == \E x \in seen : x.at <= t /\ t - x.at <= Lease
CreditsAreWitnessed ==
  \A g \in segments : \A t \in Nat : \A y \in AllReceipts(SegmentDevice(g)) :
    Lone(SegmentDevice(g)) /\ Distinct(AllReceipts(SegmentDevice(g)))
      /\ Credited(g, t) /\ y.at <= t
      => Witnessed(t, AllReceipts(SegmentDevice(g)))

\* No close has stopped the session that such a device was beginning to count in.
NoneOverlooked == \A g \in overlooked : ~Lone(SegmentDevice(g))

LoneInv == /\ SegmentsSeen /\ LoneDeviceTimeDisjoint
           /\ NewestCounts /\ CreditsAreWitnessed /\ NoneOverlooked

BaseInv == NumberInv /\ FullInv

\* What is recorded of trackers that nobody else of their owner's disturbs.
TrackedTime == {g \in segments : Lone(SegmentDevice(g))}

\* No administrator ends time that such a tracker is counting, or stops the session it
\* is counted in.  They may close everything else, and a tracker that is not counting.
AdministratorsSpareTrackers ==
  \/ /\ UNCHANGED TrackedTime
     /\ \A g \in TrackedTime : OpenSegment(g) => sessions'[g.session] = sessions[g.session]
  \/ \E r \in Requests : Commit(r)

\* The device of a request keeps its event's id: it comes from the journal.
LEMMA StepKeepsIds ==
  ASSUME NumberInv, ConstantsAssumption, EventsHaveIds, [Next]_vars
  PROVE  EventsHaveIds'
<1>. USE DEF adminUnchanged, clientVars, workVars, policyVars
<1>0. TypeOK /\ EventsNumbered
  BY DEF NumberInv, ReceiptInv, SessionInv
<1>1. CASE UNCHANGED req
  BY <1>1 DEF EventsHaveIds
<1>2. CASE UNCHANGED vars \/ Tick \/ Administer \/ \E d \in Devices : Journal(d) \/ JournalField(d)
  <2>1. UNCHANGED req
    BY <1>2 DEF vars, Tick, Journal, JournalField, Administer, ArchiveTask, TaskArchived,
       ActivateTask, ArchiveProject, ProjectArchived, RestoreProject, RemoveMember,
       MemberRemoved, AddMember, DisableUser, UserDisabled, EnableUser, DisableDevice,
       EnableDevice, UpdateOrganizationPolicy, UpdateMemberPolicy, CompactReceipts,
       BeginClosing, FinishClosing
  <2> QED BY <1>1, <2>1
<1>3. ASSUME NEW r \in Requests, NEW new, req' = [req EXCEPT ![r] = new],
             new # NoEvent /\ Kind[new.ev.device] # "web" => new.ev.id # 0
      PROVE  EventsHaveIds'
  <2> SUFFICES ASSUME NEW q \in Requests, req'[q] # NoEvent, Kind[req'[q].ev.device] # "web"
               PROVE  req'[q].ev.id # 0
    BY DEF EventsHaveIds
  <2>1. req'[q] = IF q = r THEN new ELSE req[q]
    BY <1>0, <1>3 DEF TypeOK
  <2> QED BY <1>3, <2>1 DEF EventsHaveIds
<1>4. ASSUME NEW r \in Requests, NEW d \in Devices, Heartbeat(r, d)
      PROVE  EventsHaveIds'
  <2>1. req' = [req EXCEPT ![r] = Accepted(pending[d])] /\ Accepted(pending[d]).ev = pending[d]
    BY <1>4 DEF Heartbeat, Accepted
  <2>2. pending[d].id # 0
    BY <1>0, <1>4 DEF Heartbeat, EventsNumbered
  <2> QED BY <1>3, <2>1, <2>2
<1>5. ASSUME NEW r \in Requests, NEW d \in Devices, FieldTimer(r, d)
      PROVE  EventsHaveIds'
  <2>1. PICK t : req' = [req EXCEPT ![r] = Accepted([pending[d] EXCEPT !.task = t])]
    BY <1>5 DEF FieldTimer
  <2> DEFINE e == [pending[d] EXCEPT !.task = t]
  <2>2. pending[d] \in Event /\ pending[d].device = d /\ Kind[d] = "web"
    BY <1>0, <1>5 DEF FieldTimer, TypeOK, EventsNumbered
  <2>3. e.device = d /\ Accepted(e).ev = e
    BY <2>2 DEF Event, Accepted
  <2> QED BY <1>3, <2>1, <2>2, <2>3
<1>6. ASSUME NEW r \in Requests, NEW d \in Devices, WebTimer(r, d)
      PROVE  EventsHaveIds'
  <2>1. PICK s \in Reported, t \in Tasks :
          req' = [req EXCEPT ![r] = Accepted(
            [id |-> 0, device |-> d, status |-> s, task |-> t, at |-> now,
             idle |-> 0, transition |-> TRUE])]
    BY <1>6 DEF WebTimer
  <2> DEFINE e == [id |-> 0, device |-> d, status |-> s, task |-> t, at |-> now,
                   idle |-> 0, transition |-> TRUE]
  <2>2. e.device = d /\ Accepted(e).ev = e /\ Kind[d] = "web"
    BY <1>6 DEF WebTimer, Accepted
  <2> QED BY <1>3, <2>1, <2>2
<1>7. ASSUME NEW r \in Requests, Authorize(r) \/ BeginTransaction(r)
      PROVE  EventsHaveIds'
  <2>1. /\ req[r] # NoEvent /\ req'[r].ev = req[r].ev
        /\ \A q \in Requests : q # r => req'[q] = req[q]
    BY <1>0, <1>7, EventStays
  <2> QED BY <2>1 DEF EventsHaveIds
<1>8. ASSUME NEW r \in Requests, Refuse(r) \/ EndEarly(r) \/ Commit(r) \/ Rollback(r)
      PROVE  EventsHaveIds'
  <2>1. req' = [req EXCEPT ![r] = NoEvent]
    BY <1>8 DEF Refuse, EndEarly, Commit, Rollback, Answer
  <2> QED BY <1>3, <2>1
<1> QED
  BY <1>2, <1>4, <1>5, <1>6, <1>7, <1>8 DEF Next, Serve

\* What a tracker's commit records, and what it goes by.
LEMMA CommitReceipt ==
  ASSUME BaseInv, ConstantsAssumption, NEW r \in Requests, InTransaction(r),
         NEW d, d = req[r].ev.device, req[r].ev.id # 0,
         NEW previous \in Previous(req[r].ev), Record(req[r].ev, previous)
  PROVE  LET t == Observed(req[r].ev, previous)
         IN /\ \E x \in Receipt :
                 /\ x.device = d /\ x.at = t /\ x.status = req[r].ev.status
                 /\ x \notin receipts /\ receipts' = receipts \cup {x}
                 /\ AllReceipts(d)' = AllReceipts(d) \cup {x}
            /\ \A c \in Devices : c # d => /\ AllReceipts(c)' = AllReceipts(c)
                                           /\ Newest(c)' = Newest(c)
            /\ t \in Nat /\ previous.at \in Nat /\ previous.at <= t /\ d \in Devices
            /\ \A y \in AllReceipts(d) : /\ y.at \in Nat /\ y.at <= previous.at /\ y.at <= t
                                         /\ previous \in Newest(d)
<1> DEFINE e == req[r].ev
<1> DEFINE t == Observed(e, previous)
<1> DEFINE x == [id |-> e.id, device |-> d, status |-> e.status, at |-> t]
<1>0. /\ TypeOK /\ NewestExists /\ ~Duplicate(e) /\ e \in Event /\ d \in Devices
      /\ previous \in Receipt /\ t \in Nat
  BY StoppingFacts DEF BaseInv, NumberInv, ReceiptInv, SessionInv, FreshInTransaction,
     TypeOK, InTransaction, Request, Event
<1>1. previous.at \in Nat /\ e.at \in Nat /\ previous.at <= t
  BY <1>0 DEF Observed, Later, Receipt, Event
<1>2. receipts' = receipts \cup {x} /\ x \in Receipt
  BY <1>0 DEF Record, Receipt, Event
<1>3. x.device = d /\ x.at = t /\ x.status = e.status /\ x.id = e.id
  OBVIOUS
<1> HIDE DEF x
<1>4. x \notin receipts
  BY <1>0, <1>3 DEF Duplicate
<1>5. AllReceipts(d)' = AllReceipts(d) \cup {x}
  BY <1>2, <1>3 DEF AllReceipts
<1>6. \A c \in Devices : c # d => AllReceipts(c)' = AllReceipts(c) /\ Newest(c)' = Newest(c)
  BY <1>2, <1>3 DEF AllReceipts, Newest
<1>7. ASSUME NEW y \in AllReceipts(d)
      PROVE  y.at \in Nat /\ y.at <= previous.at /\ y.at <= t /\ previous \in Newest(d)
  <2>1. Newest(d) # {}
    BY <1>0, <1>7 DEF NewestExists
  <2>2. previous \in Newest(d)
    BY <2>1 DEF Previous
  <2>3. y.at \in Nat /\ y.at <= previous.at
    BY <1>0, <1>7, <2>2 DEF Newest, AllReceipts, TypeOK, Receipt
  <2> QED BY <1>0, <1>1, <2>2, <2>3
<1> QED BY <1>0, <1>1, <1>2, <1>3, <1>4, <1>5, <1>6, <1>7

\* On a device with no one beside it, a segment of another device's commit stays.
LEMMA LoneSegments ==
  ASSUME BaseInv, ConstantsAssumption, NEW r \in Requests, InTransaction(r),
         NEW d, d = req[r].ev.device,
         NEW previous \in Previous(req[r].ev),
         \/ CommitStop(r, previous)
         \/ CommitInsert(r, previous)
         \/ CommitUpdate(r, previous),
         NEW h \in segments', Lone(SegmentDevice(h)')
  PROVE  \/ KeptBy(r, previous, h)
         \/ SegmentDevice(h)' = d /\ (EndedBy(r, previous, h) \/ StartedBy(r, previous, h))
<1>0. FullInv /\ d \in Devices
  BY DEF BaseInv, FullInv, SessionInv, TypeOK, InTransaction, Request, Event
<1>1. ASSUME NEW g \in segments, EndedFrom(r, previous, h, g)
      PROVE  SegmentDevice(h)' = d
  BY <1>0, <1>1 DEF EndedFrom, Lone
<1>2. StartedBy(r, previous, h) => SegmentDevice(h)' = d
  BY DEF StartedBy
<1> QED BY <1>0, <1>1, <1>2, CommitSegments DEF EndedBy

\* A segment the commit ends on the reporting device.
LEMMA EndedFacts ==
  ASSUME BaseInv, SegmentsSeen, ConstantsAssumption, NEW r \in Requests, InTransaction(r),
         NEW d, d = req[r].ev.device, Lone(d), req[r].ev.id # 0,
         NEW previous \in Previous(req[r].ev), Record(req[r].ev, previous),
         NEW h, SegmentDevice(h)' = d,
         NEW g \in segments, EndedFrom(r, previous, h, g)
  PROVE  LET t == Observed(req[r].ev, previous)
         IN /\ OpenSegment(g) /\ ~OpenSegment(h) /\ SegmentDevice(g) = d
            /\ h.from = g.from /\ h.from \in Nat /\ h.to \in Nat /\ h.to <= t
            /\ g.from <= previous.at
            /\ EndsOwnSegment(r, previous)
            /\ previous.status = "active" /\ h.to > g.from => h.to - previous.at <= Lease
            /\ AllReceipts(d) # {}
<1> DEFINE t == Observed(req[r].ev, previous)
<1> DEFINE u == EndTime(r, previous, g)
<1>1. g \in Segment /\ g.from \in Nat
  BY DEF BaseInv, FullInv, SessionInv, TypeOK, Segment
<1>2. /\ OpenSegment(g) /\ h = [g EXCEPT !.to = Later(g.from, u)] /\ u \in Int
      /\ SegmentDevice(g) = d /\ EndsOwnSegment(r, previous) /\ u <= t
      /\ previous.status = "active" => u - previous.at <= Lease
  BY DEF EndedFrom
<1> HIDE DEF u
<1>3. h.from = g.from /\ h.to = Later(g.from, u)
  BY <1>1, <1>2 DEF Segment
<1>4. h.to \in Nat /\ ~OpenSegment(h)
  BY <1>1, <1>2, <1>3, LaterType DEF OpenSegment, Open
<1>5. PICK y \in AllReceipts(d) : g.from <= y.at
  BY <1>2 DEF SegmentsSeen
<1>6. y.at \in Nat /\ y.at <= previous.at /\ previous.at \in Nat /\ t \in Nat /\ previous.at <= t
  BY <1>5, CommitReceipt
<1>7. g.from <= previous.at /\ h.to <= t
  BY <1>1, <1>2, <1>3, <1>5, <1>6 DEF Later
<1>8. previous.status = "active" /\ h.to > g.from => h.to - previous.at <= Lease
  BY <1>1, <1>2, <1>3, <1>6 DEF Later
<1> QED BY <1>1, <1>2, <1>3, <1>4, <1>5, <1>7, <1>8

\* After a commit every time of a segment is at or behind some receipt.
LEMMA CommitKeepsSeen ==
  ASSUME BaseInv, SegmentsSeen, EventsHaveIds, ConstantsAssumption,
         NEW r \in Requests, InTransaction(r), NEW previous \in Previous(req[r].ev),
         \/ CommitStop(r, previous)
         \/ CommitInsert(r, previous)
         \/ CommitUpdate(r, previous),
         Record(req[r].ev, previous)
  PROVE  SegmentsSeen'
<1> SUFFICES ASSUME NEW h \in segments', Lone(SegmentDevice(h)')
             PROVE  \E x \in AllReceipts(SegmentDevice(h))' :
                      h.from <= x.at /\ (~OpenSegment(h) => h.to <= x.at)
  BY DEF SegmentsSeen, Lone, OpenSegment
<1>0. TypeOK /\ SegmentsHaveRows
  BY DEF BaseInv, FullInv, SessionInv, CountingInv
<1>1. PICK d : d = req[r].ev.device
  OBVIOUS
<1>2. CASE SegmentDevice(h)' # d
  <2>1. KeptBy(r, previous, h)
    BY <1>1, <1>2, LoneSegments
  <2>2. h \in segments /\ SegmentDevice(h)' = SegmentDevice(h)
    BY <2>1 DEF KeptBy
  <2>3. SegmentDevice(h) \in Devices
    BY <1>0, <2>2 DEF SegmentDevice, SegmentsHaveRows, Exists, TypeOK, Session
  <2>4. AllReceipts(SegmentDevice(h))' = {x \in receipts' : x.device = SegmentDevice(h)}
    BY <2>2 DEF AllReceipts
  <2>5. AllReceipts(SegmentDevice(h)) \subseteq AllReceipts(SegmentDevice(h))'
    BY <2>4 DEF Record, AllReceipts
  <2> QED BY <2>2, <2>5 DEF SegmentsSeen
<1>3. CASE SegmentDevice(h)' = d
  <2> DEFINE t == Observed(req[r].ev, previous)
  <2>1. req[r].ev.id # 0
    BY <1>1, <1>3 DEF EventsHaveIds, InTransaction, Lone
  <2>2. PICK x \in receipts' : x.device = d /\ x.at = t
    BY <1>1, <2>1, CommitReceipt
  <2>3. t \in Nat /\ \A y \in AllReceipts(d) : y.at \in Nat /\ y.at <= t
    BY <1>1, <2>1, CommitReceipt
  <2> HIDE DEF t
  <2>4. x \in AllReceipts(SegmentDevice(h))'
    BY <1>3, <2>2 DEF AllReceipts
  <2>5. h.from <= t /\ (~OpenSegment(h) => h.to <= t)
    <3>1. CASE KeptBy(r, previous, h)
      <4>1. h \in segments /\ SegmentDevice(h) = d
        BY <1>3, <3>1 DEF KeptBy
      <4>2. PICK y \in AllReceipts(d) : h.from <= y.at /\ (~OpenSegment(h) => h.to <= y.at)
        BY <1>3, <4>1 DEF SegmentsSeen
      <4>3. h.from \in Nat /\ (~OpenSegment(h) => h.to \in Nat)
        BY <1>0, <4>1 DEF TypeOK, Segment, OpenSegment
      <4> QED BY <2>3, <4>2, <4>3
    <3>2. ASSUME NEW g \in segments, EndedFrom(r, previous, h, g)
          PROVE  h.from <= t /\ (~OpenSegment(h) => h.to <= t)
      <4>1. /\ h.from = g.from /\ h.from \in Nat /\ h.to <= t /\ g.from <= previous.at
            /\ previous.at \in Nat /\ previous.at <= t
        BY <1>1, <1>3, <2>1, <3>2, EndedFacts, CommitReceipt DEF t
      <4> QED BY <2>3, <4>1
    <3>3. CASE StartedBy(r, previous, h)
      BY <2>3, <3>3 DEF StartedBy, t
    <3> QED BY <1>1, <3>1, <3>2, <3>3, LoneSegments DEF EndedBy
  <2> QED BY <2>2, <2>4, <2>5
<1> QED BY <1>2, <1>3

\* Two open segments of a device are one: of one session, started by one event.
LEMMA StartedOnce ==
  ASSUME FullInv', ConstantsAssumption, NEW r \in Requests, NEW previous,
         NEW g \in segments', NEW h \in segments', g \notin overlooked', h \notin overlooked',
         SegmentDevice(g)' = SegmentDevice(h)', StartedBy(r, previous, g), StartedBy(r, previous, h)
  PROVE  g = h
<1>0. /\ TypeOK' /\ OneOpenSessionPerUser' /\ SegmentsHaveRows' /\ CountsExactlyWhileActive'
  BY DEF FullInv, SessionInv, CountingInv
<1>1. g \in Segment /\ h \in Segment
  BY <1>0 DEF TypeOK
<1>2. g.from = h.from /\ g.to = h.to
  BY DEF StartedBy, OpenSegment
<1>3. IsOpen(g.session)' /\ IsOpen(h.session)' /\ UserOf(g.session)' = UserOf(h.session)'
  BY <1>0 DEF StartedBy, IsOpen, OpenStatus, SegmentsHaveRows, CountsExactlyWhileActive,
     UserOf, SegmentDevice, OpenSegment
<1>4. g.session = h.session
  BY <1>0, <1>3 DEF OneOpenSessionPerUser, SegmentsHaveRows
<1> QED BY <1>1, <1>2, <1>4 DEF Segment

\* How two segments follow each other.
Before(g, h) == ~OpenSegment(g) /\ g.to <= h.from

\* A commit keeps the segments of an undisturbed device apart.
LEMMA CommitKeepsDisjoint ==
  ASSUME BaseInv, FullInv', SegmentsSeen, LoneDeviceTimeDisjoint, EventsHaveIds,
         NoneOverlooked, NoneOverlooked', ConstantsAssumption, NEW r \in Requests, InTransaction(r),
         NEW previous \in Previous(req[r].ev),
         \/ CommitStop(r, previous)
         \/ CommitInsert(r, previous)
         \/ CommitUpdate(r, previous),
         Record(req[r].ev, previous)
  PROVE  LoneDeviceTimeDisjoint'
<1>0. TypeOK
  BY DEF BaseInv, FullInv, SessionInv
<1>1. PICK d : d = req[r].ev.device
  OBVIOUS
<1> DEFINE t == Observed(req[r].ev, previous)
<1> DEFINE Kept(h) == KeptBy(r, previous, h)
<1> DEFINE Ended(h) == EndedBy(r, previous, h)
<1> DEFINE Started(h) == StartedBy(r, previous, h)
<1>2. ASSUME NEW g \in segments', NEW h \in segments', g # h,
             SegmentDevice(g)' = SegmentDevice(h)', Lone(SegmentDevice(g)'), Kept(g), Kept(h)
      PROVE  Before(g, h) \/ Before(h, g)
  <2>1. g \in segments /\ h \in segments /\ SegmentDevice(g) = SegmentDevice(h)
        /\ Lone(SegmentDevice(g))
    BY <1>2 DEF KeptBy
  <2> QED BY <1>2, <2>1 DEF LoneDeviceTimeDisjoint, Before
<1>3. ASSUME NEW g \in segments', SegmentDevice(g)' = d, Lone(d)
      PROVE  \/ g \in segments /\ SegmentDevice(g) = d
                /\ (OpenSegment(g) => ~EndsOwnSegment(r, previous))
             \/ \E k \in segments : EndedFrom(r, previous, g, k)
             \/ Started(g)
  BY <1>1, <1>3, LoneSegments DEF EndedBy, KeptBy, NoneOverlooked
<1>4. ASSUME NEW h, SegmentDevice(h)' = d, Lone(d), NEW k \in segments, EndedFrom(r, previous, h, k)
      PROVE  /\ OpenSegment(k) /\ SegmentDevice(k) = d /\ ~OpenSegment(h) /\ h.from = k.from
             /\ h.to <= t /\ EndsOwnSegment(r, previous)
  <2>1. req[r].ev.id # 0
    BY <1>1, <1>4 DEF EventsHaveIds, InTransaction, Lone
  <2> QED BY <1>1, <1>4, <2>1, EndedFacts
<1>5. ASSUME NEW g \in segments, SegmentDevice(g) = d, Lone(d), ~OpenSegment(g)
      PROVE  g.to <= t
  <2>1. req[r].ev.id # 0
    BY <1>1, <1>5 DEF EventsHaveIds, InTransaction, Lone
  <2>2. PICK y \in AllReceipts(d) : g.to <= y.at
    BY <1>5 DEF SegmentsSeen
  <2>3. y.at \in Nat /\ y.at <= t /\ t \in Nat
    BY <1>1, <2>1, CommitReceipt
  <2>4. g.to \in Nat
    BY <1>0, <1>5 DEF TypeOK, Segment, OpenSegment
  <2> QED BY <2>2, <2>3, <2>4
<1> DEFINE Stays(g) == g \in segments /\ SegmentDevice(g) = d
                       /\ (OpenSegment(g) => ~EndsOwnSegment(r, previous))
<1> DEFINE Ends(g) == \E k \in segments : EndedFrom(r, previous, g, k)
<1>6. ASSUME NEW g \in segments', NEW h \in segments', Lone(d), SegmentDevice(h)' = d,
             Stays(g), Ends(h)
      PROVE  Before(g, h)
  <2>1. PICK k \in segments : EndedFrom(r, previous, h, k)
    BY <1>6
  <2>2. OpenSegment(k) /\ SegmentDevice(k) = d /\ h.from = k.from /\ EndsOwnSegment(r, previous)
    BY <1>4, <1>6, <2>1
  <2>3. ~OpenSegment(g) /\ g # k
    BY <1>6, <2>2
  <2> QED BY <1>6, <2>2, <2>3 DEF LoneDeviceTimeDisjoint, Before
<1>7. ASSUME NEW g \in segments', NEW h \in segments', Lone(d), Stays(g), Started(h)
      PROVE  Before(g, h)
  <2>1. ~OpenSegment(g) /\ h.from = t
    BY <1>1, <1>7 DEF StartedBy, NoneOverlooked
  <2> QED BY <1>5, <1>7, <2>1 DEF Before
<1>8. ASSUME NEW g \in segments', NEW h \in segments', Lone(d), SegmentDevice(g)' = d,
             SegmentDevice(h)' = d, Ends(g), Ends(h)
      PROVE  g = h
  <2>1. PICK j \in segments : EndedFrom(r, previous, g, j)
    BY <1>8
  <2>2. PICK k \in segments : EndedFrom(r, previous, h, k)
    BY <1>8
  <2>3. OpenSegment(j) /\ SegmentDevice(j) = d /\ OpenSegment(k) /\ SegmentDevice(k) = d
    BY <1>4, <1>8, <2>1, <2>2
  <2>4. j = k
    BY <1>8, <2>3 DEF LoneDeviceTimeDisjoint
  <2> QED BY <2>1, <2>2, <2>4 DEF EndedFrom
<1>9. ASSUME NEW g \in segments', NEW h \in segments', Lone(d), SegmentDevice(g)' = d,
             Ends(g), Started(h)
      PROVE  Before(g, h)
  <2>1. ~OpenSegment(g) /\ g.to <= t
    BY <1>4, <1>9
  <2> QED BY <2>1, <1>9 DEF StartedBy, Before
<1>10. ASSUME NEW g \in segments', NEW h \in segments', g # h,
              SegmentDevice(g)' = d, SegmentDevice(h)' = d, Lone(d)
       PROVE  Before(g, h) \/ Before(h, g)
  <2>1. Stays(g) \/ Ends(g) \/ Started(g)
    BY <1>3, <1>10
  <2>2. Stays(h) \/ Ends(h) \/ Started(h)
    BY <1>3, <1>10
  <2>3. CASE Stays(g) /\ Stays(h)
    BY <1>10, <2>3 DEF LoneDeviceTimeDisjoint, Before
  <2>4. CASE Started(g) /\ Started(h)
    <3>1. g \notin overlooked' /\ h \notin overlooked'
      BY <1>10 DEF NoneOverlooked, Lone
    <3> QED BY <1>10, <2>4, <3>1, StartedOnce
  <2> HIDE DEF Stays, Ends, Started, Before
  <2> QED BY <1>6, <1>7, <1>8, <1>9, <1>10, <2>1, <2>2, <2>3, <2>4
<1>11. ASSUME NEW g \in segments', NEW h \in segments', g # h,
              SegmentDevice(g)' = SegmentDevice(h)', Lone(SegmentDevice(g)')
       PROVE  Before(g, h) \/ Before(h, g)
  <2>1. CASE SegmentDevice(g)' = d
    BY <1>10, <1>11, <2>1
  <2>2. CASE SegmentDevice(g)' # d
    <3>1. Kept(g) /\ Kept(h)
      BY <1>1, <1>11, <2>2, LoneSegments
    <3> QED BY <1>2, <1>11, <3>1
  <2> QED BY <2>1, <2>2
<1> QED BY <1>11 DEF LoneDeviceTimeDisjoint, Before, Lone, OpenSegment

\* The newest receipt is the one the commit adds; an open segment means that it
\* is of an active event.
LEMMA CommitKeepsNewest ==
  ASSUME BaseInv, SegmentsSeen, NewestCounts, EventsHaveIds, NoneOverlooked,
         ConstantsAssumption, NEW r \in Requests, InTransaction(r),
         NEW previous \in Previous(req[r].ev),
         \/ CommitStop(r, previous)
         \/ CommitInsert(r, previous)
         \/ CommitUpdate(r, previous),
         Record(req[r].ev, previous)
  PROVE  NewestCounts'
<1>0. TypeOK /\ SegmentsHaveRows
  BY DEF BaseInv, FullInv, SessionInv, CountingInv
<1>1. PICK d : d = req[r].ev.device
  OBVIOUS
<1> SUFFICES ASSUME NEW h \in segments', NEW z \in receipts', OpenSegment(h),
                    Lone(SegmentDevice(h)'), NEW c, c = SegmentDevice(h)', Newest(c)' = {z}
             PROVE  z.status = "active"
  <2>1. \A h \in segments' : Newest(SegmentDevice(h))' =
          {x \in receipts' : /\ x.device = SegmentDevice(h)'
                             /\ \A y \in receipts' : y.device = SegmentDevice(h)' => y.at <= x.at}
    BY DEF Newest
  <2> QED BY <2>1 DEF NewestCounts, Newest, Lone, OpenSegment
<1>2. CASE c # d
  <2>1. h \in segments /\ SegmentDevice(h) = c
    BY <1>1, <1>2, LoneSegments DEF KeptBy
  <2>2. c \in Devices
    BY <1>0, <2>1 DEF SegmentDevice, SegmentsHaveRows, Exists, TypeOK, Session
  <2>3. Newest(c) = {z} /\ z \in receipts
    <3>1. \A x \in receipts' : x.device = c => x \in receipts
      BY <1>1, <1>2 DEF Record
    <3>2. receipts \subseteq receipts'
      BY DEF Record
    <3>3. Newest(c)' = Newest(c)
      BY <3>1, <3>2 DEF Newest
    <3> QED BY <3>3 DEF Newest
  <2> QED BY <2>1, <2>3 DEF NewestCounts
<1>3. CASE c = d
  <2>1. req[r].ev.id # 0
    BY <1>1, <1>3 DEF EventsHaveIds, InTransaction, Lone
  <2>2. req[r].ev.status = "active"
    <3>1. CASE KeptBy(r, previous, h)
      BY <1>1, <1>3, <3>1 DEF KeptBy, NoneOverlooked
    <3>2. CASE StartedBy(r, previous, h)
      BY <3>2 DEF StartedBy
    <3>3. ASSUME NEW g \in segments, EndedFrom(r, previous, h, g)
          PROVE  FALSE
      BY <1>1, <1>3, <2>1, <3>3, EndedFacts
    <3> QED BY <1>1, <3>1, <3>2, <3>3, LoneSegments DEF EndedBy
  <2>3. PICK x \in Receipt : /\ x.device = d /\ x.at = Observed(req[r].ev, previous)
                             /\ x.status = req[r].ev.status
                             /\ receipts' = receipts \cup {x}
    BY <1>1, <2>1, CommitReceipt
  <2>4. \A y \in receipts' : y.device = d => y.at <= x.at
    <3>1. \A y \in AllReceipts(d) : y.at <= x.at
      BY <1>1, <2>1, <2>3, CommitReceipt
    <3>2. x.at <= x.at
      BY <1>1, <2>1, <2>3, CommitReceipt
    <3> QED BY <2>3, <3>1, <3>2 DEF AllReceipts
  <2>5. x \in Newest(c)'
    BY <1>3, <2>3, <2>4 DEF Newest
  <2> QED BY <2>2, <2>3, <2>5
<1> QED BY <1>2, <1>3

\* An instant a commit's segment credits is witnessed by the receipts it leaves.
LEMMA CommitWitness ==
  ASSUME BaseInv, LoneInv, EventsHaveIds,
         ConstantsAssumption, NEW r \in Requests, InTransaction(r),
         NEW previous \in Previous(req[r].ev),
         \/ CommitStop(r, previous)
         \/ CommitInsert(r, previous)
         \/ CommitUpdate(r, previous),
         Record(req[r].ev, previous),
         NEW h \in segments', NEW t \in Nat, NEW c, c = SegmentDevice(h)', Lone(c),
         NEW seen, seen = {x \in receipts' : x.device = c}, NEW y \in seen,
         Distinct(seen), y.at <= t, h.from <= t,
         OpenSegment(h) => \E x \in seen : t <= x.at,
         ~OpenSegment(h) => t <= h.to
  PROVE  Witnessed(t, seen)
<1>0. TypeOK /\ SegmentsHaveRows /\ FullInv /\ Lease \in Nat /\ SegmentsSeen
  BY DEF LoneInv, BaseInv, FullInv, SessionInv, CountingInv, ConstantsAssumption
<1>1. PICK d : d = req[r].ev.device
  OBVIOUS
<1>3. CASE c # d
  <2>1. h \in segments /\ SegmentDevice(h) = c
    BY <1>1, <1>3, LoneSegments DEF KeptBy
  <2>2. AllReceipts(c) = seen
    BY <1>1, <1>3 DEF Record, AllReceipts
  <2> QED BY <2>1, <2>2 DEF LoneInv, CreditsAreWitnessed, Credited
<1>4. CASE c = d
  <2> DEFINE old == AllReceipts(d)
  <2> DEFINE T == Observed(req[r].ev, previous)
  <2>0. req[r].ev.id # 0
    BY <1>1, <1>4 DEF EventsHaveIds, InTransaction, Lone
  <2>1. PICK x \in Receipt : /\ x.device = d /\ x.at = T /\ x \notin receipts
                             /\ receipts' = receipts \cup {x}
    BY <1>1, <2>0, CommitReceipt
  <2>2. /\ T \in Nat /\ previous.at \in Nat /\ previous.at <= T
        /\ \A z \in old : z.at \in Nat /\ z.at <= previous.at /\ z.at <= T /\ previous \in Newest(d)
    BY <1>1, <2>0, CommitReceipt
  <2> HIDE DEF T
  <2>3. seen = old \cup {x} /\ x \notin old
    BY <1>4, <2>1 DEF AllReceipts
  <2>4. Distinct(old) /\ \A z \in old : z.at # x.at
    BY <2>3 DEF Distinct
  <2>5. ASSUME t >= T PROVE t = T => Witnessed(t, seen)
    BY <1>0, <2>1, <2>2, <2>3 DEF Witnessed
  <2>6. \A z : Witnessed(t, old) => Witnessed(t, seen)
    BY <2>3 DEF Witnessed
  <2>7. t \in Nat /\ (y \in old \/ y.at = T)
    BY <2>1, <2>3
  \* An instant that the segment g, of before, credited already.
  <2>8. ASSUME NEW g \in segments, SegmentDevice(g) = d, Credited(g, t)
        PROVE  Witnessed(t, seen)
    <3>1. CASE y \in old
      BY <1>4, <2>4, <2>6, <2>8, <3>1 DEF LoneInv, CreditsAreWitnessed
    <3>2. CASE y.at = T
      <4>1. PICK z \in old : t <= z.at
        <5>1. CASE OpenSegment(g)
          BY <2>8, <5>1 DEF Credited
        <5>2. CASE ~OpenSegment(g)
          <6>1. PICK z \in old : g.to <= z.at
            BY <1>4, <2>8, <5>2 DEF LoneInv, SegmentsSeen
          <6>2. t <= g.to /\ g.to \in Nat
            BY <1>0, <2>8, <5>2 DEF Credited, TypeOK, Segment, OpenSegment
          <6> QED BY <2>2, <6>1, <6>2
        <5> QED BY <5>1, <5>2
      <4>2. t = T
        BY <2>2, <3>2, <4>1
      <4> QED BY <2>2, <2>5, <4>2
    <3> QED BY <2>7, <3>1, <3>2
  \* An instant between the newest observation of before and the event.
  <2>9. ASSUME \E z \in old : TRUE, previous.at < t, t - previous.at <= Lease
        PROVE  Witnessed(t, seen)
    <3>1. previous \in seen
      BY <2>2, <2>3, <2>9 DEF Newest, AllReceipts
    <3> QED BY <2>2, <2>9, <3>1 DEF Witnessed
  <2>10. ASSUME NEW g \in segments, OpenSegment(g), SegmentDevice(g) = d
         PROVE  previous.status = "active" /\ (\E z \in old : TRUE)
    <3>1. PICK z \in old : g.from <= z.at
      BY <1>4, <2>10 DEF LoneInv, SegmentsSeen
    <3>2. previous \in Newest(d) /\ previous \in receipts
      BY <2>2, <3>1 DEF Newest
    <3>3. Newest(d) = {previous}
      <4>1. ASSUME NEW w \in Newest(d) PROVE w = previous
        <5>1. w \in old /\ previous \in old
          BY <3>2, <4>1 DEF Newest, AllReceipts
        <5>2. w.at <= previous.at /\ previous.at <= w.at /\ w.at \in Nat
          BY <2>2, <3>2, <4>1, <5>1 DEF Newest, AllReceipts
        <5>3. w.at = previous.at
          BY <2>2, <5>2
        <5> QED BY <2>4, <5>1, <5>3 DEF Distinct
      <4> QED BY <3>2, <4>1
    <3>4. previous.status = "active"
      BY <1>4, <2>10, <3>2, <3>3 DEF LoneInv, NewestCounts
    <3> QED BY <3>1, <3>4
  <2>11. CASE KeptBy(r, previous, h)
    <3>1. h \in segments /\ SegmentDevice(h) = d
      BY <1>4, <2>11 DEF KeptBy
    <3>2. CASE ~OpenSegment(h)
      BY <2>8, <3>1, <3>2 DEF Credited
    <3>3. CASE OpenSegment(h)
      <4>1. ~Lapsed(r, previous) /\ previous.status = "active" /\ (\E z \in old : TRUE)
            /\ req[r].own # NoSession
        <5>1. h \notin overlooked
          BY <1>4, <3>1 DEF LoneInv, NoneOverlooked
        <5> QED BY <1>0, <1>1, <2>10, <2>11, <3>1, <3>3, <5>1, OpenIsOwn DEF KeptBy
      <4>2. ~(T - previous.at > Lease)
        BY <4>1 DEF Lapsed, T
      <4>3. t <= T
        <5>1. PICK z \in seen : t <= z.at
          BY <3>3
        <5> QED BY <2>1, <2>2, <2>3, <5>1
      <4>4. CASE t <= previous.at
        <5>1. previous \in old
          BY <2>2, <4>1 DEF Newest, AllReceipts
        <5>2. Credited(h, t)
          BY <3>1, <3>3, <4>4, <5>1 DEF Credited
        <5> QED BY <2>8, <3>1, <5>2
      <4>5. CASE ~(t <= previous.at)
        <5>1. previous.at < t /\ t - previous.at <= Lease
          BY <1>0, <2>2, <4>2, <4>3, <4>5
        <5> QED BY <2>9, <4>1, <5>1
      <4> QED BY <4>4, <4>5
    <3> QED BY <3>2, <3>3
  <2>12. ASSUME NEW g \in segments, EndedFrom(r, previous, h, g)
         PROVE  Witnessed(t, seen)
    <3>1. /\ OpenSegment(g) /\ ~OpenSegment(h) /\ SegmentDevice(g) = d
          /\ h.from = g.from /\ h.from \in Nat /\ h.to \in Nat /\ g.from <= previous.at
          /\ previous.status = "active" /\ h.to > g.from => h.to - previous.at <= Lease
      <4>1. SegmentDevice(h)' = d /\ Lone(d)
        BY <1>4
      <4> QED BY <1>0, <1>1, <2>0, <2>12, <4>1, EndedFacts, SMTT(30)
    <3>2. previous.status = "active" /\ (\E z \in old : TRUE)
      BY <2>10, <3>1
    <3>3. CASE t <= previous.at
      <4>1. previous \in old
        BY <2>2, <3>2 DEF Newest, AllReceipts
      <4>2. Credited(g, t)
        BY <3>1, <3>3, <4>1 DEF Credited
      <4> QED BY <2>8, <3>1, <4>2
    <3>4. CASE ~(t <= previous.at)
      <4>1. t <= h.to
        BY <3>1
      <4>2. h.to > g.from
        BY <2>2, <3>1, <3>4, <4>1
      <4>3. h.to - previous.at <= Lease
        BY <3>1, <3>2, <4>2
      <4>4. previous.at < t /\ t - previous.at <= Lease
        BY <1>0, <2>2, <3>1, <3>4, <4>1, <4>3
      <4> QED BY <2>9, <3>2, <4>4
    <3> QED BY <3>3, <3>4
  <2>13. CASE StartedBy(r, previous, h)
    <3>1. T <= t /\ OpenSegment(h)
      BY <2>13 DEF StartedBy, T
    <3>2. PICK z \in seen : t <= z.at
      BY <3>1
    <3>3. t = T
      BY <2>1, <2>2, <2>3, <3>1, <3>2
    <3> QED BY <2>2, <2>5, <3>3
  <2> QED BY <1>1, <1>4, <2>11, <2>12, <2>13, LoneSegments DEF EndedBy
<1> QED BY <1>3, <1>4

\* What a commit credits is within the lease of what the device reported.
LEMMA CommitKeepsWitnessed ==
  ASSUME BaseInv, LoneInv, EventsHaveIds,
         ConstantsAssumption, NEW r \in Requests, InTransaction(r),
         NEW previous \in Previous(req[r].ev),
         \/ CommitStop(r, previous)
         \/ CommitInsert(r, previous)
         \/ CommitUpdate(r, previous),
         Record(req[r].ev, previous)
  PROVE  CreditsAreWitnessed'
<1> SUFFICES ASSUME NEW h \in segments', NEW t \in Nat, NEW y \in AllReceipts(SegmentDevice(h))',
                    Lone(SegmentDevice(h))', Distinct(AllReceipts(SegmentDevice(h)))',
                    Credited(h, t)', y.at <= t
             PROVE  Witnessed(t, AllReceipts(SegmentDevice(h)))'
  BY DEF CreditsAreWitnessed
<1>1. PICK c : c = SegmentDevice(h)'
  OBVIOUS
<1>2. PICK seen : seen = {x \in receipts' : x.device = c}
  OBVIOUS
<1>3. AllReceipts(SegmentDevice(h))' = seen
  BY <1>1, <1>2 DEF AllReceipts
<1>4. Lone(c) /\ y \in seen /\ Distinct(seen)
  BY <1>1, <1>3 DEF Lone, Distinct
<1>5. /\ h.from <= t /\ (~OpenSegment(h) => t <= h.to)
      /\ OpenSegment(h) => \E x \in seen : t <= x.at
  BY <1>3 DEF Credited, OpenSegment
<1>6. Witnessed(t, seen)
  BY <1>1, <1>2, <1>4, <1>5, CommitWitness
<1> QED BY <1>3, <1>6 DEF Witnessed

\* A step that leaves what the trackers recorded alone and at most compacts.
LEMMA QuietKeepsLone ==
  ASSUME BaseInv, LoneInv, ConstantsAssumption, OnlyCloses, UNCHANGED TrackedTime,
         NoneOverlooked', UNCHANGED receipts \/ \E d \in Devices : CompactReceipts(d)
  PROVE  LoneInv'
<1>0. /\ TypeOK /\ SegmentsHaveRows /\ NewestExists /\ Lease \in Nat
  BY DEF BaseInv, NumberInv, ReceiptInv, FullInv, CountingInv, SessionInv,
     ConstantsAssumption
<1>1. \A g \in segments : /\ SegmentDevice(g)' = SegmentDevice(g)
                          /\ SegmentDevice(g) \in Devices
  BY <1>0 DEF SegmentDevice, SegmentsHaveRows, Exists, TypeOK, Session, OnlyCloses
<1>5. \A g \in segments' : Lone(SegmentDevice(g))' =>
         g \in segments /\ Lone(SegmentDevice(g))
  <2> SUFFICES ASSUME NEW g \in segments', Lone(SegmentDevice(g))'
               PROVE  g \in segments /\ Lone(SegmentDevice(g))
    OBVIOUS
  <2>1. g \in TrackedTime'
    BY DEF TrackedTime
  <2>2. g \in TrackedTime
    BY <2>1
  <2> QED BY <2>2 DEF TrackedTime
<1>2. LoneDeviceTimeDisjoint'
  BY <1>1, <1>5 DEF LoneInv, LoneDeviceTimeDisjoint, OpenSegment
<1>3. CASE UNCHANGED receipts
  <2>1. \A g \in segments : /\ AllReceipts(SegmentDevice(g))' = AllReceipts(SegmentDevice(g))
                            /\ Newest(SegmentDevice(g))' = Newest(SegmentDevice(g))
    BY <1>1, <1>3 DEF AllReceipts, Newest
  <2>2. SegmentsSeen'
    BY <1>5, <2>1 DEF LoneInv, SegmentsSeen, OpenSegment
  <2>3. NewestCounts'
    BY <1>3, <1>5, <2>1 DEF LoneInv, NewestCounts, OpenSegment
  <2>4. CreditsAreWitnessed'
    BY <1>5, <2>1 DEF LoneInv, CreditsAreWitnessed, Credited, Distinct, Witnessed, OpenSegment
  <2> QED BY <1>2, <2>2, <2>3, <2>4 DEF LoneInv
<1>4. ASSUME NEW d \in Devices, CompactReceipts(d)
      PROVE  LoneInv'
  <2>1. receipts' = receipts \ OldReceipts(d)
    BY <1>4 DEF CompactReceipts
  <2>2. ASSUME NEW c \in Devices
        PROVE  Newest(c)' = Newest(c)
    <3>1. ASSUME NEW x \in Newest(c)
          PROVE  x \in Newest(c)'
      <4>1. x \notin OldReceipts(d)
        <5>1. ASSUME NEW y \in receipts, y.device = x.device PROVE ~(y.at > x.at)
          <6>1. y.at <= x.at /\ y.at \in Nat /\ x.at \in Nat
            BY <1>0, <3>1, <5>1 DEF Newest, TypeOK, Receipt
          <6> QED BY <6>1
        <5> QED BY <5>1 DEF OldReceipts
      <4> QED BY <2>1, <3>1, <4>1 DEF Newest
    <3>2. ASSUME NEW x \in Newest(c)'
          PROVE  x \in Newest(c)
      <4>1. x \in receipts /\ x.device = c /\ x \notin OldReceipts(d)
        BY <2>1, <3>2 DEF Newest
      <4>2. CASE c # d
        <5>1. \A y \in receipts : y.device = c => y \in receipts'
          BY <2>1, <4>2 DEF OldReceipts
        <5> QED BY <3>2, <4>1, <5>1 DEF Newest
      <4>3. CASE c = d
        <5>1. ASSUME NEW y \in receipts, y.device = c PROVE y.at <= x.at
          <6>1. ~(y.at > x.at) /\ y.at \in Nat /\ x.at \in Nat
            BY <1>0, <4>1, <4>3, <5>1 DEF OldReceipts, TypeOK, Receipt
          <6> QED BY <6>1
        <5> QED BY <4>1, <5>1 DEF Newest
      <4> QED BY <4>2, <4>3
    <3> QED BY <3>1, <3>2
  <2>3. SegmentsSeen'
    <3> SUFFICES ASSUME NEW g \in segments, Lone(SegmentDevice(g))
                 PROVE  \E x \in AllReceipts(SegmentDevice(g))' :
                          g.from <= x.at /\ (~OpenSegment(g) => g.to <= x.at)
      BY <1>5 DEF SegmentsSeen, OpenSegment, SegmentDevice
    <3>1. PICK c \in Devices : c = SegmentDevice(g)
      BY <1>1
    <3>2. PICK x \in AllReceipts(c) : g.from <= x.at /\ (~OpenSegment(g) => g.to <= x.at)
      BY <3>1 DEF LoneInv, SegmentsSeen
    <3>3. PICK n : n \in Newest(c)
      BY <1>0, <3>2 DEF NewestExists
    <3>4. n \in AllReceipts(SegmentDevice(g))'
      <4>1. n \in Newest(c)'
        BY <2>2, <3>3
      <4> QED BY <1>1, <3>1, <4>1 DEF Newest, AllReceipts
    <3>5. /\ x.at <= n.at /\ x.at \in Nat /\ n.at \in Nat
          /\ g.from \in Nat /\ (~OpenSegment(g) => g.to \in Nat)
      BY <1>0, <3>2, <3>3 DEF Newest, AllReceipts, TypeOK, Receipt, Segment, OpenSegment
    <3> QED BY <3>2, <3>4, <3>5
  <2>4. NewestCounts'
    <3>1. \A g \in segments : Newest(SegmentDevice(g))' = Newest(SegmentDevice(g))
      BY <1>1, <2>2 DEF Newest
    <3> QED BY <1>5, <2>1, <3>1 DEF LoneInv, NewestCounts, OpenSegment
  <2>5. CreditsAreWitnessed'
    <3> SUFFICES ASSUME NEW g \in segments, g \in segments', NEW t \in Nat,
                        NEW y \in AllReceipts(SegmentDevice(g))',
                        Lone(SegmentDevice(g))', Distinct(AllReceipts(SegmentDevice(g)))',
                        Credited(g, t)', y.at <= t
                 PROVE  Witnessed(t, AllReceipts(SegmentDevice(g)))'
      BY <1>5 DEF CreditsAreWitnessed
    <3>1. PICK c \in Devices : c = SegmentDevice(g) /\ c = SegmentDevice(g)'
      BY <1>1
    <3>2. AllReceipts(SegmentDevice(g))' = AllReceipts(c)'
      BY <3>1 DEF AllReceipts
    <3>3. CASE c # d
      <4>1. AllReceipts(SegmentDevice(g))' = AllReceipts(SegmentDevice(g))
        BY <2>1, <3>1, <3>2, <3>3 DEF AllReceipts, OldReceipts
      <4> QED BY <1>1, <4>1 DEF LoneInv, CreditsAreWitnessed, Credited, Distinct, Witnessed,
                 OpenSegment, Lone
    \* What compaction leaves of the device is of the time of its newest receipt.
    <3>4. CASE c = d
      <4>1. \A x \in AllReceipts(c)' : x \in receipts /\ x.device = c /\ x.at = y.at /\ x.at \in Nat
        <5> SUFFICES ASSUME NEW x \in AllReceipts(c)'
                     PROVE  x \in receipts /\ x.device = c /\ x.at = y.at /\ x.at \in Nat
          OBVIOUS
        <5>1. x \in receipts \ OldReceipts(c) /\ y \in receipts \ OldReceipts(c)
              /\ x.device = c /\ y.device = c
          BY <2>1, <3>2, <3>4 DEF AllReceipts
        <5>2. x.at \in Nat /\ y.at \in Nat /\ ~(x.at > y.at) /\ ~(y.at > x.at)
          BY <1>0, <5>1 DEF OldReceipts, TypeOK, Receipt
        <5> QED BY <5>1, <5>2
      <4>2. t <= y.at
        <5>1. CASE OpenSegment(g)
          <6>1. PICK x \in AllReceipts(c)' : t <= x.at
            BY <3>2, <5>1 DEF Credited, OpenSegment
          <6> QED BY <4>1, <6>1
        <5>2. CASE ~OpenSegment(g)
          <6>1. PICK x \in AllReceipts(c)' : g.to <= x.at
            BY <2>3, <3>2, <5>2 DEF SegmentsSeen, OpenSegment
          <6>2. t <= g.to /\ g.to \in Nat
            BY <1>0, <5>2 DEF Credited, TypeOK, Segment, OpenSegment
          <6> QED BY <4>1, <6>1, <6>2
        <5> QED BY <5>1, <5>2
      <4>3. t = y.at /\ y.at \in Nat
        BY <3>2, <4>1, <4>2
      <4>4. y.at <= t /\ t - y.at <= Lease
        BY <1>0, <4>3
      <4> QED BY <4>4 DEF Witnessed
    <3> QED BY <3>3, <3>4
  <2> QED BY <1>2, <2>3, <2>4, <2>5 DEF LoneInv
<1> QED BY <1>3, <1>4

\* While administrators spare the trackers, no close overlooks a segment of theirs.
LEMMA StepOverlooksNone ==
  ASSUME BaseInv, LoneInv, ConstantsAssumption, OnlyCloses, [Next]_vars,
         ~(\E r \in Requests : Commit(r)), [AdministratorsSpareTrackers]_vars
  PROVE  NoneOverlooked'
<1>0. /\ FullInv /\ TypeOK /\ SegmentsHaveRows /\ CountsExactlyWhileActive
      /\ overlooked \subseteq segments /\ NoneOverlooked
  BY DEF BaseInv, LoneInv, FullInv, SessionInv, CountingInv, SeenStands
<1>1. \A g \in segments : SegmentDevice(g)' = SegmentDevice(g)
  BY <1>0 DEF SegmentDevice, SegmentsHaveRows, OnlyCloses
<1>2. ASSUME overlooked' \subseteq overlooked
      PROVE  NoneOverlooked'
  BY <1>0, <1>1, <1>2 DEF NoneOverlooked, Lone
<1>3. ASSUME NEW a \in Admins, NEW op, FinishClosing(a, op), ~UNCHANGED vars
      PROVE  NoneOverlooked'
  <2> DEFINE c == admin[a]
  <2>1. overlooked' \subseteq overlooked \cup LeftOpen(c)
    BY <1>3 DEF FinishClosing
  <2>2. ASSUME NEW g \in LeftOpen(c), Lone(SegmentDevice(g))
        PROVE  FALSE
    <3>1. g \in segments /\ OpenSegment(g) /\ g.session \in ClosedRows(c)
      BY <2>2 DEF LeftOpen
    <3>2. sessions'[g.session] = sessions[g.session]
      BY <1>3, <2>2, <3>1 DEF AdministratorsSpareTrackers, TrackedTime
    <3>3. sessions'[g.session].status = "stopped"
      BY <1>0, <1>3, <3>1, FinishedRows DEF SegmentsHaveRows
    <3>4. sessions[g.session].status = "active"
      BY <1>0, <2>2, <3>1 DEF NoneOverlooked, CountsExactlyWhileActive
    <3> QED BY <3>2, <3>3, <3>4
  <2>3. \A g \in LeftOpen(c) : g \in segments
    BY DEF LeftOpen
  <2> QED BY <1>0, <1>1, <2>1, <2>2, <2>3 DEF NoneOverlooked, Lone
<1>4. CASE UNCHANGED vars
  BY <1>2, <1>4 DEF vars, workVars
<1>5. CASE QuietStep /\ ~UNCHANGED vars
  <2>1. CASE UNCHANGED workVars
    BY <1>2, <2>1 DEF workVars
  <2>2. ASSUME NEW chosen, CloseUnended(chosen) \/ CloseOpen(chosen)
        PROVE  NoneOverlooked'
    BY <1>2, <2>2 DEF CloseUnended, CloseOpen, Settle
  <2>3. ASSUME NEW a \in Admins, NEW op, NEW of, BeginClosing(a, op, of)
        PROVE  NoneOverlooked'
    BY <1>2, <2>3 DEF BeginClosing
  <2> QED BY <1>0, <1>3, <1>5, <2>1, <2>2, <2>3, QuietStepFacts DEF CloseStep
<1>6. ASSUME NEW r \in Requests, BeginTransaction(r)
      PROVE  NoneOverlooked'
  BY <1>2, <1>6 DEF BeginTransaction, workVars
<1> QED BY <1>4, <1>5, <1>6, NextSteps

\* What a device is credited with stays disjoint and witnessed through every
\* commit, and everything else leaves it alone.
LEMMA StepKeepsLone ==
  ASSUME BaseInv, BaseInv', EventsHaveIds, LoneInv, ConstantsAssumption,
         [Next]_vars, [AdministratorsSpareTrackers]_vars
  PROVE  LoneInv'
<1>0. TypeOK
  BY DEF BaseInv, FullInv, SessionInv
<1>1. ASSUME NEW r \in Requests, Commit(r)
      PROVE  LoneInv'
  <2>1. InTransaction(r)
    BY <1>1 DEF Commit, InTransaction
  <2>2. PICK previous \in Previous(req[r].ev) :
          \/ CommitStop(r, previous)
          \/ CommitInsert(r, previous)
          \/ CommitUpdate(r, previous)
    BY <1>1 DEF Commit
  <2>3. Record(req[r].ev, previous)
    BY <2>2 DEF CommitStop, CommitInsert, CommitUpdate
  <2>4. /\ FullInv' /\ SegmentsSeen /\ LoneDeviceTimeDisjoint /\ NewestCounts
        /\ NoneOverlooked
    BY DEF BaseInv, LoneInv
  <2>9. NoneOverlooked'
    <3>1. overlooked' = overlooked \cap segments'
      BY <1>1 DEF Commit, Settle
    <3>2. \A g \in overlooked : SegmentDevice(g)' = SegmentDevice(g)
      BY <1>0, <2>1, <2>2, CommitRows
         DEF BaseInv, FullInv, CountingInv, SeenStands, SegmentsHaveRows, SegmentDevice
    <3> QED BY <2>4, <3>1, <3>2 DEF NoneOverlooked, Lone
  <2>5. SegmentsSeen'
    BY <2>1, <2>2, <2>3, <2>4, CommitKeepsSeen
  <2>6. LoneDeviceTimeDisjoint'
    BY <2>1, <2>2, <2>3, <2>4, <2>9, CommitKeepsDisjoint
  <2>7. NewestCounts'
    BY <2>1, <2>2, <2>3, <2>4, CommitKeepsNewest
  <2>8. CreditsAreWitnessed'
    BY <2>1, <2>2, <2>3, CommitKeepsWitnessed
  <2> QED BY <2>5, <2>6, <2>7, <2>8, <2>9 DEF LoneInv
<1>2. CASE ~(\E r \in Requests : Commit(r))
  <2>1. UNCHANGED TrackedTime
    <3>1. CASE UNCHANGED vars
      BY <3>1 DEF TrackedTime, SegmentDevice, vars, workVars
    <3> QED BY <1>2, <3>1 DEF AdministratorsSpareTrackers
  <2>3. OnlyCloses
    <3>1. CASE UNCHANGED workVars
      BY <3>1, UnchangedRowsOnlyClose DEF workVars
    <3>2. CASE UNCHANGED vars
      BY <3>1, <3>2 DEF vars
    <3>3. CASE QuietStep
      BY <1>0, <3>1, <3>3, QuietStepFacts, CloseStepFacts DEF BaseInv
    <3>4. ASSUME NEW r \in Requests, BeginTransaction(r)
          PROVE  OnlyCloses
      BY <3>1, <3>4 DEF BeginTransaction
    <3> QED BY <1>2, <3>2, <3>3, <3>4, NextSteps
  <2>2. UNCHANGED receipts \/ \E d \in Devices : CompactReceipts(d)
    <3>1. CASE UNCHANGED vars
      BY <3>1 DEF vars
    <3>2. CASE QuietStep
      BY <1>0, <3>2, QuietStepFacts
    <3>3. ASSUME NEW r \in Requests, BeginTransaction(r)
          PROVE  UNCHANGED receipts
      BY <3>3 DEF BeginTransaction
    <3> QED BY <1>2, <3>1, <3>2, <3>3, NextSteps
  <2>4. NoneOverlooked'
    BY <1>2, <2>3, StepOverlooksNone
  <2> QED BY <2>1, <2>2, <2>3, <2>4, QuietKeepsLone
<1> QED BY <1>1, <1>2

\* It holds of every behaviour in which administrators spare the trackers.
LEMMA LoneInvHolds == Spec /\ [][AdministratorsSpareTrackers]_vars => []LoneInv
<1>1. Init => EventsHaveIds /\ LoneInv
  BY DEF Init, EventsHaveIds, LoneInv, SegmentsSeen, LoneDeviceTimeDisjoint, NewestCounts,
     CreditsAreWitnessed, NoneOverlooked
<1>2. Spec => []BaseInv
  BY NumberInvHolds, FullInvHolds, PTL DEF BaseInv
<1>3. ASSUME BaseInv, EventsHaveIds, [Next]_vars
      PROVE  EventsHaveIds'
  BY <1>3, StepKeepsIds, ConstantsAssumption DEF BaseInv
<1>4. ASSUME BaseInv, BaseInv', EventsHaveIds, LoneInv, [Next]_vars,
             [AdministratorsSpareTrackers]_vars
      PROVE  LoneInv'
  BY <1>4, StepKeepsLone, ConstantsAssumption
<1> QED
  BY <1>1, <1>2, <1>3, <1>4, PTL DEF Spec

\* A tracker's time is never counted twice: through pauses dated back by the
\* idle time, gaps, task switches, late copies, lost answers, compaction and
\* clocks that step back, for any number of requests and beside administrators
\* that close anything but what it is counting.  Such a close is at the server's
\* clock, which a device may be behind, or overlooks what is committed between its two
\* statements: what the device reports next overlaps.
THEOREM LoneDeviceDisjoint ==
  Spec /\ [][AdministratorsSpareTrackers]_vars => []LoneDeviceTimeDisjoint
<1>1. LoneInv => LoneDeviceTimeDisjoint
  BY DEF LoneInv
<1> QED BY <1>1, LoneInvHolds, PTL

\* A tracker's credit is within the lease of what it reported: the gap that caps
\* a segment is measured from the newest receipt whatever event ends it.
THEOREM CreditWitnessed ==
  Spec /\ [][AdministratorsSpareTrackers]_vars => []CreditIsWitnessed
<1>1. ASSUME BaseInv, LoneInv
      PROVE  CreditIsWitnessed
  <2> SUFFICES ASSUME NEW g \in segments, NEW seen, seen = AllReceipts(SegmentDevice(g)),
                      Lone(SegmentDevice(g)), \A x, y \in seen : x.at = y.at => x = y,
                      NEW t \in g.from .. g.to, NEW y \in seen, y.at <= t
               PROVE  \E x \in seen : x.at <= t /\ t - x.at <= Lease
    BY DEF CreditIsWitnessed
  <2>1. g \in Segment
    BY <1>1 DEF BaseInv, FullInv, SessionInv, TypeOK
  <2>2. t \in Nat /\ g.from <= t /\ t <= g.to /\ ~OpenSegment(g)
    BY <2>1 DEF Segment, OpenSegment, Open
  <2>3. Credited(g, t) /\ Distinct(seen)
    BY <2>2 DEF Credited, Distinct
  <2> QED BY <1>1, <2>2, <2>3 DEF LoneInv, CreditsAreWitnessed, Witnessed
<1>2. Spec => []BaseInv
  BY NumberInvHolds, FullInvHolds, PTL DEF BaseInv
<1> QED BY <1>1, <1>2, LoneInvHolds, PTL

=============================================================================
