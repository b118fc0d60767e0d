---------------------------- MODULE WorkSessions ----------------------------
(***************************************************************************)
(* The server's record of who works on what and when: the tables           *)
(* work_sessions, work_session_segments and agent_state_events, the        *)
(* handlers that write them for a device, and the administrative           *)
(* operations that close work (task archive, project archive, membership   *)
(* removal, account and device disablement, desktop-only policy).          *)
(*                                                                         *)
(* sync_work_session is not one step.  A request authenticates its device, *)
(* later checks the project, the membership and the task on connections of *)
(* their own, later opens its transaction (taking the policy lock, the     *)
(* per-user timer lock and the device row lock and reading the device's    *)
(* open session), and later writes and commits.  Between any two of these  *)
(* another request or an administrator may commit.  Nor is an              *)
(* administrator's close: it ends segments in one statement and stops rows *)
(* in a later one, each of which sees what was committed before it.        *)
(*                                                                         *)
(* Time is counted in heartbeat intervals.  Segments of a break table that *)
(* nothing reads (work_breaks), notes and timestamps of row updates are    *)
(* left out.                                                               *)
(***************************************************************************)
EXTENDS Integers, FiniteSets

CONSTANTS
  Users, Devices, Projects, Tasks,
  Owner,        \* Owner[d]: devices.owner_user_id
  Kind,         \* Kind[d]: devices.tracker_kind, web devices included
  ProjectOf,    \* ProjectOf[t]: tasks.project_id
  Requests,     \* server threads handling a request
  Admins,       \* server threads handling an administrator's close
  SessionIds,   \* the uuid4 values a session row can get
  NoSession,    \* no session row, and no session id
  NoEvent,      \* nothing journalled and unanswered on a device
  NoClosing,    \* an administrator's thread that closes nothing
  Interval,     \* heartbeat_interval_seconds, as a duration
  Lease,        \* max(90, 2 * interval)
  Skew,         \* how far a client clock may run ahead (five minutes)
  MaxTime,      \* bound on the server clock
  MaxEvents,    \* bound on the events journalled by one device
  Idles,        \* idle_seconds a pause may report
  Reported,     \* the timer states the clients of this instance report
  Pages,        \* the web pages in use: dashboard timer, field tracker
  ClockMayStepBack, \* whether a device's wall clock may repeat or step back
  AdminOps      \* the administrative operations this instance exercises

Open == -1                     \* ended_at IS NULL
OpenStatus == {"active", "paused"}
Status == OpenStatus \cup {"stopped"}
Policy == {"all", "desktop_only"}

Session == [device : Devices, task : Tasks, status : Status,
            started : Nat, ended : Nat \cup {Open}]
Segment == [session : SessionIds, from : Nat, to : Nat \cup {Open}]
\* A heartbeat or field-timer payload; id 0 is a payload without event_id.
Event == [id : Nat, device : Devices, status : Status, task : Tasks,
          at : Nat, idle : Nat, transition : BOOLEAN]
Receipt == [id : Nat, device : Devices, status : Status, at : Nat]
Request == [pc : {"authorize", "begin", "commit"}, ev : Event,
            own : SessionIds \cup {NoSession}, was : Status]
\* An administrator's close between its two statements: what it closes, the time it
\* took, and the segments of the first statement that no commit has ended since.
Closing == [op : {"task", "project", "member", "user"},
            of : Tasks \cup Projects \cup (Users \X Projects) \cup Users,
            at : Nat, seen : SUBSET Segment]

ASSUME ConstantsAssumption ==
  /\ Owner \in [Devices -> Users]
  /\ Kind \in [Devices -> {"desktop", "mobile", "web"}]
  /\ ProjectOf \in [Tasks -> Projects]
  /\ NoSession \notin SessionIds /\ NoSession \notin Session
  /\ NoEvent \notin Event /\ NoEvent \notin Request /\ NoClosing \notin Closing
  /\ Interval \in Nat \ {0} /\ Lease \in Nat /\ Lease >= Interval
  /\ Skew \in Nat /\ MaxTime \in Nat /\ MaxEvents \in Nat
  /\ Reported \subseteq Status /\ Pages \subseteq {"dashboard", "field"}
  /\ Idles \subseteq Nat /\ ClockMayStepBack \in BOOLEAN

VARIABLES
  now,            \* the server clock
  usersEnabled,   \* users.enabled
  devicesEnabled, \* devices.enabled
  projectsEnabled,\* projects.enabled
  tasksActive,    \* tasks.status = 'active'
  workers,        \* <<user, project>> with project_role worker or manager
  orgPolicy,      \* organization_settings.allowed_apps
  memberPolicy,   \* user_tracking_settings.allowed_apps, or "inherit"
  sessions,       \* work_sessions
  segments,       \* work_session_segments
  admin,          \* the administrators' closes under way
  overlooked,     \* history: segments a close left open on the rows it stopped
  receipts,       \* agent_state_events
  journalled,     \* events each device has written to its journal so far
  pending,        \* the journal head a device keeps sending until answered
  req             \* the requests the server is working on

policyVars == <<usersEnabled, devicesEnabled, projectsEnabled, tasksActive,
                workers, orgPolicy, memberPolicy>>
workVars == <<sessions, segments, admin, overlooked>>
clientVars == <<journalled, pending>>
vars == <<now, policyVars, workVars, receipts, clientVars, req>>

TypeOK ==
  /\ now \in Nat
  /\ usersEnabled \subseteq Users
  /\ devicesEnabled \subseteq Devices
  /\ projectsEnabled \subseteq Projects
  /\ tasksActive \subseteq Tasks
  /\ workers \subseteq Users \X Projects
  /\ orgPolicy \in Policy
  /\ memberPolicy \in [Users -> Policy \cup {"inherit"}]
  /\ sessions \in [SessionIds -> Session \cup {NoSession}]
  /\ segments \subseteq Segment /\ overlooked \subseteq Segment
  /\ admin \in [Admins -> Closing \cup {NoClosing}]
  /\ receipts \subseteq Receipt
  /\ journalled \in [Devices -> Nat]
  /\ pending \in [Devices -> Event \cup {NoEvent}]
  /\ req \in [Requests -> Request \cup {NoEvent}]

Init ==
  /\ now = 0
  /\ usersEnabled = Users
  /\ devicesEnabled = Devices
  /\ projectsEnabled = Projects
  /\ tasksActive = Tasks
  /\ workers = Users \X Projects
  /\ orgPolicy = "all"
  /\ memberPolicy = [u \in Users |-> "inherit"]
  /\ sessions = [i \in SessionIds |-> NoSession]
  /\ segments = {} /\ overlooked = {}
  /\ admin = [a \in Admins |-> NoClosing]
  /\ receipts = {}
  /\ journalled = [d \in Devices |-> 0]
  /\ pending = [d \in Devices |-> NoEvent]
  /\ req = [r \in Requests |-> NoEvent]

Later(a, b) == IF a >= b THEN a ELSE b

Exists(i) == sessions[i] # NoSession
IsOpen(i) == Exists(i) /\ sessions[i].status \in OpenStatus
OpenOf(d) == {i \in SessionIds : IsOpen(i) /\ sessions[i].device = d}
UserOf(i) == Owner[sessions[i].device]
OpenSegment(g) == g.to = Open
EffectivePolicy(u) ==
  IF memberPolicy[u] = "inherit" THEN orgPolicy ELSE memberPolicy[u]

-----------------------------------------------------------------------------
(***************************************************************************)
(* Closing work.                                                           *)
(***************************************************************************)

\* ended_at of every open segment of the chosen sessions, as end[i] says.
CloseSegments(chosen, end(_)) ==
  {IF OpenSegment(g) /\ g.session \in chosen
     THEN [g EXCEPT !.to = end(g)] ELSE g : g \in segments}

StopRows(chosen, end(_)) ==
  [i \in SessionIds |->
     IF i \in chosen
       THEN [sessions[i] EXCEPT !.status = "stopped", !.ended = end(i)]
       ELSE sessions[i]]

\* Once a commit has ended a segment, no close under way ends it again.
StillSeen(c) == IF c = NoClosing THEN c ELSE [c EXCEPT !.seen = @ \cap segments']
Settle == /\ admin' = [a \in Admins |-> StillSeen(admin[a])]
          /\ overlooked' = overlooked \cap segments'

\* The policy updates close rows whose ended_at IS NULL, at the server clock whatever
\* the row's own start.  They are one step: under the exclusive policy lock no
\* transaction starts time in the rows they select.
CloseUnended(chosen) ==
  LET live == {i \in chosen : sessions[i].ended = Open}
      AtNow(x) == now
  IN /\ segments' = CloseSegments(live, AtNow)
     /\ sessions' = StopRows(live, AtNow)
     /\ Settle

\* Disabling a device closes every open segment, then the rows with an open status,
\* never before their start.  It is one step: the device's row is locked first.
CloseOpen(chosen) ==
  LET SegmentEnd(g) == Later(now, g.from)
      RowEnd(i) == Later(now, sessions[i].started)
  IN /\ segments' = CloseSegments(chosen, SegmentEnd)
     /\ sessions' = StopRows({i \in chosen : IsOpen(i)}, RowEnd)
     /\ Settle

-----------------------------------------------------------------------------
(***************************************************************************)
(* Clients.  A device journals an event and sends the head of its journal  *)
(* until some answer arrives; the observation time is its own wall clock.  *)
(***************************************************************************)

HandlesEventOf(r, d) ==
  req[r] # NoEvent /\ req[r].ev.device = d /\ req[r].ev.id # 0

\* A clock that moves on is past every event of the device the server has seen.
ReadsClock(d, at) ==
  \/ ClockMayStepBack
  \/ /\ \A x \in receipts : x.device = d => x.at < at
     /\ \A r \in Requests : HandlesEventOf(r, d) => req[r].ev.at < at

Journal(d) ==
  /\ Kind[d] # "web" /\ pending[d] = NoEvent /\ journalled[d] < MaxEvents
  /\ \E s \in Reported, t \in Tasks, at \in 0 .. (now + Skew), x \in BOOLEAN :
       \E idle \in (IF s = "paused" THEN Idles ELSE {0}) :
         /\ ReadsClock(d, at)
         /\ pending' = [pending EXCEPT ![d] =
           [id |-> journalled[d] + 1, device |-> d, status |-> s, task |-> t,
            at |-> at, idle |-> idle, transition |-> x]]
  /\ journalled' = [journalled EXCEPT ![d] = @ + 1]
  /\ UNCHANGED <<now, policyVars, workVars, receipts, req>>

\* The field page journals only button presses; all of them are transitions.
JournalField(d) ==
  /\ "field" \in Pages /\ Kind[d] = "web" /\ pending[d] = NoEvent /\ journalled[d] < MaxEvents
  /\ \E s \in Reported, t \in Tasks, at \in 0 .. (now + Skew) :
       /\ ReadsClock(d, at)
       /\ pending' = [pending EXCEPT ![d] =
         [id |-> journalled[d] + 1, device |-> d, status |-> s, task |-> t,
          at |-> at, idle |-> 0, transition |-> TRUE]]
  /\ journalled' = [journalled EXCEPT ![d] = @ + 1]
  /\ UNCHANGED <<now, policyVars, workVars, receipts, req>>

-----------------------------------------------------------------------------
(***************************************************************************)
(* A request, from authentication to commit.                               *)
(***************************************************************************)

Accepted(e) == [pc |-> "authorize", ev |-> e, own |-> NoSession,
                was |-> "stopped"]

\* The device token is checked when the request arrives, and not again.  (A
\* timestamp outside the replay window is refused before anything is read.)
Heartbeat(r, d) ==
  /\ req[r] = NoEvent /\ Kind[d] # "web" /\ pending[d] # NoEvent
  /\ d \in devicesEnabled
  /\ req' = [req EXCEPT ![r] = Accepted(pending[d])]
  /\ UNCHANGED <<now, policyVars, workVars, receipts, clientVars>>

\* A signed-in worker's field event: start and resume need the web timer to be
\* allowed; pause, resume and stop apply to the running web session's work.
FieldTimer(r, d) ==
  /\ req[r] = NoEvent /\ Kind[d] = "web" /\ pending[d] # NoEvent
  /\ Owner[d] \in usersEnabled
  /\ pending[d].status = "active" => EffectivePolicy(Owner[d]) # "desktop_only"
  /\ \E t \in IF pending[d].status # "active" /\ OpenOf(d) # {}
              THEN {sessions[i].task : i \in OpenOf(d)}
              ELSE {sessions[i].task : i \in OpenOf(d)} \cup {pending[d].task} :
       req' = [req EXCEPT ![r] = Accepted([pending[d] EXCEPT !.task = t])]
  /\ UNCHANGED <<now, policyVars, workVars, receipts, clientVars>>

\* The web timer's buttons: no event id, the server's clock, always a
\* transition.  Pause, resume and stop need a running web session.
WebTimer(r, d) ==
  /\ "dashboard" \in Pages /\ req[r] = NoEvent /\ Kind[d] = "web" /\ Owner[d] \in usersEnabled
  /\ \E s \in Reported, t \in Tasks :
       /\ s = "active" => EffectivePolicy(Owner[d]) # "desktop_only"
       /\ \/ s = "active"
          \/ \E i \in OpenOf(d) : sessions[i].task = t
       /\ req' = [req EXCEPT ![r] = Accepted(
            [id |-> 0, device |-> d, status |-> s, task |-> t, at |-> now,
             idle |-> 0, transition |-> TRUE])]
  /\ UNCHANGED <<now, policyVars, workVars, receipts, clientVars>>

\* The handler returns: the answer reaches the device, which drops or
\* quarantines the event, or is lost, and the device will send it again.
Answer(r) ==
  LET d == req[r].ev.device
      answered == pending[d] # NoEvent /\ req[r].ev.id = journalled[d]
  IN /\ req' = [req EXCEPT ![r] = NoEvent]
     /\ \/ UNCHANGED pending
        \/ answered /\ pending' = [pending EXCEPT ![d] = NoEvent]
     /\ UNCHANGED journalled

\* The checks made on connections of their own before the transaction.  Only
\* "active" needs an enabled owner, an enabled project and a working role; the
\* task must be active whatever the status.
Permitted(e) ==
  /\ e.task \in tasksActive
  /\ e.status = "active" =>
       /\ Owner[e.device] \in usersEnabled
       /\ ProjectOf[e.task] \in projectsEnabled
       /\ <<Owner[e.device], ProjectOf[e.task]>> \in workers

Authorize(r) ==
  /\ req[r] # NoEvent /\ req[r].pc = "authorize"
  /\ Permitted(req[r].ev)
  /\ req' = [req EXCEPT ![r].pc = "begin"]
  /\ UNCHANGED <<now, policyVars, workVars, receipts, clientVars>>

\* ValueError, answered 422.  The timesheet lock and the daily and weekly
\* limits refuse an active event too, on data outside this module.
Refuse(r) ==
  /\ req[r] # NoEvent /\ req[r].pc = "authorize"
  /\ ~Permitted(req[r].ev) \/ req[r].ev.status = "active"
  /\ Answer(r)
  /\ UNCHANGED <<now, policyVars, workVars, receipts>>

Locked(u) == {r \in Requests : /\ req[r] # NoEvent /\ req[r].pc = "commit"
                               /\ Owner[req[r].ev.device] = u}
TimerLockNotTaken(u) == TRUE
TimerLockFree(u) == Locked(u) = {}
DeviceRowFree(d) ==
  \A r \in Requests : req[r] # NoEvent /\ req[r].pc = "commit"
                      => req[r].ev.device # d
Disallowed(e) == /\ e.status = "active" /\ Kind[e.device] # "desktop"
                 /\ EffectivePolicy(Owner[e.device]) = "desktop_only"
Duplicate(e) == /\ e.id # 0
                /\ \E x \in receipts : x.device = e.device /\ x.id = e.id

\* The transaction opens: locks, policy, duplicate check, and the read of the
\* device's open session that the rest of the handler goes by.
BeginTransaction(r) ==
  /\ req[r] # NoEvent /\ req[r].pc = "begin"
  /\ TimerLockFree(Owner[req[r].ev.device])
  /\ ~Disallowed(req[r].ev) /\ ~Duplicate(req[r].ev)
  /\ \E i \in IF OpenOf(req[r].ev.device) = {} THEN {NoSession}
              ELSE OpenOf(req[r].ev.device) :
       req' = [req EXCEPT ![r] =
         [@ EXCEPT !.pc = "commit", !.own = i,
                   !.was = IF i = NoSession THEN "stopped"
                           ELSE sessions[i].status]]
  /\ UNCHANGED <<now, policyVars, workVars, receipts, clientVars>>

\* The policy refuses the event, or its receipt shows it was applied before.
EndEarly(r) ==
  /\ req[r] # NoEvent /\ req[r].pc = "begin"
  /\ TimerLockFree(Owner[req[r].ev.device])
  /\ Disallowed(req[r].ev) \/ Duplicate(req[r].ev)
  /\ Answer(r)
  /\ UNCHANGED <<now, policyVars, workVars, receipts>>

-----------------------------------------------------------------------------
(***************************************************************************)
(* The rest of the transaction, on the snapshot taken when it opened.      *)
(***************************************************************************)

NoReceipt(d) == [id |-> 0, device |-> d, status |-> "stopped", at |-> 0]

\* The device's newest receipt; ORDER BY observed_at leaves ties open.
Newest(d) == {x \in receipts : /\ x.device = d
                               /\ \A y \in receipts : y.device = d => y.at <= x.at}
Previous(e) == IF e.id = 0 \/ Newest(e.device) = {} THEN {NoReceipt(e.device)}
               ELSE Newest(e.device)

ObservedUnclamped(e, previous) == e.at

\* Wall clocks can step backwards: an observation is never older than the last.
Observed(e, previous) == Later(e.at, previous.at)

OthersOfTransitionsOnly(e) ==
  {i \in SessionIds : /\ IsOpen(i) /\ e.transition
                      /\ UserOf(i) = Owner[e.device]
                      /\ sessions[i].device # e.device}

\* The open session another device of the same user holds.
Others(e) ==
  {i \in SessionIds : /\ IsOpen(i) /\ e.status \in OpenStatus
                      /\ UserOf(i) = Owner[e.device]
                      /\ sessions[i].device # e.device}

\* Another device is tracking, and this is no explicit switch or an old one.
Displaced(e, previous) ==
  \E i \in Others(e) : \/ ~e.transition
                       \/ Observed(e, previous) < sessions[i].started

LapsedByNewStatus(r, previous) ==
  /\ req[r].own # NoSession /\ req[r].ev.status = "active"
  /\ Observed(req[r].ev, previous) - previous.at > Lease

\* A gap in the heartbeats: the process was down.
Lapsed(r, previous) ==
  /\ req[r].own # NoSession /\ previous.status = "active"
  /\ Observed(req[r].ev, previous) - previous.at > Lease

Moved(r) == /\ req[r].own # NoSession
            /\ sessions[req[r].own].task # req[r].ev.task

Continues(r, previous) ==
  req[r].own # NoSession /\ ~Lapsed(r, previous) /\ ~Moved(r)

\* The sessions _stop_session is called for, and the end it is given.
Stopping(r, previous) ==
  Others(req[r].ev) \cup
  (IF req[r].own # NoSession
      /\ (~Continues(r, previous) \/ req[r].ev.status = "stopped")
   THEN {req[r].own} ELSE {})

StopTime(r, previous, i) ==
  IF i = req[r].own /\ Lapsed(r, previous) THEN previous.at + Interval
  ELSE Observed(req[r].ev, previous)

StoppedSegmentsEndedToo(r, previous) ==
  {IF g.session \in Stopping(r, previous)
     THEN [g EXCEPT !.to = Later(g.from, StopTime(r, previous, g.session))] ELSE g :
   g \in segments}

\* _close_segment never ends a segment before its start.
StoppedSegments(r, previous) ==
  LET End(g) == Later(g.from, StopTime(r, previous, g.session))
  IN CloseSegments(Stopping(r, previous), End)

StoppedRows(r, previous) ==
  LET End(i) == StopTime(r, previous, i)
  IN StopRows(Stopping(r, previous), End)

Record(e, previous) ==
  receipts' = IF e.id = 0 THEN receipts
              ELSE receipts \cup {[id |-> e.id, device |-> e.device,
                                   status |-> e.status,
                                   at |-> Observed(e, previous)]}

CommitStop(r, previous) ==
  /\ req[r].ev.status = "stopped"
  /\ sessions' = StoppedRows(r, previous)
  /\ segments' = StoppedSegments(r, previous)
  /\ Record(req[r].ev, previous)

\* A new session or receipt refers to its task, whose row an archive holds locked from
\* its start.  (The receipt of a stop may name no task.)
TaskRowFree(t) ==
  \A a \in Admins : admin[a] # NoClosing /\ admin[a].op = "task" => admin[a].of # t

\* Paused and active sessions are inserted alike; only an active one counts.
CommitInsert(r, previous) ==
  LET e == req[r].ev
      t == Observed(e, previous)
  IN /\ e.status # "stopped" /\ ~Continues(r, previous)
     /\ TaskRowFree(e.task)
     /\ \E i \in SessionIds :
          /\ ~Exists(i)
          /\ sessions' = [StoppedRows(r, previous) EXCEPT ![i] =
               [device |-> e.device, task |-> e.task, status |-> e.status,
                started |-> t, ended |-> Open]]
          /\ segments' = StoppedSegments(r, previous) \cup
               (IF e.status = "active"
                THEN {[session |-> i, from |-> t, to |-> Open]} ELSE {})
     /\ Record(e, previous)

ResumesFromStop(r) == req[r].ev.status = "active" /\ req[r].was = "stopped"

\* A pause ends the segment when the idle time began, but not before it did.
PauseTime(g, r, t) == Later(g.from, t - req[r].ev.idle)
Pauses(r) == req[r].ev.status = "paused" /\ req[r].was = "active"
Resumes(r) == req[r].ev.status = "active" /\ req[r].was = "paused"

\* A pause ends the open segment; a resume opens one.
CommitUpdate(r, previous) ==
  LET e == req[r].ev
      own == req[r].own
      t == Observed(e, previous)
      Stopped == StoppedSegments(r, previous)
  IN /\ e.status # "stopped" /\ Continues(r, previous)
     /\ e.id # 0 => TaskRowFree(e.task)
     /\ sessions' = [StoppedRows(r, previous) EXCEPT ![own].status = e.status]
     /\ segments' =
          {IF Pauses(r) /\ OpenSegment(g) /\ g.session = own
             THEN [g EXCEPT !.to = PauseTime(g, r, t)] ELSE g : g \in Stopped}
          \cup (IF Resumes(r) THEN {[session |-> own, from |-> t, to |-> Open]}
                ELSE {})
     /\ Record(e, previous)

Commit(r) ==
  /\ req[r] # NoEvent /\ req[r].pc = "commit"
  /\ \E previous \in Previous(req[r].ev) :
       /\ ~Displaced(req[r].ev, previous)
       /\ \/ CommitStop(r, previous)
          \/ CommitInsert(r, previous)
          \/ CommitUpdate(r, previous)
  /\ Settle
  /\ Answer(r)
  /\ UNCHANGED <<now, policyVars>>

\* Another device is tracking: the transaction rolls back, answered 422.
Rollback(r) ==
  /\ req[r] # NoEvent /\ req[r].pc = "commit"
  /\ \E previous \in Previous(req[r].ev) : Displaced(req[r].ev, previous)
  /\ Answer(r)
  /\ UNCHANGED <<now, policyVars, workVars, receipts>>

-----------------------------------------------------------------------------
(***************************************************************************)
(* Administration.                                                         *)
(***************************************************************************)

Rows(P(_)) == {i \in SessionIds : Exists(i) /\ P(i)}
adminUnchanged == <<now, receipts, clientVars, req>>

\* The work an administrator's close is about.
Selected(op, of, i) ==
  \/ op = "task" /\ sessions[i].task = of
  \/ op = "project" /\ ProjectOf[sessions[i].task] = of
  \/ op = "member" /\ <<UserOf(i), ProjectOf[sessions[i].task]>> = of
  \/ op = "user" /\ UserOf(i) = of

\* The first statement ends the open segments committed by then: an archived task's
\* of rows whose ended_at IS NULL, otherwise of any row.  Nobody sees it yet.  A second
\* close of the same task, project or account would wait for its row.
SeenNow(op, of) ==
  {g \in segments : /\ OpenSegment(g) /\ Selected(op, of, g.session)
                    /\ op = "task" => sessions[g.session].ended = Open}
BeginClosing(a, op, of) ==
  /\ admin[a] = NoClosing
  /\ op # "member" =>
       \A b \in Admins : admin[b] # NoClosing /\ admin[b].op = op => admin[b].of # of
  /\ admin' = [admin EXCEPT ![a] =
                 [op |-> op, of |-> of, at |-> now, seen |-> SeenNow(op, of)]]
  /\ UNCHANGED <<adminUnchanged, sessions, segments, overlooked, policyVars>>

\* The second statement stops the rows that were committed by then: an archived task's
\* whose ended_at IS NULL, at the time of the close; otherwise those with an open
\* status, never before their start.  With it the transaction commits.
ClosedRows(c) ==
  {i \in SessionIds : /\ Exists(i) /\ Selected(c.op, c.of, i)
                      /\ IF c.op = "task" THEN sessions[i].ended = Open ELSE IsOpen(i)}
ClosedAt(c, start) == IF c.op = "task" THEN c.at ELSE Later(c.at, start)
LeftOpen(c) == {g \in segments \ c.seen : OpenSegment(g) /\ g.session \in ClosedRows(c)}
FinishClosing(a, op) ==
  LET c == admin[a]
      RowEnd(i) == ClosedAt(c, sessions[i].started)
  IN /\ c # NoClosing /\ c.op = op
     /\ segments' = {IF g \in c.seen THEN [g EXCEPT !.to = ClosedAt(c, g.from)] ELSE g :
                     g \in segments}
     /\ sessions' = StopRows(ClosedRows(c), RowEnd)
     /\ overlooked' = (overlooked \cup LeftOpen(c)) \cap segments'
     /\ admin' = [b \in Admins |-> IF b = a THEN NoClosing ELSE StillSeen(admin[b])]
     /\ UNCHANGED adminUnchanged

ArchiveTask(a, t) ==
  /\ "task" \in AdminOps /\ t \in tasksActive
  /\ BeginClosing(a, "task", t)

TaskArchived(a) ==
  /\ FinishClosing(a, "task")
  /\ tasksActive' = tasksActive \ {admin[a].of}
  /\ UNCHANGED <<usersEnabled, devicesEnabled, projectsEnabled, workers, orgPolicy,
                 memberPolicy>>

ActivateTask(t) ==
  /\ "task" \in AdminOps /\ t \notin tasksActive
  /\ tasksActive' = tasksActive \cup {t}
  /\ UNCHANGED <<adminUnchanged, workVars, usersEnabled, devicesEnabled,
                 projectsEnabled, workers, orgPolicy, memberPolicy>>

ArchiveProject(a, p) ==
  /\ "project" \in AdminOps /\ p \in projectsEnabled
  /\ BeginClosing(a, "project", p)

ProjectArchived(a) ==
  /\ FinishClosing(a, "project")
  /\ projectsEnabled' = projectsEnabled \ {admin[a].of}
  /\ UNCHANGED <<usersEnabled, devicesEnabled, tasksActive, workers, orgPolicy,
                 memberPolicy>>

RestoreProject(p) ==
  /\ "project" \in AdminOps /\ p \notin projectsEnabled
  /\ projectsEnabled' = projectsEnabled \cup {p}
  /\ UNCHANGED <<adminUnchanged, workVars, usersEnabled, devicesEnabled,
                 tasksActive, workers, orgPolicy, memberPolicy>>

\* remove_project_member, and set_project_member_role to viewer.
RemoveMember(a, u, p) ==
  /\ "member" \in AdminOps /\ <<u, p>> \in workers
  /\ BeginClosing(a, "member", <<u, p>>)

MemberRemoved(a) ==
  /\ FinishClosing(a, "member")
  /\ workers' = workers \ {admin[a].of}
  /\ UNCHANGED <<usersEnabled, devicesEnabled, projectsEnabled, tasksActive, orgPolicy,
                 memberPolicy>>

AddMember(u, p) ==
  /\ "member" \in AdminOps /\ <<u, p>> \notin workers
  /\ workers' = workers \cup {<<u, p>>}
  /\ UNCHANGED <<adminUnchanged, workVars, usersEnabled, devicesEnabled,
                 projectsEnabled, tasksActive, orgPolicy, memberPolicy>>

DisableUser(a, u) ==
  /\ "user" \in AdminOps /\ u \in usersEnabled
  /\ BeginClosing(a, "user", u)

\* The sessions are closed first, the device rows updated last.  A transaction
\* on one of the devices may thus still be open, but only if there is no row to
\* close: else the two wait for each other and PostgreSQL aborts one of them.
UserDisabled(a) ==
  LET u == admin[a].of
  IN /\ FinishClosing(a, "user")
     /\ TimerLockFree(u) \/ ClosedRows(admin[a]) = {}
     /\ usersEnabled' = usersEnabled \ {u}
     /\ devicesEnabled' = {d \in devicesEnabled : Owner[d] # u}
     /\ UNCHANGED <<projectsEnabled, tasksActive, workers, orgPolicy, memberPolicy>>

\* Restoring an account does not restore its devices.
EnableUser(u) ==
  /\ "user" \in AdminOps /\ u \notin usersEnabled
  /\ usersEnabled' = usersEnabled \cup {u}
  /\ UNCHANGED <<adminUnchanged, workVars, devicesEnabled, projectsEnabled,
                 tasksActive, workers, orgPolicy, memberPolicy>>

DisableDevice(d) ==
  LET OnDevice(i) == sessions[i].device = d
  IN /\ "device" \in AdminOps /\ d \in devicesEnabled /\ DeviceRowFree(d)
     /\ devicesEnabled' = devicesEnabled \ {d}
     /\ CloseOpen(Rows(OnDevice))
     /\ UNCHANGED <<adminUnchanged, usersEnabled, projectsEnabled,
                    tasksActive, workers, orgPolicy, memberPolicy>>

EnableDevice(d) ==
  /\ "device" \in AdminOps /\ d \notin devicesEnabled /\ DeviceRowFree(d)
  /\ devicesEnabled' = devicesEnabled \cup {d}
  /\ UNCHANGED <<adminUnchanged, workVars, usersEnabled, projectsEnabled,
                 tasksActive, workers, orgPolicy, memberPolicy>>

\* The exclusive policy lock waits for the transactions that hold it shared:
\* the ones starting time on a device that is not a desktop tracker.
PolicyLockNotTaken(affected) == TRUE
PolicyLockFree(affected) ==
  \A u \in affected : \A r \in Locked(u) :
    req[r].ev.status = "active" => Kind[req[r].ev.device] = "desktop"

WebRowsUnder(org, member, affected) ==
  {i \in SessionIds : /\ Exists(i) /\ UserOf(i) \in affected
                      /\ Kind[sessions[i].device] # "desktop"
                      /\ "desktop_only" =
                           IF member[UserOf(i)] = "inherit" THEN org
                           ELSE member[UserOf(i)]}

UpdateOrganizationPolicy(value) ==
  /\ "policy" \in AdminOps /\ PolicyLockFree(Users)
  /\ orgPolicy' = value
  /\ CloseUnended(IF value = "desktop_only"
                  THEN WebRowsUnder(value, memberPolicy, Users) ELSE {})
  /\ UNCHANGED <<adminUnchanged, usersEnabled, devicesEnabled,
                 projectsEnabled, tasksActive, workers, memberPolicy>>

UpdateMemberPolicy(u, value) ==
  LET member == [memberPolicy EXCEPT ![u] = value]
  IN /\ "policy" \in AdminOps /\ u \in usersEnabled
     /\ PolicyLockFree({u})
     /\ memberPolicy' = member
     /\ CloseUnended(WebRowsUnder(orgPolicy, member, {u}))
     /\ UNCHANGED <<adminUnchanged, usersEnabled, devicesEnabled,
                    projectsEnabled, tasksActive, workers, orgPolicy>>

AllReceipts(d) == {x \in receipts : x.device = d}

\* Receipts older than the retention period go, the newest of each device
\* stays.  The period outlasts any request in flight.
OldReceipts(d) == {x \in receipts :
  x.device = d /\ \E y \in receipts : y.device = d /\ y.at > x.at}

CompactReceipts(d) ==
  LET old == OldReceipts(d)
  IN /\ "compact" \in AdminOps /\ old # {}
     /\ \A r \in Requests : req[r] # NoEvent => req[r].ev.device # d
     /\ receipts' = receipts \ old
     /\ UNCHANGED <<now, policyVars, workVars, clientVars, req>>

Tick ==
  /\ now < MaxTime
  /\ now' = now + 1
  /\ UNCHANGED <<policyVars, workVars, receipts, clientVars, req>>

-----------------------------------------------------------------------------
Serve(r) ==
  \/ \E d \in Devices : Heartbeat(r, d) \/ FieldTimer(r, d) \/ WebTimer(r, d)
  \/ Authorize(r) \/ Refuse(r)
  \/ BeginTransaction(r) \/ EndEarly(r)
  \/ Commit(r) \/ Rollback(r)

Administer ==
  \/ \E a \in Admins :
       \/ (\E t \in Tasks : ArchiveTask(a, t)) \/ TaskArchived(a)
       \/ (\E p \in Projects : ArchiveProject(a, p)) \/ ProjectArchived(a)
       \/ (\E u \in Users, p \in Projects : RemoveMember(a, u, p)) \/ MemberRemoved(a)
       \/ (\E u \in Users : DisableUser(a, u)) \/ UserDisabled(a)
  \/ \E t \in Tasks : ActivateTask(t)
  \/ \E p \in Projects : RestoreProject(p)
  \/ \E u \in Users, p \in Projects : AddMember(u, p)
  \/ \E u \in Users : EnableUser(u)
  \/ \E d \in Devices : DisableDevice(d) \/ EnableDevice(d)
  \/ \E value \in Policy : UpdateOrganizationPolicy(value)
  \/ \E u \in Users, value \in Policy \cup {"inherit"} :
       UpdateMemberPolicy(u, value)
  \/ \E d \in Devices : CompactReceipts(d)

Next ==
  \/ Tick
  \/ \E d \in Devices : Journal(d) \/ JournalField(d)
  \/ \E r \in Requests : Serve(r)
  \/ Administer

Spec == Init /\ [][Next]_vars

-----------------------------------------------------------------------------
(***************************************************************************)
(* Properties.                                                             *)
(***************************************************************************)

\* A user has at most one open session over all devices, so the unique index
\* uq_work_sessions_one_active_per_user never refuses a row: the timer lock
\* and the stop of the other device's session make the handover atomic.
OneOpenSessionPerUser ==
  \A i, j \in SessionIds :
    IsOpen(i) /\ IsOpen(j) /\ UserOf(i) = UserOf(j) => i = j

InTransaction(r) == req[r] # NoEvent /\ req[r].pc = "commit"

SameUser(r, q) == Owner[req[r].ev.device] = Owner[req[q].ev.device]

ReadIsSound(r) ==
  /\ req[r].own # NoSession =>
       /\ Exists(req[r].own)
       /\ sessions[req[r].own].device = req[r].ev.device
  /\ \A i \in OpenOf(req[r].ev.device) : i = req[r].own

\* What the session read at the start of a transaction still tells when it
\* commits: the timer lock keeps every other request of the user out, and the
\* administrators, who are not kept out, only close sessions.  So the device
\* has no open session but the one that was read.
SnapshotStaysSound ==
  /\ \A r, q \in Requests :
       InTransaction(r) /\ InTransaction(q) /\ SameUser(r, q) => r = q
  /\ \A r \in Requests : InTransaction(r) => ReadIsSound(r)

\* No event takes effect twice, and none at a time before one that took effect
\* already, with requests sent twice and delayed, answers lost, and clocks
\* stepping back (the duplicate check and the clamp, under the timer lock).
AppliedOnceForward ==
  [][\A x \in receipts' \ receipts : \A y \in receipts :
       y.device = x.device => y.id # x.id /\ y.at <= x.at]_vars

\* Compaction never drops the receipt of an event the device may still send: an
\* answer was lost and the device came back after the retention period.
ResendIsRecognised ==
  [][\A x \in receipts \ receipts' :
       pending[x.device] = NoEvent \/ pending[x.device].id # x.id]_vars

\* A segment that has ended is never changed again, whoever writes next.
ClosedTimeIsFinal ==
  [][\A g \in segments : ~OpenSegment(g) => g \in segments']_vars

SegmentDevice(g) == sessions[g.session].device

\* A tracker or phone whose owner has no other device.
Lone(d) == /\ Kind[d] # "web"
           /\ \A c \in Devices : Owner[c] = Owner[d] => c = d

\* The time a device is credited with is never counted twice: its segments do
\* not overlap, through pauses dated back by the idle time, capped gaps, task
\* switches, late copies and clocks that step back.  A second device of the
\* owner or an administrator ends a segment at a clock of their own.
LoneDeviceTimeDisjoint ==
  \A g, h \in segments :
    g # h /\ SegmentDevice(g) = SegmentDevice(h) /\ Lone(SegmentDevice(g)) =>
      \/ ~OpenSegment(g) /\ g.to <= h.from
      \/ ~OpenSegment(h) /\ h.to <= g.from

\* No instant is credited that is further than the lease from an observation
\* the device made: a gap caps the segment (comment in sync_work_session).
\* Observations of one time leave open which of them the cap goes by, and of
\* instants before the oldest receipt that compaction kept nothing is known.
CreditIsWitnessed ==
  \A g \in segments :
    LET seen == AllReceipts(SegmentDevice(g))
    IN Lone(SegmentDevice(g)) /\ (\A x, y \in seen : x.at = y.at => x = y) =>
         \A t \in g.from .. g.to, y \in seen :
           y.at <= t => \E x \in seen : x.at <= t /\ t - x.at <= Lease

\* A session counts time exactly while it is active: an open segment belongs
\* to an active session, unless a commit opened it between the two statements of a
\* close that stopped the session; and an active session has an open segment, unless
\* an administrator ended it while the event that sets it active again was being
\* committed (the read at work.py:278 takes no row lock).
CountsExactlyWhileActive ==
  /\ \A g \in segments :
       OpenSegment(g) => g \in overlooked \/ sessions[g.session].status = "active"
  /\ \A i \in SessionIds :
       Exists(i) /\ sessions[i].status = "active" /\ sessions[i].ended = Open =>
         \E g \in segments : OpenSegment(g) /\ g.session = i

\* Ended by an administrator, then set active or paused by a commit that had
\* read the session before.
Revived(i) == IsOpen(i) /\ sessions[i].ended # Open

\* While a member's effective policy is desktop-only, no web or mobile device
\* of theirs is counting time, however starts and policy changes interleave.
\* A policy change goes by ended_at IS NULL: it misses what was revived, and what a
\* close overlooked.
DesktopOnlyEnforced ==
  \A g \in segments :
    /\ OpenSegment(g) /\ ~Revived(g.session) /\ g \notin overlooked
    /\ EffectivePolicy(UserOf(g.session)) = "desktop_only"
    => Kind[SegmentDevice(g)] = "desktop"
=============================================================================
