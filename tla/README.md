# Dayfinch in TLA+

Dayfinch (the repository beside this directory, `src/`) tracks working time. A
desktop agent, a phone, a web page or a field page reports timer states and
captures; a FastAPI server over PostgreSQL turns the reports into work sessions,
screenshots, timesheets, invoices and payroll, imports tasks from Jira, Asana and
GitHub, and pushes time and notices to Jira, Asana, Slack and mail. This directory
models the parts whose correctness depends on *order*: who commits first, what a
crash leaves behind, what a lost answer makes a client repeat. TLC checks small
instances; TLAPS proves the central invariants for every size.

`PROJECT.json` lists the components, the runs, the source lines each definition
stands for, the mutants that show each property can fail, the findings, the
hazards and the theorems.

## 1. Inventory

| Component | State | Operations | What is hard |
|---|---|---|---|
| Work session engine (`api/repositories/work.py`, heartbeat, web and field timer routes) | `work_sessions`, `work_session_segments`, `agent_state_events` | `sync_work_session`, task archive, receipt compaction | checks on other connections before the transaction, three locks, retries and delayed copies, client clocks that step |
| Administration that closes work (`projects`, `accounts`, `devices`, `integrations`, `workforce` repositories) | enablement flags, memberships, tracking policies | archive, remove, disable, set policy | they close sessions without the timer lock, segments and rows in two statements |
| Desktop agent worker (`agent/main.py`) | timer, idle flag, heartbeat flag, threads | buttons, worker loop, upload, stop, launch | three threads, journal before network, a join that times out |
| Offline queue (`agent/queue.py`) | SQLite rows, image files, quarantine, counters | add, send, delete, quarantine, trim, recover | a row and its file cannot change together; crash at any step |
| Payroll delivery (`services/payments.py`, payroll part of `workforce.py`) | `payroll_payments`, `payroll_destinations` | claim, send, record, reconcile, defer, recover, notify | no lock over network calls; idempotency keys; late answers |
| Timesheets, manual time, payroll runs (`timesheets.py`, `workforce.py`) | `timesheets`, `manual_time_entries`, `payroll_payments` | generate, submit, review, add, decide, `create_payroll` | reads and writes at READ COMMITTED; two clocks date a day |
| Team invoices (`workforce.py`, `services/invoice_vault.py`) | `team_invoices`, lines, claimed time sources, sealed documents | create, from time, edit, submit, pay, void, delete, seal, open | three transactions per invoice from time; row and object change apart |
| Integration credentials (`integration_credentials.py`, clients, `integrations.py`) | encrypted grants, refresh claims, key ring, connections | open, rewrap, refresh, release, connect, roll back, disconnect | single-use refresh tokens, several replicas, keys deployed one by one |
| Issue import (Jira, Asana, GitHub services, `integrations.py`) | mappings, tasks, cursors, claims, webhook receipts | sync passes, archive, webhook, map, disconnect | stale listings, overtaken passes, two-pass archive, redelivery |
| Outboxes (worklogs, comments, Slack, scheduled reports) | outbox rows, dirty days, claims | stage, claim, deliver, record, purge | lost answers, expired claims, trigger against staging |
| Background jobs (`background_jobs.py`) | leases | acquire, release | a lease that expires under a running job |
| Automatic tracking (`agent/automatic.py`) | automatic mark, window decisions | evaluate, start, stop | the evaluation races the buttons |
| Capture and usage ingestion (`agent_api.py`, `activity.py`, `storage.py`) | `captures`, `usage`, objects | upload, cover by segment, delete | object before row; duplicates |
| Retention (`services/retention.py`) | rows and objects by age | delete in batches, compact receipts | objects first, crash between |
| Phone (`mobile/src`) and field page (`ui/static/field.js`) | encrypted local journals | journal, flush | background restarts, storage failure |
| Sign-in, SCIM, SSO, rate limits | tokens, replay tables | | request-local checks |
| Dashboard, reports, exports, client invoices, IIF | rows with one writer, or none | | rendering |
| Operations scripts, installer, extension | | backup, restore, update | restore order |

How they meet: the agent's journal is replayed into `sync_work_session`; captures
and usage samples are accepted only where a segment of that engine covers them;
administrators and connectors close the engine's sessions from other transactions;
timesheets, payroll and invoices read its segments; triggers on segments mark days
dirty for the outboxes; every connector call opens a credential first; background
jobs drive reconciliation, passes, outboxes, reports and retention under leases.

What makes each part correct:

* engine: one open session per user; no instant counted twice; a gap in the
  observations is not credited; an event takes effect once, in order; no
  disallowed device counts; ended time is never rewritten;
* agent: every change of the timer reaches the journal; nothing journalled is
  lost; replay is in order; an exit closes the session; the server converges;
* queue: a committed capture is never silently lost; no screen data lingers
  outside the queue; the limit drops the oldest only; the queue drains;
* payroll delivery: one payout per payment, to the frozen recipient; what the row
  says happened did; a settled fact stays; nothing is forgotten in `processing`;
* timesheets and payroll runs: no instant is paid twice; paid time stays approved;
* invoices: no time is billed twice; the stored document is the invoice;
* credentials: the newest refresh token is never lost by our own writes; one
  spender; the connecting person decides whose grant it is; access comes back;
* import: an open issue is never archived; a timer stops with its task; a task
  comes to be what its issue is;
* outboxes: delivered means shown; nothing goes out twice for our own reasons; one
  entry a day; everything due goes out.

## 2. Modules

| Module | Models | Proofs |
|---|---|---|
| `WorkSessions` | session engine and administration | `WorkSessions_proofs` |
| `OfflineQueue` | screenshot queue | `OfflineQueue_proofs` |
| `AgentTracker` | timer, worker and journal, with the server as one device sees it | `AgentTracker_proofs` |
| `PayrollDelivery` | one payroll payment and its provider | `PayrollDelivery_proofs` |
| `PaidTime` | pay periods, timesheets, manual time, payroll runs of one member | `TeamInvoices_proofs` |
| `TeamInvoices` (extends `PaidTime`) | invoices from that time and their documents | `TeamInvoices_proofs` |
| `Credentials` | one grant, its refresh, rewrap and connection | `Credentials_proofs` |
| `IssueSync` | one integration, mapping and issue | `IssueSync_proofs` |
| `Outboxes` | one outbox with its job | `Outboxes_proofs` |
| `ExportLedger` | what an export of one day promises; `Outboxes` implements it | `Outboxes_proofs` |

`PaidTime` and `TeamInvoices` share `MCBilling`, and each other module but `ExportLedger`
has an `MC` module of its own, which only supplies sets, symmetries and
scenarios for TLC. A scenario is an instance of the module with constants of its
own, chosen at Init by the variable `scenario` (or, in `AgentTracker` and
`IssueSync`, a record of bounds in the variable `scope`), so that one run answers
one question about one component. Every module states a type invariant (`TypeOK`
or a name like it).

### WorkSessions

`sessions`, `segments` and `receipts` are the three tables; `journalled` and
`pending` are the clients' journals, reduced to the newest event and the one
unanswered; `req` holds the requests in flight. `sync_work_session` is four
steps, because the code uses a connection for each: `Heartbeat`, `FieldTimer` or
`WebTimer` (the route accepts the request), `Authorize` or `Refuse` (project,
membership and task checks), `BeginTransaction` or `EndEarly` (policy lock, timer
lock, device row, duplicate check, the read of the open session) and `Commit`
(lease test, other devices' sessions, insert or update, receipt). `Answer` may be
lost, which leaves the event pending. Closing the work of a task, a project, a
member or an account is two steps, because the code ends the segments in one
statement and stops the rows in a later one, at READ COMMITTED and without the timer
lock: `ArchiveTask` and `TaskArchived`, `ArchiveProject` and `ProjectArchived`,
`RemoveMember` and `MemberRemoved`, `DisableUser` and `UserDisabled`, all over
`BeginClosing` and `FinishClosing`. `admin` holds what each close under way has seen
(`seen`; a commit that ends a segment takes it from there, `Settle`), and the history
`overlooked` the segments that a close left open on a row it stopped. An archive locks
the task's row from its start, so inserts that refer to the task wait
(`TaskRowFree`). Disabling a device, whose row is locked first, and the policy
updates, which hold the policy lock exclusively, are one step each (`CloseOpen`,
`CloseUnended`), since nothing they would miss can commit between their statements.
The closes differ in whether they go by `ended_at IS NULL` or by status, and in
whether the end is clamped, as their SQL does. Time is counted in heartbeat intervals; breaks,
notes and update timestamps are left out. Locks are predicates over the requests
in their transaction (`TimerLockFree`, `PolicyLockFree`, `DeviceRowFree`): a step
that would block is not enabled.

### OfflineQueue

`rows` and `path` are the SQLite table, `images`, `partials`, `moved` and `metas`
the files. Every file operation and every commit is a step of its own, and
`Crash` may fall between any two; memory (`pending`, `todo`, `current`) is then
lost. `Launch` starts recovery: seal the plain images of an older version, rewrite
the rows, sweep what no row names. Encryption is reduced to whether a file is
sealed.

### AgentTracker

Three threads: the employee's buttons, `_work_loop` and the main thread. The
worker's loop is split where another thread can intervene: idle check,
observation, reading the heartbeat flag, clearing it, reading the timer,
journalling, sending, uploading. The journal (`states`, `usage`) survives
`Crash`; `applied`, `server` and `spans` are what the server makes of it, for one
device (module `WorkSessions` has the whole): receipts, the clamp of a late copy
(`CountsFrom`), the lease test and the idle deduction, which decide where a segment
ends (`Apply`). Numbers of journal entries stand for their times, so of lengths of
time only two are kept: from which entry on the desk was idle (`deduct`, an event's
`idle`), and whether more than a lease lies between a state and the one before
(`gap`). A span that a pause or a gap closes may end at any entry that this leaves
open.

### PayrollDelivery

One row of `payroll_payments`, the destination the owner confirmed, the server
threads and the provider's transfers. A thread's `pc` is the network call or
record it stands before; nothing is locked in between. Every call may fail before
or after it took effect. `setting` is the provider the server is configured with;
it may change at a restart, which is what the checks against "another provider"
are for. PayPal forgets an idempotency key after thirty days (`age`); Wise never
does. Amounts, currencies and texts are left out. The provider's own behaviour
(`Transfer`, `Steps`, `Move`, `Notify`, `Remembered`) is outside the repository
and follows from how the service uses it.

### PaidTime and TeamInvoices

`sheets` is the `timesheets` table of one member, `entries` the manual time,
`working` and `tracked` the segments as the engine leaves them, `payrolls` the
runs. Transactions run at READ COMMITTED, so a request that reads, decides and
writes is two steps of a thread (`SubmitChecks`/`SubmitWrites`,
`AddChecks`/`AddWrites`, `ReviewChecks`/`ReviewWrites`,
`PayrollChecks`/`PayrollInserts`); a row read FOR UPDATE and written at once is one
step (`ReviewSheet`). Time is counted in half days. The database dates a piece of
time by its start in its own zone (`Day`), the payroll cuts by the organisation's
days (`LocalDay`). Which days these are follows from a setting, `zone`, that the
owner may change at any time; a run reads it with its checks and uses it when it
inserts. A payroll row keeps the pieces of time it adds up, each with its half days
(`paid`), and the zone.

`TeamInvoices` adds `invoices` (row, lines, claimed time sources), the stored
`objects` and the `tabs` that ask for changes. `create_team_invoice_from_time` is
its three transactions: `TimeReads`, `TimeCreates`, `TimeFills`, and `TimeUndoes`
when the claim fails. Every change is followed by a seal: `SealReads` the row,
`SealSaves` the object, `SealRecords` it in the row; each may be cut off, and the
storage may be away. A line's amount is what its
sources come to (`Charge`). Whether `document_sealed_at` is not before `updated_at` is the
field `fresh`; the document's content is the row's `version`.

### Credentials

`row` is the encrypted credential of one account (grant, serial of its refresh
token, revision, key, refresh claim). Callers open it (`OpenRow`, and the second
statement that seals it again under the primary key), claim the refresh, spend the
token (`post`), record the answer guarded by claim and revision, release. Each
database statement is a step and each provider call another; a caller may die
anywhere, a call may fail, a lease may lapse under its holder. `link` is the person
who connects an account: callback, selection of an Asana workspace, stored grant,
connection row, and the rollback each provider has. `primary` is the key in front
of each replica's ring; a rotation reaches the replicas one by one. `live` and
`excused` are history: the provider's newest token per grant, and grants whose
newest token a fault lost that the protocol cannot mask.

### IssueSync

One issue at the provider, one mapping, one task, its running timer. A pass is
claim, snapshot, listing, one step per database statement and provider call,
archive and mark, with the provider's own shape: Jira and GitHub have one claim and
one snapshot, Asana also a claim per mapping and a snapshot per mapping; Jira and
Asana archive a task only when an earlier full pass had missed it, GitHub at once;
GitHub also takes webhooks (`hooks`), once each unless they failed. Times are kept
as the comparisons the code makes (`fresh`, `older`, `order`). The owner maps,
remaps, removes, disconnects, reconnects and syncs now; issues are created, edited,
closed, reopened, deleted and moved; Jira's search index may lag. A start of the timer
is two steps: `StartChecks` reads the task without a lock on its own connection,
`StartInserts` opens the session in a later transaction that does not look again. In
the run no start is let through beside two passes of Jira or two of GitHub with a
fault and a webhook, nor, beside two passes or one of Jira, while a timer runs
(`Sparing`); otherwise they are free.

### Outboxes and ExportLedger

One of four outboxes, drawn at Init: the worklog or comment of one day, two Slack
messages to one destination, one scheduled report. `job` is the job's lease, which
a replica takes, outlives or gives back; a row is claimed with a token and a lease;
each provider call may take effect and lose its answer; the outcome is recorded if
the claim is still held. `dirty` is the mark the triggers leave and staging takes
off, whose one statement reads the total as of its start.

`ExportLedger` is the abstract promise: totals are asked for (`Ask`), the provider
shows one of them (`Show`) or nothing (`Withdraw`); a deliverer that outlived its
claim voids it (`Loosen`). `Outboxes` implements it under the mapping
`shown <- {<<n, entries[n]>> : n \in Live}`, `loose <- "stall" \in excused`
(`KeepsTheLedger`, a property of the run `outboxes`): every call, lost answer,
retry, crash, foreign deletion and change of mode is a step of the ledger or none.

## 3. Runs

| Run | Instance | Shows |
|---|---|---|
| `sessions` | scenario `one_device`: a desktop alone, two tasks, 3 events, idle 0 or 2, a clock that steps, compaction; `gap`: the same desktop, 5 intervals, 3 events, a forward clock; `resend`: the same, 2 events, two requests, a forward clock, compaction; `admin`: starts and pauses of the web timer and the field page, one request, two sessions, all administrators and policies, two things withdrawn or being closed at a time; `presses`: the web timer alone with its stops, two requests, closes of a task, the project and the account, and policies; `switch`: a desktop and a phone of another user, 3 events together, two requests | `OneOpenSessionPerUser`, `LoneDeviceTimeDisjoint`, `CountsExactlyWhileActive`, `SnapshotStaysSound`, `DesktopOnlyEnforced`, `CreditIsWitnessed`, `AppliedOnceForward`, `ClosedTimeIsFinal`, `ResendIsRecognised` |
| `queue` | 4 captures (2 from an older version), room for 2, 2 faults | `NothingLost`, `FilesMatchRows`, `PendingIsExact`, `DropsTheOldest`, and `EveryCaptureLeaves` as liveness |
| `tracker_safety` | `Presses`: 3 presses, 2 projects, an idle change; `Absences`: 2 presses, 2 idle changes, a failing write; `Restarts`: 2 presses, a crash, a relaunch, a refusal, lost answers; `Shutdown`: a press, a sample, a heartbeat, three 401s, a worker that outlives the join; `TwoSenders`: 2 presses, a sample, a refusal, a worker that outlives the wait and sends beside the main thread; `Desk`: 2 presses, 2 projects, an idle change, a sample; `Sleep`: a press, a heartbeat, a sample, a gap, a crash, a relaunch | `TimerIsJournalled`, `JournalIsReplayed`, `TimelyExitClosesTheSession`, `SampleFindsItsSession` |
| `tracker_progress` | one press with a crash and a refusal, two presses with either, a revoked token | `ServerConverges`, `EndsOnceStopped` as liveness |
| `late_worker` | one press, a worker that outlives the join | violates `ExitClosesTheSession` |
| `payroll_safety` | three providers, two threads, 2 sends, 2 destinations, crashes, stalls, changed settings | `NoDoublePayout`, `PaidToFrozenRecipient`, `OutcomesHappened`, `SettledFactsStay` |
| `payroll_followed` | Wise, two threads, no crash | `ProcessingIsResolved` as liveness |
| `payroll_crash_retry` | Wise, one thread, a crash | violates `ProcessingIsFollowed` |
| `credentials` | two callers; `refresh`: one grant, an expiry, a fault; `rotate`: a new key; `reconnect`: a second authorization beside a refresh; `rewrap`: the same beside a rewrap under a new key | `NewestTokenKept`, `OneSpender`, `CallbackDecides`, and `AccessComesBack` as liveness |
| `outboxes` | two replicas; `worklogs` and `comments`: 2 changes, 2 faults; `settings`: all modes, 2 switches; `sendings`: 2 messages or a report, 2 faults | `DeliveredIsShown`, `SentOnce`, the refinement `KeepsTheLedger`, and `EverythingGoesOut` as liveness |
| `issues` | eight instances: two passes of each provider beside an edit and faults, GitHub with a webhook; one pass of each beside two operations of the owner; five operations around single GitHub passes | `OpenIssuesStay`, `TimersStopWithTheTask`, and `SyncConverges` as liveness |
| `billing` | `approved` and `free`: a member with and without timesheets, two meeting pay periods, an entry over midnight, late time, two requests; `zones`: two days that are over, their runs, and an owner who changes the time zone; `claims`: two invoices and the same time; `document`: one invoice, two tabs, 4 versions | `NoInstantPaidTwice`, `PaidEntriesStand`, `TimeIsBilledOnce`, `LoneSealHeals` |

Why the bounds are enough to meet the cases: three events with two tasks allow
start, pause with idle time, resume, switch and stop in every order, with each of
them lost and sent again; five intervals hold a lease of two, a gap and what
follows it. Two requests are what it takes for one to commit between another's
steps; a third would wait at the same lock. A queue of two with four captures
overflows twice. One crash at every step of a bounded history, followed by a
relaunch, reaches every state a crash can leave; the queue allows two, so that
recovery itself may crash. Two sends let a retry meet the remains of the first;
`MaxTransfers = 2` is there so that a double payout *could* appear;
`MaxMoves = 4` lets a transfer be created, funded, sent and refunded. Two
authorizations and one expiry let an old answer arrive after a new grant; one new
key with two replicas gives a row every key a replica may lack. Two changes of a
day with two faults let a total change while the older one's answer is lost and its
retry fails; `DiscardAfter = 2` gives up after both. Two passes can overtake each
other, and a third would have to overtake one that is already behind; five
operations of the owner are map, disconnect, reactivate, reconnect, map. Two
periods meet in one day, one entry lies in that day and one leads out of it; two
invoices claim the same time, and three versions follow a draft. Deadlock is not
checked: every instance ends when its bounds are spent.

Four properties of the sessions carry an exception that section 4 explains:
`LoneDeviceTimeDisjoint` and `CreditIsWitnessed` are about trackers whose owner has
no other device (`Lone`), the second about observations of distinct times;
`CountsExactlyWhileActive` and `DesktopOnlyEnforced` leave out the segments that a
close overlooked (`overlooked`), the latter also rows that a commit revived
(`Revived`). In the run
the desktop of `one_device`, `gap` and `resend` is lone and the devices of `switch`
are not. The rows of `sessions` are taken in
order instead of under a symmetry; this prunes nothing but renamings.

### Fairness

* Queue: the agent's thread finishes what it began (WF), and uploads that are
  tried again and again are answered now and then (SF on an accepted or rejected
  upload). The worker retries on every pass, which justifies the strong form;
  nothing is assumed of captures or of crashes beyond their bound.
* Agent: the worker, the flag-raising button handler, the main thread and each
  thread's heartbeat go on (WF); the upload of a state and its acceptance happen
  if they can again and again (SF), as `_upload_due` repeats them. The employee
  owes nothing, and `Quit` is fair only once `stop_event` is set.
* Payroll: time passes, the job gets its turn, threads end because every call has
  a timeout, and a provider that is asked again and again answers (SF).
  `ProcessingIsResolved` further assumes that the row's provider stays configured
  from some time on.
* Credentials: started calls run on, jobs and timers keep asking, a refresh lease
  runs out (ninety seconds), a deployment that began ends, a person who began to
  connect finishes. All weak; faults and expiries are bounded and owe nothing.
* Outboxes: a worker's steps go on, the scheduler starts jobs again and again, rows
  come due, days end, leases lapse. All weak. A failed attempt costs the fault
  budget: a provider that fails for ever is not covered.
* Issue import: passes and begun webhooks run on, the job asks again, the index
  catches up, days, rests and leases pass. All weak. The arrival of a webhook is
  not fair: the daily pass must do without it.
* `billing` checks safety only.

## 4. Findings

* **`late_worker`** (`agent/main.py:259`). `stop()` waits 8 seconds for the
  worker, but a request may take 30. The worker then journals `active` after the
  final `stopped`, and the session stays open on the server.
  `TimelyExitClosesTheSession` in `tracker_safety` shows that the exit is right when
  the worker ends in time.
* **`payroll_crash_retry`** (`api/repositories/workforce.py:1854`). A retry of a
  failed Wise payment moves it to `processing` with no reconciliation scheduled;
  if the server dies then, recovery, job and Send all skip it. Without a crash
  `payroll_followed` shows that nothing is forgotten.

Observations, met while modelling. They show in the models when the named constant
or property is changed, or are left out of them; none has a run of its own.

Sessions and agent:

* `ResendIsRecognised` needs a late copy and a clock that steps back to fail: with
  `ClockMayStepBack = TRUE` in `resend` (or two requests in `one_device`) the second
  copy of a refused event is applied after the next one and at a later time, so the
  next one's receipt is no longer the newest (`work.py:464`). Compaction may drop it
  while its answer is still out, and the device's next try is then applied again.
* The gap that caps a segment is measured from the newest receipt by time, with no
  tie-break (`work.py:263`): after a clock has stepped back two receipts may have one
  time, and the paused one of them may hide the active one, whose gap is then
  credited. `CreditIsWitnessed` is therefore about distinct times. Once compaction has
  dropped the older receipts nothing is known of the instants before the oldest.
* A start on a second device stops the first at the new time, with no lease test of
  the first (`work.py:296`), so without `Lone` a gap is credited in `switch` with
  `MaxTime = 4`. Nor does the clamp know the end that this start gave: the first
  device's next event may be dated before it, and its segments overlap in `switch`
  with `MaxTime = 3` and two events for each device, with clocks that only move on.
* An administrator's close is dated by the server's clock. A tracker whose clock is
  behind, or whose start arrives later than it was made, may start again before that
  end, and
  what lies between its last report and the close is credited however long it is.
  With `AdminOps = {"task"}` in `gap` TLC finds both, even with `Skew = 0`.
  The two theorems about lone trackers exclude it (`AdministratorsSpareTrackers`).
* A commit may revive a row that an administrator ended between its read and the
  commit (`work.py:278`): the status is open again, `ended_at` stays set. Such a row
  counts nothing until an event resumes it from a pause; from then on it counts, and
  the next policy change, which selects by `ended_at IS NULL`, overlooks it. Without
  `Revived`, `DesktopOnlyEnforced` fails in `admin`, where a pause, which takes no
  policy lock, does the reviving.
* A segment that a start or a resume commits between the two statements of a close is
  missed by the first and its row stopped by the second (`projects.py:19-34`,
  `accounts.py:354-368` and `262-276`, `work.py:104-125`; an archived task's new rows
  wait, but not a resume). An open segment is left on a stopped, ended session and
  counts on. A later close of the project, the member, the account or the device ends
  it; a task archive or a desktop-only policy, which go by the row's
  `ended_at IS NULL`, do not. Without `overlooked`, `CountsExactlyWhileActive` and
  `DesktopOnlyEnforced` fail in `admin` and `presses`.
* A request authorized before a project is archived may open a segment in it
  afterwards (`work.py:162`).
* The field page passes a heartbeat interval but journals only presses
  (`routers/workforce.py:866`), so a stint longer than the lease is capped.
* The first usage sample after a start is journalled before the state that opens
  its segment (`agent/main.py:752`), and the server refuses it;
  `SampleFindsItsSession` is about samples behind an active state.
* Nor does every sample behind an active state find a segment, though the states go
  up first (`agent/main.py:792`). Samples go on being journalled until the idle
  timeout is noticed, and the pause then deducts the stretch they lie in
  (`work.py:364`); and a gap longer than the lease ends the segment one heartbeat
  after the last state (`work.py:297`), before a sample that was taken later, a gap
  which states that were refused may leave as well. Such samples get a 409
  (`routers/agent_api.py:37`) and are set aside. They are the exceptions `IdleBehind`
  and `LapseBehind` of `SampleFindsItsSession`; without either it fails in `Desk` or
  in `Sleep`.
* A stop pressed between the idle check and the journal write drops the idle
  deduction (`agent/main.py:919`).
* A worker that outlives the wait of `stop()` sends the journal beside the main
  thread, both the same event. If one copy is refused and set aside and the other
  is accepted later, the event is applied out of order, at the newest time: a
  "paused" then closes a segment that should stay, and a later sample is refused
  (`NothingCameLate` is the exception in `AppliedInOrder` and `SampleFindsItsSession`).
* The transition mark is read and cleared in two steps (`agent/main.py:764`); a
  press in between is sent unmarked. The mark of an automatic start can likewise
  survive a Stop pressed beside it (`agent/main.py:630`).
* `ServerConverges` fails with a failing write: the flag is cleared before the
  write that fails (`agent/main.py:765`).
* Disabling a user locks sessions and then devices, a heartbeat the other way
  round (`accounts.py:345`); PostgreSQL resolves the deadlock, which `DisableUser`
  says in its guard. Two first uses of the web timer can both insert a virtual
  device (`workforce.py:2063`).

Payroll, timesheets, invoices:

* A paid Wise transfer that bounces returns to `processing`, and its refund is
  then recorded as `failed`, not `reversed` (`payments.py:717`); two overlapping
  reconciliations of a PayPal payment can have the same effect. Hence no property
  here says that a paid payroll never shows `failed`.
* The webhook adapter is given the member's current e-mail address, not the frozen
  recipient (`payments.py:319`); `PaidToFrozenRecipient` is about PayPal and Wise.
* `NothingPendingInApproved` fails in six steps: manual time added after the
  submission is inside the approved sheet and can then never be reviewed, though
  the submission asks for every entry to be reviewed (`timesheets.py`).
* A review looks at an entry's first day only, while adding one looks at the whole
  span: an overnight entry can change an approved period. The database's day and
  the organisation's day differ (`zone`), so an entry may be locked by one period
  and paid by another. A review that read the timesheets before the approval may
  write after it (`overtaken`).
* A session that is open when the payroll runs, and offline time that is replayed
  later, is never paid: a second run for the period is refused as overlapping. Late
  time that overlaps what another device tracked makes the run fail.
* Without timesheet approval a paid entry can still be rejected; so can an invoiced
  one.
* The time zone may change between two payroll runs (`workforce.py:846`), and the
  check for an overlapping run compares dates only (`workforce.py:1480`). If the zone
  moves ahead between the run of one day and that of the next, the instants that both
  days cover are paid twice. `NoInstantPaidTwice` is therefore about runs under one
  zone; without that condition it fails in the scenario `zones` in five steps.
* The overtime threshold applies to each payroll row, so a week split over two runs
  loses overtime (not modelled).
* `NextNumberIsFree` fails in six steps: a team invoice's number is the count of the
  year's invoices, and deleting a draft that is not the newest makes the next one
  taken, for every later creation of the year (`workforce.py:1039`). Client invoices
  count without a lock besides.
* A half-built draft is visible to its owner: it can be edited, submitted, paid or
  voided between the transactions; `TimeUndoes` deletes whatever it has become, a
  filling after a payment can leave more paid than the total, and it does not touch
  `updated_at`. A void invoice keeps its time.
* `StaleDocumentHeals` fails in six steps: of two seals the older may record last,
  and a stale document then counts as fresh until the next change (or, on local
  storage, object and digest differ). `LoneSealHeals` is the property without
  overlapping seals. A seal that saves after a deletion leaves an orphan object.

Credentials (`CallbackDecides` and `NewestTokenKept` excuse what is marked *):

* A revision starts at 1 after a disconnect and a reconnect, so a rewrap that still
  holds the old row passes its check and overwrites the new grant*.
* Asana's rollback may put back a refresh token that was spent meanwhile*, or is
  refused while a refresh holds the row*.
* A failed reconnection of a Jira member deletes the working credential; for an
  existing site a failed upsert leaves the refused grant*.
* `expire_integration_access` has no revision check: it may expire a token that a
  refresh has just written, which costs one refresh.
* A refresh claim whose release was lost blocks every later rewrap until the next
  refresh, so a key may be needed longer than `docs/runbook.md:161` lets expect.
* While Asana or Slack waits for another caller's refresh, errors of the vault
  escape unwrapped. Revocation at the provider on disconnect is not modelled.

Issue import (`excused` and `meant` mark them):

* A disconnect in the middle of a full GitHub pass makes every later `apply`
  return nothing, and the archiving statement asks for no claim: all tasks it did
  not see are archived and their timers stopped ("cut"); Asana marks them missing
  alike. The repository's `README.md:327` says they are kept as ordinary tasks.
* Jira's pass upserts each mapping with the project it read at its start: it
  re-inserts a removed mapping and reverts a remapping, closing timers. GitHub does
  so only for a renamed repository.
* Two full passes on end (a crash between archive and mark, an overrun lease, a
  reconnect) let one index lag archive an open Jira issue ("rushed"); so would a
  lag that covers two daily passes.
* GitHub pages by number, so an issue can slip between two pages and be archived
  until the next daily pass. The model lists atomically.
* A deleted issue has the `updated_at` it had: an older listing or a late webhook
  brings the task back until the next full pass.
* When Asana's project is no longer accessible, every pass fails and its tasks stay.
* `mark_*_sync_succeeded` raises after a lost claim; the error leaves `sync_due`,
  and the rest of its batch stays claimed until the lease ends.
* A Jira issue that moves between two mapped projects, and a mapping removed and
  made elsewhere across a disconnect, change the task's project under its timer
  ("adopted").
* A start reads the task unlocked (`work.py:201`) and inserts its session later
  (`work.py:321`). If a pass, a webhook or the owner archives or moves the task in
  between, the closing statement (`integrations.py:36`) does not see the session, which
  stays open on an archived or moved task (`timer.late`) until the task is archived
  or moved again. The repository's `README.md:326` says that archiving stops the
  timers. `TimersStopWithTheTask` is about sessions that were opened while the
  task was as the start had read it.
* `mark_*_mapping_synced` of Jira and GitHub has no guard: an older pass marks a
  re-added mapping as fully synced, and its tasks wait for the daily pass.
* A "suspend" webhook disconnects, and "unsuspend" does not connect again.

Outboxes:

* Staging reads the total as of its statement's start and takes off a mark that a
  change set meanwhile ("raced"): that change waits for the next one.
* Slack's claim picks a row first and locks it then, without looking at its claim
  again; only the job's lease keeps two replicas from sending it twice. Leases are
  never renewed.
* A worklog whose POST lost its answer stays at Jira if the day's total then drops
  to zero before the next attempt (`jira_integration.py:965`); a lost answer
  followed by a return to the recorded total is not noticed either.
* The order among messages to one destination, connecting with another account
  beside staging, and a request that its client gave up on and the server still
  performs later are not modelled.

## 5. Proofs

All theorems hold for every value of the constants that satisfies the named
assumptions of the module (`ConstantsAssumption`, `QueueAssumption`,
`TrackerAssumption`, `ProviderAssumption`, `CalendarAssumption`,
`InvoiceAssumption`, `CredentialsAssumption`, `OutboxAssumption`, and of `IssueSync`
`WorkersAssumption` and `ProjectsAssumption`), which TLC evaluates
on every run. Each module states one inductive invariant as a conjunction of named
parts, one lemma per action or group of actions that it is kept, and the theorems
from it.

**`WorkSessions_proofs`.** `OneOpenSession`, `SnapshotSound`, `ClosedTime`,
`CountsWhileActive`, `AppliedOnce`, `ResendRecognised`, `ResendRecognisedInTurn`,
`DesktopOnly`, `LoneDeviceDisjoint`, `CreditWitnessed` and `TypeCorrect`. The first
invariant is
`SessionInv == TypeOK /\ OneOpenSessionPerUser /\ SnapshotStaysSound`. One open
session per user is not inductive alone: `Commit` decides from a session read when
the transaction began. `SnapshotStaysSound` is the missing half: transactions of
one user exclude each other (timer lock), and while one is open the device has no
open session but the one it read. Administrators do not take the lock; lemma
`ClosingKeepsInv` shows that they cannot hurt, because they only close
(`OnlyCloses`). `ClosedTime` needs besides that what a close has seen is still open
when its second statement commits (`SeenStands`), since every commit that ends a
segment settles the closes under way.

`CountsWhileActive` rests on `CountingInv`: the status a transaction read is still
the row's unless somebody stopped it (`ReadStatusStands`), and a stopped row has an
end (`StoppedIsEnded`; the converse is false of a revived row). Hence a pause that
read "paused" finds no open segment but an overlooked one, and a continuation that
read "active" finds one or a row that has ended. `ClosesWork` is what all closings have
in common, the first statement of a close, which changes no table yet, and the second
among them
(`CloseStepFacts`, `FinishCloses`). What the second leaves open it puts into
`overlooked`; that nothing else does is by definition of the steps, so the exception of
`CountsExactlyWhileActive` stays what section 4 describes.

`AppliedOnce` rests on `ReceiptInv`: a device with receipts has a newest one, which
compaction keeps (`NewestExists`, a maximum that needs no induction), and a
transaction past its duplicate check stays the first for its event
(`FreshInTransaction`), since only a request of the same user adds a receipt of the
device. `CommitAddsNewest` says what a commit adds.

`ResendIsRecognised` is not true of every instance, as the attempt to prove it
showed (section 4), so two theorems say when it is: `ResendRecognised` for clocks
that move on and any number of late copies (`LatestIsPending`: the unanswered event
is the latest the server holds), `ResendRecognisedInTurn` for any clock if the copies
of an event come one by one (`OneCopyAtATime`, which a client that retries after a
timeout does not guarantee).

`DesktopOnly` rests on `PolicyStands`: the policy still allows the start that a
transaction in flight was admitted for, because a policy update waits for the policy
lock that such a transaction holds. Administrators that select by `ended_at IS NULL`
reach every row that counts but a revived one and one whose open segment a close
overlooked.

`LoneDeviceDisjoint` and `CreditWitnessed` share `LoneInv`, which ties the segments of
a lone tracker to its receipts. `SegmentsSeen`: no segment reaches past the newest
receipt, and since `Observed` clamps an event to that receipt's time, whatever starts
next starts after everything that ended. `NewestCounts`: while a segment is open
the newest receipt is an active one, so `Lapsed` measures the gap from it whatever
event ends the segment. `CreditsAreWitnessed` extends the property to open segments, up
to the newest receipt, and to all instants, so that a commit may cut a segment
anywhere (idle time, lease) and an instant keeps its witness; compaction keeps the
receipts of the newest time, and says nothing of earlier instants. A commit writes its
own device's segments only (`LoneSegments`): each is kept, ended or started
(`KeptBy`, `EndedBy`, `StartedBy`). The hypothesis
`[][AdministratorsSpareTrackers]_vars` says that no administrator ends a segment that
such a tracker is counting or stops the session it counts in (section 4 says what
happens then): without the second half a close in two statements stops the row of a
segment it never saw, and the device's next start would overlap it. Under it no close
overlooks a segment of a lone tracker (`NoneOverlooked`). It leaves administrators
every other operation and every other device, and the clock, the requests, the copies
and compaction unrestricted.

**`OfflineQueue_proofs`.** `QueueInvHolds` and, from it, `NothingLostEver`,
`RowsKeepTheirImages`, `PendingExact`, `RecoveryIsComplete`, `FilesMatch` and
`OldestDropped`. `QueueInv` adds to the properties what each step may rely on: what
is recorded before a row may go (`Recorded`), that plain images stay until all have
a sealed one (`Sealing`), that a file is on disk before its row (`Capturing`) and
unlinked after it (`Unlinking`), that the count is exact at every step after
recovery (`Counting`), and which files may be outside the queue at each step
(`Lingering`).

**`PayrollDelivery_proofs`.** `TypeCorrect`, `PaysOnce`, `PaysTheFrozenRecipient`,
`RowTellsThePast` and `SettledStays`, for any number of threads, sends and moves of
the provider, with crashes, stalled sends and changed settings. The properties are
not inductive, because a thread records what it read or heard some steps before.
`PayInv` says what it carries (`Carried`): the row's own provider, a reference the
provider gave out, a status that is still true of the past; before it asks for a
transfer, the frozen recipient and, for PayPal, a first claim less than 29 days
old. The last conjunct is what makes `PaysOnce` hold: `Remembered` is false of an
existing transfer only when the claim is thirty days old. `Grows` is what every
step of the provider guarantees to a waiting thread (`OthersCarry`): a payout that
happened has happened, and a final state is final. `SettledStays` then needs only
that `record_payroll_delivery` refuses what would undo a fact (`RecordSettles`).
The model's assumption that no single send lasts a day (`DaysPass`) is used here
and is not proved.

**`AgentTracker_proofs`.** `JournalReplayed`, `TimerJournalled`, `TimelyExit`,
`SampleFound` and `TypeCorrect`, for any number of presses, crashes, launches, lost
answers, refusals and failing writes, and a worker that may outlive the wait.
`JournalIsReplayed` is not inductive: what is applied next depends on what a thread
has sent. `Sent` says that this is the oldest queued event still, or has been dealt
with by the other thread; `Numbered` and `Queued` that the journal's numbers grow
and its rows keep their order; `Replayed` that everything dealt with is older than
everything queued. `Segments` adds, for samples, that an applied active event lies
in a span that goes on to the entry behind it, unless a gap or a deducted idle stretch
follows (`Holds`, `Excused`): no more can be said of a closed span, and what excuses a
sample must go on doing so while later events are applied (`ExcuseStays`). `TimerInv` follows the flag: a change
raises it and it is cleared before the timer is read, so what is read last is what
is journalled. `ExitInv` says that nothing is journalled after the main thread's
stop while the worker is down.

**`TeamInvoices_proofs`.** Four theorems over two invariants. `TimeInv` gives
`PaidOnce` and `PaidEntriesStayApproved`. Apart periods are not enough for the
first, because a run is compared with the rows one step and inserted in another:
`Alone` (the member's lock) and `Compared` bridge the two, and `PaysOnce` says that a
row pays its own period by the days of the zone its run had read, no two pieces of it
overlapping; two rows of one zone then share nothing. For the second, `Deciding` says that a review of an entry which an
approved timesheet covers has been marked as overtaken. `BillInv` gives `BilledOnce`
and `LoneSealsHeal`: claims stay apart although the time was read two transactions
before, because the unique key decides at the claim (`Disjoint`); a total remains
the sum of its claims because what is claimed has a settled length (`Charged`,
`Fixed`); and a seal that meets no other and no change leaves the row with the
object and version it recorded (`LoneSeals`). The sums are the fold of the community
modules, and the proof needs only that equal lengths give equal sums.

**`Credentials_proofs`.** `NewestKept`, `OneSpenderAlways`, `CallbackDecidesAlways`
and `VaultInvAlways`, for any number of callers, authorizations, keys, expiries and
faults. A claim pins the row (`Owned`), and a caller that spends the row's grant
holds the claim (`Held`), unless the grant is excused by a fault the protocol cannot
mask. `Received`: a token that came back is the newest until it is recorded, since
nobody else may spend meanwhile. `Unmoved`: the revision that a rewrap read
identifies what it read, which is false exactly after a disconnect and a reconnect
(section 4). `Waiting`: a grant that its flow has not stored yet is known to nobody
else. `TurnedDown`: a refused grant is in the row only while its flow still has to
roll it back; this half of `CallbackDecides` needs the other parts, the other half
is proved action by action.

**`Outboxes_proofs`.** `KeepsLedger`: `Outboxes` implements `ExportLedger`, for any
number of replicas, totals and faults and every mode. The initial states map to
initial states; every action that neither calls the provider nor stages is a
stutter (`QuietStep`), and staging, creating, updating and withdrawing an entry are
`Ask`, `Show` and `Withdraw` (`LedgerStep`). What makes a created entry a step of
the ledger is `Single`: a worker about to create one has seen that there is none,
and by `Exclusive` nobody else has called meanwhile. `OneEntryADay` says the same in
the terms of `Outboxes`. `DeliveredShown` rests on `Delivered`: without a lost answer, an
outlived claim or a foreign deletion, the provider shows what the row recorded, or
what the worker standing before its record just wrote. `SentOnceAlways` covers
messages (`Posted`) and reports (`Mailed`); a message needs the job's lease as well
(`JobHeld`), because Slack's claim does not look at its claim again.

**`IssueSync_proofs`.** `OpenTasksStay`, `TimersFollowTheTask` and `SyncInvHolds`, for
the three providers, any number of passes, deliveries and projects and any bounds.
The timer needs `Placed`: the task lies where its issue is mapped to, and so does its
timer unless it was adopted or inserted too late (`InTime`). For the other, `Sound` is what holds of every version of
the issue in circulation, whether a pass has listed it or a webhook carries it: if it
says closed, then either the issue was meant to be closed or the task already knows a
newer version and `Observe` refuses it as stale. `Missed` is about a pass that stands
before archiving: if nobody observed the task since its snapshot, the issue was gone
when it listed, or the pass was cut, or Jira's index lagged; in the last case, if an
earlier pass had missed the task as well, the two lie within one day (`rushed`). This
uses that the model lets the index lag once, which is why section 4 lists a lag that
covers two daily passes.

Only model-checked: all liveness (`EveryCaptureLeaves`, `ServerConverges`,
`EndsOnceStopped`, `ProcessingIsResolved`, `AccessComesBack`, `EverythingGoesOut`,
`SyncConverges`), because TLAPS reasons neither about fairness nor about ENABLED.
Every invariant and every action property that a passing run checks is a theorem;
`ResendIsRecognised`, `LoneDeviceTimeDisjoint` and `CreditIsWitnessed` under the
hypotheses named above, which their theorems state. No definition is `RECURSIVE`; what
recursive data computes would need induction that the prover cannot instantiate.

## 6. Plan

1. Done: `WorkSessions`, `OfflineQueue`, `AgentTracker`, `PayrollDelivery`.
2. Done: `Credentials`, `Outboxes` with the refinement of `ExportLedger`,
   `IssueSync`, `PaidTime`, `TeamInvoices`, with first proofs of the last two.
3. Done: proofs of `AgentTracker`, `PaidTime`, `TeamInvoices`, `Credentials`,
   `IssueSync`, `Outboxes` with the refinement of `ExportLedger`, and the receipt,
   counting and policy properties of `WorkSessions`, and the time of a lone tracker.
4. `Ingestion` and retention: object before row, duplicate ids, cover by a
   segment, objects deleted before rows.
5. `AutomaticTracking` beside `AgentTracker`; the composition of `AgentTracker`
   with the two-device engine (transition marks); the phone's and the field page's
   journals.
6. Payroll calculation (weekly split, overtime) and the report calendar as
   operators checked against a reference; update installer; restore order.

## 7. Not modelled

Sign-in, SSO, SCIM parsing, rate limits and encryption are request-local or
cryptography. Dashboards, exports, client invoices and IIF read and render. Capture,
active-window and installer code calls the operating system. Migrations,
configuration and metrics have no protocol. Time-off requests, which a submission
also waits for, texts of issues, worklogs and messages, notification rules,
assignees of Asana tasks and the purges of webhook receipts are left out of the
modules of their components. The remaining parts of section 1 are planned in
section 6; `PROJECT.json` gives the reason for each.
