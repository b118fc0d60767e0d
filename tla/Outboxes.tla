------------------------------ MODULE Outboxes ------------------------------
(***************************************************************************)
(* The four outboxes that periodic jobs empty: the Jira worklogs and Asana *)
(* comments of a day's time, the Slack notifications, and the scheduled    *)
(* reports.  They share a discipline.  A replica takes the job's lease     *)
(* (background_jobs.py), claims a due row with a token and a lease, talks  *)
(* to the provider, and records the outcome if the token is still its own. *)
(* Exports are first staged from the days that triggers marked dirty.      *)
(*                                                                         *)
(* A behaviour follows one kind of outbox, drawn at Init: one exported     *)
(* day, one report, or two messages to one destination.  Each statement    *)
(* and each provider call is a step.  Accounts of the connected person are *)
(* in module Credentials; here the account stays the same.                 *)
(***************************************************************************)
EXTENDS Integers, FiniteSets, Sequences, SequencesExt

CONSTANTS
  Workers,      \* replicas of the server, each running the job
  Nobody,       \* no claim, no lease
  Kinds,        \* the outboxes looked at
  Modes,        \* synchronization modes looked at
  MaxSeconds,   \* bound on a day's total
  MaxChanges,   \* bound on changes of the day's total
  MaxSwitches,  \* bound on what administrators and members switch
  MaxFaults,    \* bound on failed calls, crashes, outlived leases, foreign deletions
  DiscardAfter  \* discard_after_attempts

ASSUME OutboxAssumption ==
  /\ Nobody \notin Workers
  /\ Kinds \subseteq {"worklog", "comment", "message", "report"}
  /\ Modes \subseteq {"hourly", "daily", "delayed", "completed"}
  /\ {MaxSeconds, MaxChanges, MaxSwitches, MaxFaults} \subseteq Nat
  /\ DiscardAfter \in Nat \ {0}

Totals == 0 .. MaxSeconds
Gone == -1       \* an entry that is no longer at the provider
Never == -1      \* synced_seconds IS NULL
Items == {1, 2}

NoRow == [state |-> "none", want |-> 0, have |-> Never, pid |-> 0,
          claim |-> Nobody, lapsed |-> FALSE, wait |-> FALSE, tries |-> 0]
Queued == [NoRow EXCEPT !.state = "open"]
Idle == [pc |-> "idle", item |-> 1, want |-> 0, pid |-> 0, call |-> "none"]

VARIABLES
  kind,     \* which outbox
  link,     \* its connection, destination or schedule: "none", "off" or "on"
  mode,     \* time_sync_mode of the connection
  age,      \* days since the work date
  done,     \* the Asana task is no longer active
  source,   \* seconds tracked on the day
  dirty,    \* the day is in *_dirty_days
  rest,     \* the connection's next_worklog_sync_at or next_comment_sync_at is ahead
  rows,     \* the outbox
  entries,  \* what the provider was given for the day: totals, by number
  sends,    \* messages or mails that went out and are not recorded, by row
  job,      \* background_job_leases of the job
  proc,     \* workers
  asked,    \* history: totals staged
  excused,  \* history: what went wrong
  used      \* budgets spent

day == <<age, done, source, dirty, rest>>
vars == <<kind, link, mode, day, rows, entries, sends, job, proc, asked, excused, used>>

Exporting == kind \in {"worklog", "comment"}
Live == {i \in DOMAIN entries : entries[i] # Gone}
Becomes(w, r) == proc' = [proc EXCEPT ![w] = r]
Goes(w, pc) == Becomes(w, [proc[w] EXCEPT !.pc = pc])
Spend(what) == used' = [used EXCEPT ![what] = @ + 1]
Fault == used.faults < MaxFaults /\ Spend("faults")
Row(w) == rows[proc[w].item]
Working(w) == proc[w].pc \in {"renew", "call", "mark", "fail"}

TypeOK ==
  /\ kind \in Kinds /\ link \in {"none", "off", "on"} /\ mode \in Modes
  /\ age \in 0 .. 2 /\ done \in BOOLEAN /\ source \in Totals /\ {dirty, rest} \subseteq BOOLEAN
  /\ \A i \in Items :
       /\ rows[i].state \in {"none", "open", "sent", "discarded"}
       /\ rows[i].want \in Totals /\ rows[i].have \in Totals \cup {Never}
       /\ rows[i].pid \in 0 .. Len(entries)
       /\ rows[i].claim \in Workers \cup {Nobody}
       /\ rows[i].tries \in 0 .. DiscardAfter
       /\ rows[i].state = "open" => rows[i].tries < DiscardAfter
  /\ \A i \in DOMAIN entries : entries[i] \in Totals \cup {Gone}
  /\ job.owner \in Workers \cup {Nobody} /\ asked \subseteq Totals
  /\ excused \subseteq {"lost", "stall", "overrun", "raced", "removed"}

-----------------------------------------------------------------------------
(***************************************************************************)
(* Time is tracked.  A trigger on the segments and manual entries marks    *)
(* the day; time outside an authorization period does not count.           *)
(***************************************************************************)
Marks(n) ==
  /\ used.changes < MaxChanges /\ Spend("changes")
  /\ source' = (IF link = "none" THEN source ELSE n) /\ dirty' = TRUE
  /\ excused' = excused \cup (IF \E w \in Workers : proc[w].pc = "staging"
                              THEN {"raced"} ELSE {})
  /\ UNCHANGED <<kind, link, mode, age, done, rest, rows, entries, sends, job, proc, asked>>

MarkJiraDay == kind = "worklog" /\ \E n \in Totals \ {source} : Marks(n)
MarkAsanaDay == kind = "comment" /\ \E n \in Totals \ {source} : Marks(n)

\* Days matter only to the modes that wait for them.
Midnight ==
  /\ Exporting /\ mode \in {"daily", "delayed"} /\ age < 2 /\ age' = age + 1
  /\ UNCHANGED <<kind, link, mode, done, source, dirty, rest, rows, entries, sends, job,
                 proc, asked, excused, used>>
CompleteTask ==
  /\ kind = "comment" /\ ~done /\ done' = TRUE
  /\ UNCHANGED <<kind, link, mode, age, source, dirty, rest, rows, entries, sends, job,
                 proc, asked, excused, used>>

\* The day of a mode is over: today, before today, before yesterday.
Ripe ==
  \/ mode = "hourly"
  \/ mode = "daily" /\ age >= 1
  \/ mode = "delayed" /\ age >= 2
  \/ mode = "completed" /\ done

-----------------------------------------------------------------------------
(***************************************************************************)
(* The job.  A replica that holds the lease may run it again; others wait  *)
(* until the lease is over, whether the run has ended or not.              *)
(***************************************************************************)
ClaimJobAnyway(w) == TRUE
claim_background_job(w) == job.owner \in {Nobody, w} \/ job.lapsed

RunJob(w) ==
  /\ proc[w].pc = "idle" /\ claim_background_job(w)
  /\ job' = [owner |-> w, lapsed |-> FALSE]
  /\ Becomes(w, [Idle EXCEPT !.pc = IF Exporting THEN "stage" ELSE "claim"])
  /\ UNCHANGED <<kind, link, mode, day, rows, entries, sends, asked, excused, used>>

\* Shutdown joins the running job and then gives its leases back.
release_background_jobs(w) ==
  /\ proc[w].pc = "idle" /\ job.owner = w
  /\ job' = [owner |-> Nobody, lapsed |-> FALSE]
  /\ UNCHANGED <<kind, link, mode, day, rows, entries, sends, proc, asked, excused, used>>

(***************************************************************************)
(* Staging, under a lock on the connection.  One statement selects and     *)
(* locks the dirty day and sums its time as of the statement's start; a    *)
(* change that commits in between is therefore taken off the list unseen.  *)
(***************************************************************************)
Stage(w) ==
  /\ proc[w].pc = "stage"
  /\ IF link # "on" \/ rest \/ (\E v \in Workers : proc[v].pc = "staging")
     THEN Goes(w, "claim") /\ UNCHANGED <<rest, excused>>
     ELSE IF dirty /\ Ripe
     THEN /\ Becomes(w, [proc[w] EXCEPT !.pc = "staging", !.want = source])
          /\ excused' = excused \ {"raced"} /\ UNCHANGED rest
     ELSE Goes(w, "claim") /\ rest' = TRUE /\ UNCHANGED excused
  /\ UNCHANGED <<kind, link, mode, age, done, source, dirty, rows, entries, sends, job,
                 asked, used>>

Staged(row, n) ==
  IF row.state = "none" THEN [Queued EXCEPT !.want = n]
  ELSE IF row.want = n THEN row ELSE [row EXCEPT !.want = n, !.wait = FALSE]

WriteStaged(w) ==
  /\ proc[w].pc = "staging" /\ Goes(w, "claim") /\ dirty' = FALSE /\ rest' = TRUE
  /\ IF proc[w].want > 0 \/ rows[1].state # "none"
     THEN /\ rows' = [rows EXCEPT ![1] = Staged(@, proc[w].want)]
          /\ asked' = asked \cup {proc[w].want}
     ELSE UNCHANGED <<rows, asked>>
  /\ UNCHANGED <<kind, link, mode, age, done, source, entries, sends, job, excused, used>>

stage_due_jira_worklogs(w) == kind = "worklog" /\ (Stage(w) \/ WriteStaged(w))
stage_due_asana_comments(w) == kind = "comment" /\ (Stage(w) \/ WriteStaged(w))

-----------------------------------------------------------------------------
(***************************************************************************)
(* Claiming a due row.                                                     *)
(***************************************************************************)
FreeUnleased(i) == rows[i].claim = Nobody
Free(i) == rows[i].claim = Nobody \/ rows[i].lapsed
Due(i) == link = "on" /\ rows[i].state = "open" /\ ~rows[i].wait /\ Free(i)
OutOfDate(i) == rows[i].have # rows[i].want

\* What a worklog delivery calls first, given the claimed row.
JiraFirst(row) ==
  IF row.want = 0 THEN (IF row.pid = 0 THEN "nothing" ELSE "delete")
  ELSE IF row.pid = 0 THEN "find" ELSE "put"
AsanaFirst(row) == IF row.pid = 0 THEN "find" ELSE "put"

Claimed(w, i, first) ==
  /\ rows' = [rows EXCEPT ![i].claim = w, ![i].lapsed = FALSE]
  /\ Becomes(w, [pc |-> IF first = "mail" THEN "call" ELSE "renew", item |-> i,
                 want |-> rows[i].want, pid |-> rows[i].pid, call |-> first])

claim_due_jira_worklog_exports(w) ==
  kind = "worklog" /\ Due(1) /\ OutOfDate(1) /\ Claimed(w, 1, JiraFirst(rows[1]))
claim_due_asana_comment_exports(w) ==
  kind = "comment" /\ Due(1) /\ OutOfDate(1) /\ Claimed(w, 1, AsanaFirst(rows[1]))
due_scheduled_reports(w) == kind = "report" /\ Due(1) /\ Claimed(w, 1, "mail")

\* One message per destination at a time.  The statement picks it first and
\* locks it then, without looking at its claim again.
SlackDue == {i \in Items : Due(i) /\ \A j \in Items : rows[j].state = "open" => Free(j)}
PickMessage(w) ==
  kind = "message" /\ \E i \in SlackDue :
    Becomes(w, [proc[w] EXCEPT !.pc = "taking", !.item = i]) /\ UNCHANGED rows

NothingDue ==
  CASE Exporting -> ~(Due(1) /\ OutOfDate(1))
    [] kind = "report" -> ~Due(1)
    [] kind = "message" -> SlackDue = {}

Claim(w) ==
  /\ proc[w].pc = "claim"
  /\ \/ claim_due_jira_worklog_exports(w) \/ claim_due_asana_comment_exports(w)
     \/ due_scheduled_reports(w) \/ PickMessage(w)
     \/ NothingDue /\ Becomes(w, Idle) /\ UNCHANGED rows
  /\ UNCHANGED <<kind, link, mode, day, entries, sends, job, asked, excused, used>>

claim_due_slack_messages(w) ==
  /\ proc[w].pc = "taking"
  /\ IF Row(w).state = "none" THEN Becomes(w, Idle) /\ UNCHANGED rows
     ELSE Claimed(w, proc[w].item, "post")
  /\ UNCHANGED <<kind, link, mode, day, entries, sends, job, asked, excused, used>>

-----------------------------------------------------------------------------
(***************************************************************************)
(* Delivery.  Every call but a report's mail renews the claim first.       *)
(***************************************************************************)
renew_jira_worklog_export_claim(w) == kind = "worklog" /\ Row(w).claim = w
renew_asana_comment_export_claim(w) == kind = "comment" /\ Row(w).claim = w
renew_slack_message_claim(w) ==
  kind = "message" /\ Row(w).claim = w /\ Row(w).state = "open"

Renew(w) ==
  /\ proc[w].pc = "renew"
  /\ IF \/ renew_jira_worklog_export_claim(w) \/ renew_asana_comment_export_claim(w)
        \/ renew_slack_message_claim(w)
     THEN /\ rows' = [rows EXCEPT ![proc[w].item].lapsed = FALSE]
          /\ Goes(w, IF proc[w].call = "nothing" THEN "mark" ELSE "call")
     ELSE UNCHANGED rows /\ Goes(w, "fail")
  /\ UNCHANGED <<kind, link, mode, day, entries, sends, job, asked, excused, used>>

Then(w, call) == [proc[w] EXCEPT !.pc = "renew", !.call = call]
Records(w, pid) == [proc[w] EXCEPT !.pc = "mark", !.pid = pid]

(***************************************************************************)
(* A call to the provider: after is what the provider holds once it has    *)
(* acted, and next what the caller does with the answer.  The call may     *)
(* also fail, before or after the provider acted; nothing is sent for a    *)
(* connection that is gone.                                                *)
(***************************************************************************)
Calling(w, call) == proc[w].pc = "call" /\ proc[w].call = call

Answers(w, after, next) ==
  \/ /\ link # "none" /\ entries' = after /\ Becomes(w, next)
     /\ UNCHANGED <<excused, used>>
  \/ /\ link = "none" /\ Goes(w, "fail") /\ UNCHANGED <<entries, excused, used>>
  \/ /\ link # "none" /\ Fault /\ Goes(w, "fail")
     /\ \/ entries' = after /\ excused' = excused \cup {"lost"}
        \/ UNCHANGED <<entries, excused>>

Deliver(w, after, next) ==
  /\ Answers(w, after, next)
  /\ UNCHANGED <<kind, link, mode, day, rows, sends, job, asked>>

DeleteWorklog(w) ==
  /\ Calling(w, "delete")
  /\ Deliver(w, [entries EXCEPT ![proc[w].pid] = Gone], Records(w, 0))

PutFirst(w) ==
  LET n == proc[w].pid IN
  /\ Calling(w, "put")
  /\ IF entries[n] = Gone THEN Deliver(w, entries, Then(w, "find"))   \* 404
     ELSE Deliver(w, [entries EXCEPT ![n] = proc[w].want], Records(w, n))

\* The provider's entries that carry this export's identity.
NoneFound(w) == Then(w, "post")
NoneFoundJira(w) == kind = "worklog" /\ Live = {} /\ Deliver(w, entries, NoneFound(w))
NoneFoundAsana(w) ==
  /\ kind = "comment" /\ Live = {}
  /\ Deliver(w, entries, IF proc[w].want = 0 THEN Records(w, 0) ELSE NoneFound(w))
OneFound(w) ==
  \E n \in Live : Live = {n} /\ Deliver(w, entries, [Then(w, "update") EXCEPT !.pid = n])
SeveralFound(w) ==
  Cardinality(Live) > 1 /\ Deliver(w, entries, [proc[w] EXCEPT !.pc = "fail"])

FindNothing(w) == Calling(w, "find") /\ Deliver(w, entries, NoneFound(w))
Find(w) ==
  /\ Calling(w, "find")
  /\ NoneFoundJira(w) \/ NoneFoundAsana(w) \/ OneFound(w) \/ SeveralFound(w)
find_export_worklog(w) == kind = "worklog" /\ Find(w)
find_export_story(w) == kind = "comment" /\ Find(w)

\* The entry found is written; if somebody deleted it meanwhile, Jira creates
\* another and Asana fails.
PutFound(w) ==
  LET n == proc[w].pid IN
  /\ Calling(w, "update")
  /\ IF entries[n] # Gone
     THEN Deliver(w, [entries EXCEPT ![n] = proc[w].want], Records(w, n))
     ELSE Deliver(w, entries, IF kind = "worklog" THEN Then(w, "post")
                              ELSE [proc[w] EXCEPT !.pc = "fail"])

CreateEntry(w) ==
  /\ Exporting /\ Calling(w, "post")
  /\ Deliver(w, Append(entries, proc[w].want), Records(w, Len(entries) + 1))

deliver_claimed_worklog(w) ==
  kind = "worklog" /\ (DeleteWorklog(w) \/ PutFirst(w) \/ PutFound(w) \/ CreateEntry(w))
deliver_claimed_comment(w) ==
  kind = "comment" /\ (PutFirst(w) \/ PutFound(w) \/ CreateEntry(w))

\* A message or a mail goes out.
GoesOut(w) ==
  /\ \/ sends' = [sends EXCEPT ![proc[w].item] = @ + 1] /\ Goes(w, "mark")
        /\ UNCHANGED <<excused, used>>
     \/ /\ Fault /\ Goes(w, "fail")
        /\ \/ /\ sends' = [sends EXCEPT ![proc[w].item] = @ + 1]
              /\ excused' = excused \cup {"lost"}
           \/ UNCHANGED <<sends, excused>>
  /\ UNCHANGED <<kind, link, mode, day, rows, entries, job, asked>>

PostMessage(w) ==
  /\ kind = "message" /\ Calling(w, "post")
  /\ IF link # "off" THEN GoesOut(w)
     ELSE Goes(w, "fail") /\ UNCHANGED <<kind, link, mode, day, rows, entries, sends,
                                         job, asked, excused, used>>
SendReport(w) == kind = "report" /\ Calling(w, "mail") /\ GoesOut(w)

-----------------------------------------------------------------------------
(***************************************************************************)
(* Recording the outcome, if the claim is still the worker's.              *)
(***************************************************************************)
Unclaimed(row) == [row EXCEPT !.claim = Nobody, !.lapsed = FALSE]
SyncedAsWanted(w) == [Unclaimed(Row(w)) EXCEPT !.pid = proc[w].pid, !.have = Row(w).want,
                                               !.tries = 0, !.wait = FALSE]
Synced(w) == [Unclaimed(Row(w)) EXCEPT !.pid = proc[w].pid, !.have = proc[w].want,
                                       !.tries = 0, !.wait = FALSE]
mark_jira_worklog_export_succeeded(w) == kind = "worklog" /\ Row(w).claim = w
mark_asana_comment_export_succeeded(w) == kind = "comment" /\ Row(w).claim = w
mark_slack_message_succeeded(w) ==
  kind = "message" /\ Row(w).claim = w /\ Row(w).state = "open"
mark_scheduled_report_sent(w) == kind = "report" /\ Row(w).claim = w

\* Jira's job asks for another batch, the others end.
After(w) == Becomes(w, IF kind = "worklog" THEN [Idle EXCEPT !.pc = "claim"] ELSE Idle)

MarkSucceeded(w) ==
  /\ proc[w].pc = "mark"
  /\ \/ /\ \/ mark_jira_worklog_export_succeeded(w)
           \/ mark_asana_comment_export_succeeded(w)
        /\ rows' = [rows EXCEPT ![1] = Synced(w)] /\ After(w) /\ UNCHANGED sends
     \/ /\ mark_slack_message_succeeded(w) /\ After(w) /\ UNCHANGED sends
        /\ rows' = [rows EXCEPT ![proc[w].item] = [Unclaimed(@) EXCEPT !.state = "sent"]]
     \/ /\ mark_scheduled_report_sent(w) /\ After(w)
        /\ rows' = [rows EXCEPT ![1] = [Unclaimed(@) EXCEPT !.wait = TRUE, !.tries = 0]]
        /\ sends' = [sends EXCEPT ![1] = 0]
     \/ /\ Row(w).claim # w \/ (kind = "message" /\ Row(w).state # "open")
        /\ UNCHANGED <<rows, sends>>
        /\ IF kind = "report" THEN Goes(w, "fail") ELSE After(w)
  /\ UNCHANGED <<kind, link, mode, day, entries, job, asked, excused, used>>

Postponed(row) == [Unclaimed(row) EXCEPT !.wait = TRUE]
Discarded(row) ==
  [Postponed(row) EXCEPT !.tries = @ + 1,
                         !.state = IF row.tries + 1 >= DiscardAfter THEN "discarded" ELSE @]

mark_jira_worklog_export_failed(w) == kind = "worklog" /\ Row(w).claim = w
mark_asana_comment_export_failed(w) == kind = "comment" /\ Row(w).claim = w
mark_scheduled_report_failed(w) == kind = "report" /\ Row(w).claim = w
mark_slack_message_failed(w) ==
  kind = "message" /\ Row(w).claim = w /\ Row(w).state = "open"

MarkFailed(w) ==
  /\ proc[w].pc = "fail" /\ After(w)
  /\ \/ /\ \/ mark_jira_worklog_export_failed(w) \/ mark_asana_comment_export_failed(w)
           \/ mark_scheduled_report_failed(w)
        /\ rows' = [rows EXCEPT ![1] = Postponed(@)]
     \/ /\ mark_slack_message_failed(w)
        /\ rows' = [rows EXCEPT ![proc[w].item] = Discarded(@)]
     \/ /\ Row(w).claim # w \/ (kind = "message" /\ Row(w).state # "open")
        /\ UNCHANGED rows
  /\ UNCHANGED <<kind, link, mode, day, entries, sends, job, asked, excused, used>>

-----------------------------------------------------------------------------
(***************************************************************************)
(* Members and administrators.  A switch waits for the staging that holds  *)
(* the connection.                                                         *)
(***************************************************************************)
SwitchTo(to) ==
  /\ used.switches < MaxSwitches /\ Spend("switches") /\ link' = to
  /\ \A w \in Workers : proc[w].pc # "staging"
  /\ UNCHANGED <<kind, age, done, source, entries, job, proc, asked>>
Switch(to) == link # to /\ SwitchTo(to)

SetMode ==
  /\ link # "none" /\ rest' = FALSE
  /\ \/ \E m \in Modes \ (IF kind = "worklog" THEN {"completed"} ELSE {}) :
          SwitchTo("on") /\ mode' = m
     \/ Switch("off") /\ UNCHANGED mode
  /\ UNCHANGED <<dirty, rows, sends, excused>>
set_jira_user_sync_mode == kind = "worklog" /\ SetMode
set_asana_user_sync_mode == kind = "comment" /\ SetMode

\* Disconnecting leaves the exports; connecting again starts a new period.
DisconnectAccount ==
  /\ Exporting /\ Switch("none") /\ UNCHANGED <<mode, dirty, rest, rows, sends, excused>>
ConnectAccount ==
  /\ Exporting /\ link = "none" /\ Switch("on") /\ rest' = FALSE
  /\ UNCHANGED <<mode, dirty, rows, sends, excused>>

\* Slack: the trigger queues one message per event and destination.
Enqueue ==
  /\ kind = "message" /\ link = "on"
  /\ \E i \in Items : /\ rows[i].state = "none" /\ used.queued < i
                      /\ used' = [used EXCEPT !.queued = i]
                      /\ rows' = [rows EXCEPT ![i] = Queued]
  /\ UNCHANGED <<kind, link, mode, day, entries, sends, job, proc, asked, excused>>
remove_slack_destination ==
  /\ kind = "message" /\ link = "on" /\ Switch("none")
  /\ rows' = [i \in Items |-> NoRow] /\ UNCHANGED <<mode, dirty, rest, sends, excused>>
set_slack_destination ==
  /\ kind = "message" /\ link = "none" /\ Switch("on")
  /\ UNCHANGED <<mode, dirty, rest, rows, sends, excused>>
disconnect_slack_integration ==
  /\ kind = "message" /\ link = "on" /\ Switch("off")
  /\ rows' = [i \in Items |-> IF rows[i].state = "sent" THEN rows[i] ELSE NoRow]
  /\ UNCHANGED <<mode, dirty, rest, sends, excused>>
upsert_slack_workspace ==
  /\ kind = "message" /\ link = "off" /\ Switch("on")
  /\ UNCHANGED <<mode, dirty, rest, rows, sends, excused>>
purge_slack_outbox ==
  /\ kind = "message"
  /\ \E i \in Items : /\ rows[i].state \in {"sent", "discarded"}
                      /\ rows' = [rows EXCEPT ![i] = NoRow]
  /\ UNCHANGED <<kind, link, mode, day, entries, sends, job, proc, asked, excused, used>>

\* A report is switched off or on: a running delivery loses its claim, and
\* switching on starts at the next regular time.
Rescheduled(row, to) == [Unclaimed(row) EXCEPT !.wait = @ \/ to = "on"]
set_scheduled_report_enabled ==
  /\ kind = "report" /\ rows[1].state = "open"
  /\ \E to \in {"on", "off"} :
       /\ SwitchTo(to)
       /\ rows' = [rows EXCEPT ![1] = Rescheduled(@, to)]
  /\ excused' = excused \cup (IF \E w \in Workers : Working(w) THEN {"lost"} ELSE {})
  /\ sends' = [sends EXCEPT ![1] = 0] /\ UNCHANGED <<mode, dirty, rest>>
delete_scheduled_report ==
  /\ kind = "report" /\ Switch("none")
  /\ rows' = [rows EXCEPT ![1] = NoRow] /\ UNCHANGED <<mode, dirty, rest, sends, excused>>

-----------------------------------------------------------------------------
(***************************************************************************)
(* Time and faults.                                                        *)
(***************************************************************************)
RowComesDue(i) ==
  /\ rows[i].wait /\ rows' = [rows EXCEPT ![i].wait = FALSE]
  /\ UNCHANGED <<kind, link, mode, day, entries, sends, job, proc, asked, excused, used>>
SyncComesDue ==
  /\ rest /\ rest' = FALSE
  /\ UNCHANGED <<kind, link, mode, age, done, source, dirty, rows, entries, sends, job,
                 proc, asked, excused, used>>

\* A worker that is still at it when its claim or the job's lease ends.
Outlives(excuse) ==
  Fault /\ excused' = excused \cup {excuse}
Holds(w, i) == w # Nobody /\ Working(w) /\ proc[w].item = i

ClaimLapses ==
  /\ \E i \in Items :
       /\ rows[i].claim # Nobody /\ ~rows[i].lapsed
       /\ rows' = [rows EXCEPT ![i].lapsed = TRUE]
       /\ IF Holds(rows[i].claim, i) THEN Outlives("stall") ELSE UNCHANGED <<used, excused>>
  /\ UNCHANGED <<kind, link, mode, day, entries, sends, job, proc, asked>>
JobLeaseLapses ==
  /\ job.owner # Nobody /\ ~job.lapsed /\ job' = [job EXCEPT !.lapsed = TRUE]
  /\ IF proc[job.owner].pc # "idle" THEN Outlives("overrun") ELSE UNCHANGED <<used, excused>>
  /\ UNCHANGED <<kind, link, mode, day, rows, entries, sends, proc, asked>>

Crash(w) ==
  /\ proc[w].pc # "idle" /\ Fault
  /\ Becomes(w, Idle)
  /\ excused' = excused \cup (IF proc[w].pc \in {"call", "mark", "renew"} THEN {"lost"} ELSE {})
  /\ UNCHANGED <<kind, link, mode, day, rows, entries, sends, job, asked>>

\* Somebody deletes the entry at the provider.
RemovedThere ==
  /\ Fault
  /\ \E n \in Live : entries' = [entries EXCEPT ![n] = Gone]
  /\ excused' = excused \cup {"removed"}
  /\ UNCHANGED <<kind, link, mode, day, rows, sends, job, proc, asked>>

-----------------------------------------------------------------------------
Init ==
  /\ kind \in Kinds /\ link = "on" /\ mode \in Modes
  /\ (mode = "completed" => kind = "comment")
  /\ (kind \in {"message", "report"} => mode = CHOOSE m \in Modes : m # "completed")
  /\ age = 0 /\ done = FALSE /\ source = 0 /\ dirty = FALSE /\ rest = FALSE
  /\ rows = [i \in Items |-> IF kind = "report" /\ i = 1
                             THEN [Queued EXCEPT !.wait = TRUE] ELSE NoRow]
  /\ entries = << >> /\ sends = [i \in Items |-> 0]
  /\ job = [owner |-> Nobody, lapsed |-> FALSE]
  /\ proc = [w \in Workers |-> Idle] /\ asked = {} /\ excused = {}
  /\ used = [changes |-> 0, switches |-> 0, faults |-> 0, queued |-> 0]

\* What a worker does by itself once the job runs.
Step(w) ==
  \/ stage_due_jira_worklogs(w) \/ stage_due_asana_comments(w)
  \/ Claim(w) \/ claim_due_slack_messages(w) \/ Renew(w)
  \/ deliver_claimed_worklog(w) \/ deliver_claimed_comment(w)
  \/ find_export_worklog(w) \/ find_export_story(w)
  \/ PostMessage(w) \/ SendReport(w) \/ MarkSucceeded(w) \/ MarkFailed(w)

People ==
  \/ MarkJiraDay \/ MarkAsanaDay \/ CompleteTask \/ Enqueue
  \/ set_jira_user_sync_mode \/ set_asana_user_sync_mode
  \/ DisconnectAccount \/ ConnectAccount
  \/ remove_slack_destination \/ disconnect_slack_integration \/ set_slack_destination
  \/ upsert_slack_workspace
  \/ set_scheduled_report_enabled \/ delete_scheduled_report \/ RemovedThere

Next ==
  \/ \E w \in Workers : Step(w) \/ RunJob(w) \/ release_background_jobs(w) \/ Crash(w)
  \/ People \/ purge_slack_outbox \/ Midnight
  \/ (\E i \in Items : RowComesDue(i)) \/ SyncComesDue \/ ClaimLapses \/ JobLeaseLapses

\* Jobs are started again and again and run on; days, retry times and leases pass.
Fairness ==
  /\ \A w \in Workers : WF_vars(Step(w))
  /\ WF_vars(\E w \in Workers : RunJob(w))
  /\ \A i \in Items : WF_vars(RowComesDue(i))
  /\ WF_vars(Midnight) /\ WF_vars(SyncComesDue)
  /\ WF_vars(ClaimLapses) /\ WF_vars(JobLeaseLapses)

Spec == Init /\ [][Next]_vars /\ Fairness

-----------------------------------------------------------------------------
(***************************************************************************)
(* Properties.                                                             *)
(***************************************************************************)
Shown == {entries[n] : n \in Live}
Expected(t) ==
  IF t > 0 THEN {{t}} ELSE IF kind = "comment" THEN {{}, {0}} ELSE {{}}
Resting(i) ==
  rows[i].state = "open" /\ rows[i].claim = Nobody /\ rows[i].have = rows[i].want

\* A row that says it is delivered and has no deliverer shows its total at the
\* provider: a total that changed while an older one was on its way is not
\* taken for delivered.  README.md tells what lost answers leave behind.
DeliveredIsShown ==
  Exporting /\ Resting(1) /\ excused \subseteq {"raced", "overrun"} => Shown \in Expected(rows[1].want)

\* A message or report goes out once unless an answer was lost, a worker died
\* or its claim ran out.  A report's claim is enough for that; a message's two
\* steps are safe only while the job's lease keeps the other replicas out.
SentOnce ==
  kind \in {"message", "report"} /\ excused \subseteq {"overrun"}
    /\ (kind = "message" => excused = {})
  => \A i \in Items : sends[i] <= 1

\* The provider keeps to the ledger: one entry a day, whatever answers are lost
\* and whoever crashes, and it shows a total that was asked for.
Ledger == INSTANCE ExportLedger WITH
            shown <- {<<n, entries[n]>> : n \in Live}, loose <- "stall" \in excused
KeepsTheLedger == Ledger!Spec

\* What is due is delivered or given up in the end, and a change of the day is
\* staged before that: a lost claim, a lost lease and a failed attempt each leave
\* the row to a later run.  A change that raced the staging statement is lost
\* until the next one.
Outstanding(i) ==
  /\ link = "on" /\ rows[i].state = "open"
  /\ CASE Exporting -> OutOfDate(i)
       [] kind = "message" -> TRUE
       [] kind = "report" -> ~rows[i].wait
InTheOutbox == IF rows[1].state = "none" THEN source = 0 ELSE rows[1].want = source
Staging == (Exporting /\ dirty) ~>
  \/ ~dirty /\ InTheOutbox
  \/ link # "on" \/ (mode = "completed" /\ ~done) \/ "raced" \in excused
EverythingGoesOut == Staging /\ \A i \in Items : Outstanding(i) ~> ~Outstanding(i)
=============================================================================
