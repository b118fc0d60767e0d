----------------------------- MODULE IssueSync -----------------------------
(***************************************************************************)
(* Issue import: jira_integration.py, asana_integration.py and             *)
(* github_integration.py keep Dayfinch tasks equal to the issues of mapped *)
(* projects.  One integration, one mapping and one issue; the scheduled    *)
(* job, the owner's "sync now" and, for GitHub, webhooks work on them at   *)
(* once.                                                                   *)
(*                                                                         *)
(* Each statement that reads or writes the database is a step; a provider  *)
(* call is one with the claim renewal that precedes it.  Times are kept as *)
(* the comparisons the code makes: which running passes took their         *)
(* snapshot before the task was last observed, and which of them after it  *)
(* was first missed.                                                       *)
(***************************************************************************)
EXTENDS Integers, Sequences, FiniteSets, SequencesExt

CONSTANTS
  Workers,     \* threads that run a pass: the job of a replica, "sync now"
  Nobody,      \* no claim
  Gone,        \* the claim of a pass that died
  Projects,    \* Dayfinch projects
  NoProject,
  Scopes       \* the integrations and bounds to explore: provider, and how many
               \* changes at the provider (edits), operations of the owner
               \* (owner), crashes, failed calls and overrun leases (faults)
               \* and GitHub webhook deliveries (hooks) there are, and whose
               \* passes (workers)

ASSUME WorkersAssumption == Nobody \notin Workers /\ Gone \notin Workers
ASSUME ProjectsAssumption == NoProject \notin Projects
ASSUME ScopesAssumption ==
  Scopes \subseteq [provider : {"jira", "asana", "github"}, edits : Nat, owner : Nat,
                    faults : Nat, hooks : Nat, workers : SUBSET Workers]

VARIABLES
  scope,       \* never changes
  issue,       \* at the provider: whether it is there, open, its version, and
               \* whether the search index has not caught up with it (Jira)
  access,      \* whether the grant still reaches the project
  link,        \* integrations.enabled
  rest,        \* next_sync_at is ahead
  claim,       \* sync_claim_token, sync_claim_until of the integration
  mapping,
  task,
  timer,       \* the project of the task's open work session, and the project
               \* in which a start in flight found the task active
  fresh,       \* passes whose snapshot precedes external_observed_at
  older,       \* passes whose snapshot follows external_missing_since
  order,       \* running passes by snapshot
  proc,
  hooks,       \* integration_webhook_deliveries and their payloads
  meant,       \* history: since the task was seen open somebody closed or
               \* unmapped it
  rushed,      \* history: a full pass was made and its day is not over
  excused,     \* history: README.md tells of these.  A disconnect cut a GitHub
               \* or Asana pass short; a second full Jira pass began after the
               \* first had missed the issue, within the same day; a project
               \* was mapped under the running timer of its old task
  used

provider == scope.provider
world == <<scope, issue, access>>
settings == <<link, rest, claim>>
marks == <<fresh, older, order>>
history == <<meant, rushed, excused>>
vars == <<scope, issue, access, link, rest, claim, mapping, task, timer, fresh,
          older, order, proc, hooks, meant, rushed, excused, used>>

NoIssue == [version |-> 0, open |-> FALSE]
NoTask == [status |-> "none", version |-> 0, project |-> NoProject,
           readonly |-> FALSE, missing |-> FALSE]
NoMapping == [project |-> NoProject, full |-> FALSE, behind |-> FALSE,
              renamed |-> FALSE, owner |-> Nobody, lapsed |-> FALSE]
Unclaimed == [owner |-> Nobody, lapsed |-> FALSE]
\* late: history, the session was inserted when the task was no longer active in
\* its project.
NoTimer == [project |-> NoProject, late |-> FALSE, start |-> NoProject]
Idle == [pc |-> "idle", project |-> NoProject, access |-> FALSE, renamed |-> FALSE,
         full |-> FALSE, behind |-> FALSE, late |-> FALSE, got |-> NoIssue,
         seen |-> FALSE]

Mapped == mapping # NoMapping
Imported == task # NoTask
Running == {w \in Workers : proc[w].pc # "idle"}

Versions == 0..scope.edits + 1
TypeOK ==
  /\ scope \in Scopes /\ access \in BOOLEAN /\ link \in BOOLEAN /\ rest \in BOOLEAN
  /\ issue \in [there : BOOLEAN, open : BOOLEAN, version : Versions, hidden : BOOLEAN]
  /\ claim \in [owner : Workers \cup {Nobody, Gone}, lapsed : BOOLEAN]
  /\ mapping \in [project : Projects \cup {NoProject}, full : BOOLEAN, behind : BOOLEAN,
                  renamed : BOOLEAN, owner : Workers \cup {Nobody, Gone}, lapsed : BOOLEAN]
  /\ task \in [status : {"none", "active", "archived"}, version : Versions,
               project : Projects \cup {NoProject}, readonly : BOOLEAN, missing : BOOLEAN]
  /\ timer \in [project : Projects \cup {NoProject}, late : BOOLEAN,
                start : Projects \cup {NoProject}]
  /\ fresh \subseteq Running /\ older \subseteq Running
  /\ ToSet(order) \subseteq Running /\ IsInjective(order)
  /\ proc \in [Workers ->
       [pc : {"idle", "list", "decide", "take", "search", "renew", "apply", "archive",
              "mark", "finish", "release", "fail"},
        project : Projects \cup {NoProject}, access : BOOLEAN, renamed : BOOLEAN,
        full : BOOLEAN, behind : BOOLEAN, late : BOOLEAN,
        got : [version : Versions, open : BOOLEAN], seen : BOOLEAN]]
  /\ hooks \in [1..scope.hooks -> [state : {"none", "sent", "received", "applied", "stuck",
                                         "failed", "done"},
                                event : {"issues", "installation_repositories", "installation"},
                                version : Versions, open : BOOLEAN]]
  /\ meant \in BOOLEAN /\ rushed \in BOOLEAN
  /\ excused \subseteq {"cut", "rushed", "adopted"}

Left(kind) == used[kind] < scope[kind]
Spend(kind) == used' = [used EXCEPT ![kind] = @ + 1]

Goes(w, pc) == proc' = [proc EXCEPT ![w].pc = pc]
Winds(w, pc) == proc' = [proc EXCEPT ![w] = [Idle EXCEPT !.pc = pc]]
\* Where an error inside the pass leads: Asana gives its mapping back first.
Raised == IF provider = "asana" THEN "release" ELSE "fail"

(***************************************************************************)
(* What a transaction does to the task.                                    *)
(***************************************************************************)
CloseTaskSessions == timer' = [NoTimer EXCEPT !.start = timer.start]

\* A pass takes its snapshot: it follows all that was recorded so far.
TakeSnapshot(w) ==
  /\ fresh' = fresh \ {w}
  /\ older' = IF task.missing THEN older \cup {w} ELSE older
  /\ order' = Append(SelectSeq(order, LAMBDA v : v # w), w)
Later(w) == {v \in Running : \E i, j \in DOMAIN order : i < j /\ order[i] = w /\ order[j] = v}

\* A pass ends: its snapshot is compared with nothing any more.
Ends(w) ==
  /\ proc' = [proc EXCEPT ![w] = Idle]
  /\ fresh' = fresh \ {w} /\ older' = older \ {w}
  /\ order' = SelectSeq(order, LAMBDA v : v # w)

Current == [version |-> issue.version, open |-> issue.open]
Applies == Mapped /\ link
Status(got) == IF got.open THEN "active" ELSE "archived"

\* The task becomes what was got, unless it knows something newer.
StaleIssue(got) == task.version > got.version
Observe(got, missing, after) ==
  IF ~Applies \/ StaleIssue(got) THEN UNCHANGED <<task, timer, fresh, older, meant>>
  ELSE /\ task' = [status |-> Status(got), version |-> got.version,
                   project |-> mapping.project, readonly |-> TRUE, missing |-> missing]
       /\ IF Imported /\ ~got.open THEN CloseTaskSessions ELSE UNCHANGED timer
       /\ fresh' = Running /\ older' = after
       /\ meant' = (meant /\ ~(issue.there /\ got = Current /\ got.open))
apply_jira_issue(got) == provider = "jira" /\ Observe(got, FALSE, {})
apply_asana_task(got) == provider = "asana" /\ Observe(got, FALSE, {})
apply_github_issue(got) == provider = "github" /\ Observe(got, task.missing, older)

\* Archive what a full listing did not return (GitHub: at once; Jira and Asana:
\* when an earlier full pass had missed it too), unless it was observed since.
Unobserved(w) == w \notin fresh
archive_missing_github_issues(w) ==
  /\ provider = "github"
  /\ IF Imported /\ ~proc[w].seen /\ Unobserved(w)
     THEN task' = [task EXCEPT !.status = "archived"] /\ CloseTaskSessions
     ELSE UNCHANGED <<task, timer>>
  /\ UNCHANGED older
MissedEver(w) == task.missing
MissedBefore(w) == task.missing /\ w \in older
Reconcile(w) ==
  \/ /\ Imported /\ proc[w].seen
     /\ task' = [task EXCEPT !.missing = FALSE] /\ older' = {} /\ UNCHANGED timer
  \/ /\ Imported /\ ~proc[w].seen /\ Unobserved(w) /\ MissedBefore(w)
     /\ task' = [task EXCEPT !.status = "archived"] /\ CloseTaskSessions
     /\ UNCHANGED older
  \/ /\ Imported /\ ~proc[w].seen /\ Unobserved(w) /\ ~task.missing
     /\ task' = [task EXCEPT !.missing = TRUE] /\ older' = Later(w) /\ UNCHANGED timer
  \/ /\ \/ ~Imported
        \/ ~proc[w].seen /\ ~Unobserved(w)
        \/ ~proc[w].seen /\ task.missing /\ ~MissedBefore(w)
     /\ UNCHANGED <<task, timer, older>>
archive_missing_jira_issues(w) == provider = "jira" /\ Reconcile(w)
reconcile_asana_project_tasks(w) == provider = "asana" /\ Reconcile(w)

\* A new mapping begins with a full pass; a changed one keeps its cursor, but
\* at Asana it is due at once and whoever holds it loses it.
NewMapping(p) == [NoMapping EXCEPT !.project = p, !.full = TRUE, !.behind = TRUE]
Stays(p) == FALSE
Moves(p) == Mapped /\ mapping.project # p
MapTo(p, changed) ==
  /\ mapping' = IF Mapped THEN changed ELSE NewMapping(p)
  /\ task' = IF Imported THEN [task EXCEPT !.project = p] ELSE task
  /\ IF Moves(p) THEN CloseTaskSessions ELSE UNCHANGED timer
  /\ rest' = FALSE
  /\ excused' = IF ~Mapped /\ timer.project \notin {NoProject, p} /\ ~timer.late
                THEN excused \cup {"adopted"} ELSE excused
set_jira_project_mapping(p) ==
  provider = "jira" /\ link /\ MapTo(p, [mapping EXCEPT !.project = p])
set_asana_project_mapping(p) ==
  /\ provider = "asana" /\ link
  /\ MapTo(p, [mapping EXCEPT !.project = p, !.full = TRUE, !.owner = Nobody, !.lapsed = FALSE])
set_github_project_mapping(p) ==
  provider = "github" /\ link /\ MapTo(p, [mapping EXCEPT !.project = p, !.renamed = FALSE])

Unmap ==
  /\ Mapped /\ mapping' = NoMapping
  /\ task' = IF Imported THEN [task EXCEPT !.status = "archived"] ELSE task
  /\ CloseTaskSessions
  /\ meant' = TRUE
remove_jira_project_mapping == provider = "jira" /\ Unmap
remove_asana_project_mapping == provider = "asana" /\ Unmap
remove_github_project_mapping == provider = "github" /\ Unmap

\* Disconnecting makes the tasks ordinary ones.
LetGo ==
  /\ link' = FALSE /\ claim' = Unclaimed
  /\ task' = IF Imported THEN [task EXCEPT !.readonly = FALSE] ELSE task
  /\ UNCHANGED <<world, rest, mapping, timer, marks, history>>
disconnect_jira_integration == provider = "jira" /\ LetGo
disconnect_asana_integration == provider = "asana" /\ LetGo
disconnect_github_integration == provider = "github" /\ LetGo

(***************************************************************************)
(* Claiming, by the job when next_sync_at has come and by the owner's      *)
(* "sync now" at any time.                                                 *)
(***************************************************************************)
ClaimFreeUnleased == claim.owner = Nobody
ClaimFree == claim.owner = Nobody \/ claim.lapsed
claim_jira_integration == provider = "jira" /\ link /\ ClaimFree
claim_asana_integration == provider = "asana" /\ link /\ ClaimFree
claim_github_integration == provider = "github" /\ link /\ ClaimFree
claim_due_jira_integrations == provider = "jira" /\ link /\ ~rest /\ ClaimFree
claim_due_asana_integrations == provider = "asana" /\ link /\ ~rest /\ ClaimFree
claim_due_github_integrations == provider = "github" /\ link /\ ~rest /\ ClaimFree

\* Threads are alike: the first one free takes the pass.
FreeThread == CHOOSE v \in scope.workers \ Running : TRUE
Begins(w) ==
  /\ w \in scope.workers \ Running /\ w = FreeThread
  /\ claim' = [owner |-> w, lapsed |-> FALSE]
  /\ UNCHANGED <<world, link, rest, mapping, task, timer, hooks, history>>
\* Jira and GitHub take one snapshot for all mappings of the pass, Asana one
\* for each; the claim that goes before it is part of the step.
BeginsListing(w) ==
  Begins(w) /\ proc' = [proc EXCEPT ![w] = [Idle EXCEPT !.pc = "list"]] /\ TakeSnapshot(w)
BeginsTaking(w) ==
  Begins(w) /\ proc' = [proc EXCEPT ![w] = [Idle EXCEPT !.pc = "take"]] /\ UNCHANGED marks

JiraSyncDue(w) == claim_due_jira_integrations /\ BeginsListing(w)
AsanaSyncDue(w) == claim_due_asana_integrations /\ BeginsTaking(w)
GitHubSyncDue(w) == claim_due_github_integrations /\ BeginsListing(w)
SyncDue(w) == (JiraSyncDue(w) \/ AsanaSyncDue(w) \/ GitHubSyncDue(w)) /\ UNCHANGED used

JiraSyncNow(w) == claim_jira_integration /\ BeginsListing(w)
AsanaSyncNow(w) == claim_asana_integration /\ BeginsTaking(w)
GitHubSyncNow(w) == claim_github_integration /\ BeginsListing(w)

Owns(w) == link /\ claim.owner = w
Extended == claim' = [claim EXCEPT !.lapsed = FALSE]
renew_jira_sync_claim(w) == provider = "jira" /\ Owns(w) /\ Extended
renew_asana_sync_claim(w) == provider = "asana" /\ Owns(w) /\ Extended

(***************************************************************************)
(* A pass over a Jira or GitHub mapping.                                   *)
(***************************************************************************)

\* List the projects or repositories and read the mappings.
ReadMapping(w) ==
  IF ~Mapped THEN Winds(w, "finish")
  ELSE proc' = [proc EXCEPT ![w] =
         [@ EXCEPT !.pc = "decide", !.project = mapping.project, !.access = access,
                   !.renamed = mapping.renamed, !.full = mapping.full,
                   !.behind = mapping.behind]]
JiraListProjects(w) ==
  /\ proc[w].pc = "list" /\ provider = "jira"
  /\ \/ renew_jira_sync_claim(w) /\ ReadMapping(w)
     \/ ~Owns(w) /\ Winds(w, "fail") /\ UNCHANGED claim
  /\ UNCHANGED <<world, link, rest, mapping, task, timer, marks, hooks, history, used>>
GitHubListRepositories(w) ==
  /\ proc[w].pc = "list" /\ provider = "github" /\ ReadMapping(w) /\ UNCHANGED claim
  /\ UNCHANGED <<world, link, rest, mapping, task, timer, marks, hooks, history, used>>

\* Remove a mapping whose project is not listed.
RemoveUnlisted(w) ==
  /\ proc[w].pc = "decide" /\ ~proc[w].access
  /\ \/ remove_jira_project_mapping /\ Winds(w, "finish")
     \/ remove_github_project_mapping /\ Winds(w, "finish")
     \/ ~Mapped /\ Winds(w, "fail") /\ UNCHANGED <<mapping, task, timer, meant>>
  /\ UNCHANGED <<world, settings, marks, hooks, rushed, excused, used>>

Searches(w) ==
  proc' = [proc EXCEPT ![w] = [@ EXCEPT !.pc = "search", !.project = NoProject,
                                        !.access = FALSE, !.renamed = FALSE]]

\* Write the listed name, with the project read before.
KeepListed(w) ==
  /\ proc[w].pc = "decide" /\ proc[w].access
  /\ \/ set_jira_project_mapping(proc[w].project) /\ Searches(w)
     \/ proc[w].renamed /\ set_github_project_mapping(proc[w].project) /\ Searches(w)
     \/ /\ provider = "github" /\ ~proc[w].renamed /\ Searches(w)
        /\ UNCHANGED <<mapping, task, timer, rest, excused>>
     \/ /\ provider = "jira" \/ proc[w].renamed
        /\ ~link /\ Winds(w, "fail") /\ UNCHANGED <<mapping, task, timer, rest, excused>>
  /\ UNCHANGED <<world, link, claim, marks, hooks, meant, rushed, used>>

\* What list_issues returns: everything on a full pass, what changed since the
\* cursor otherwise and, because of the overlap, perhaps what did not.
Listings(w) ==
  IF ~issue.there \/ issue.hidden THEN {NoIssue}
  ELSE IF proc[w].full \/ proc[w].behind \/ proc[w].late THEN {Current}
  ELSE {Current, NoIssue}
AfterSearch(w, got) ==
  IF got # NoIssue THEN IF provider = "asana" THEN "renew" ELSE "apply"
  ELSE IF proc[w].full THEN "archive" ELSE "mark"
Found(w, got) ==
  proc' = [proc EXCEPT ![w] = [@ EXCEPT !.got = got, !.behind = FALSE,
                                        !.pc = AfterSearch(w, got)]]
JiraListIssues(w) ==
  /\ proc[w].pc = "search" /\ provider = "jira"
  /\ \/ access /\ renew_jira_sync_claim(w) /\ \E got \in Listings(w) : Found(w, got)
     \/ ~(access /\ Owns(w)) /\ Winds(w, "fail") /\ UNCHANGED claim
  /\ UNCHANGED <<world, link, rest, mapping, task, timer, marks, hooks, history, used>>
GitHubListIssues(w) ==
  /\ proc[w].pc = "search" /\ provider = "github" /\ UNCHANGED claim
  /\ IF access THEN \E got \in Listings(w) : Found(w, got) ELSE Winds(w, "fail")
  /\ UNCHANGED <<world, link, rest, mapping, task, timer, marks, hooks, history, used>>

Apply(w) ==
  /\ proc[w].pc = "apply"
  /\ \/ apply_jira_issue(proc[w].got) \/ apply_asana_task(proc[w].got)
     \/ apply_github_issue(proc[w].got)
  /\ proc' = [proc EXCEPT ![w] =
       IF proc[w].full THEN [@ EXCEPT !.pc = "archive", !.got = NoIssue,
                                      !.seen = (provider = "jira" \/ Applies)]
       ELSE [@ EXCEPT !.pc = "mark", !.got = NoIssue]]
  /\ excused' = IF provider # "jira" /\ Mapped /\ ~link THEN excused \cup {"cut"} ELSE excused
  /\ UNCHANGED <<world, settings, mapping, order, hooks, rushed, used>>

Archive(w) ==
  /\ proc[w].pc = "archive" /\ proc' = [proc EXCEPT ![w].pc = "mark", ![w].seen = FALSE]
  /\ \/ archive_missing_jira_issues(w) \/ archive_missing_github_issues(w)
     \/ reconcile_asana_project_tasks(w)
  /\ rushed' = TRUE
  /\ excused' = IF rushed /\ provider = "jira" /\ w \in older THEN excused \cup {"rushed"}
                ELSE excused
  /\ UNCHANGED <<world, settings, mapping, fresh, order, hooks, meant, used>>

\* The cursor becomes the start of the pass, whatever row is there by now.
MarkSynced(w) ==
  /\ proc[w].pc = "mark" /\ Winds(w, "finish")
  /\ mapping' = IF Mapped THEN [mapping EXCEPT !.behind = proc[w].late,
                                               !.full = @ /\ ~proc[w].full]
                ELSE mapping
  /\ UNCHANGED <<world, settings, task, timer, marks, hooks, history, used>>
mark_jira_mapping_synced(w) == provider = "jira" /\ MarkSynced(w)
mark_github_mapping_synced(w) == provider = "github" /\ MarkSynced(w)

\* The integration rests, unless the claim was lost.
Release(w) ==
  /\ Ends(w)
  /\ IF claim.owner = w THEN claim' = Unclaimed /\ rest' = TRUE ELSE UNCHANGED <<claim, rest>>
  /\ UNCHANGED <<world, link, mapping, task, timer, hooks, history, used>>
mark_jira_sync_succeeded(w) == provider = "jira" /\ proc[w].pc = "finish" /\ Release(w)
mark_github_sync_succeeded(w) == provider = "github" /\ proc[w].pc = "finish" /\ Release(w)
mark_jira_sync_failed(w) == provider = "jira" /\ proc[w].pc = "fail" /\ Release(w)
mark_asana_sync_failed(w) == provider = "asana" /\ proc[w].pc = "fail" /\ Release(w)
mark_github_sync_failed(w) == provider = "github" /\ proc[w].pc = "fail" /\ Release(w)

(***************************************************************************)
(* A pass over an Asana mapping, which has a claim of its own.             *)
(***************************************************************************)
OwnsMapping(w) == Mapped /\ mapping.owner = w
MappingFree == mapping.owner = Nobody \/ mapping.lapsed
claim_asana_project_mappings(w) ==
  /\ proc[w].pc = "take"
  /\ IF Mapped /\ Owns(w) /\ mapping.full /\ MappingFree
     THEN /\ mapping' = [mapping EXCEPT !.owner = w, !.lapsed = FALSE]
          /\ proc' = [proc EXCEPT ![w].pc = "search", ![w].full = TRUE]
          /\ TakeSnapshot(w)
     ELSE Winds(w, "finish") /\ UNCHANGED <<mapping, marks>>
  /\ UNCHANGED <<world, settings, task, timer, hooks, history, used>>

\* renew: both claims, before each page and each task.
renew_asana_mapping_claim(w) == OwnsMapping(w) /\ mapping' = [mapping EXCEPT !.lapsed = FALSE]
RenewBoth(w) == renew_asana_sync_claim(w) /\ renew_asana_mapping_claim(w)
OwnsBoth(w) == Owns(w) /\ OwnsMapping(w)

ProjectTasks(w) ==
  /\ proc[w].pc = "search" /\ provider = "asana"
  /\ \/ access /\ RenewBoth(w) /\ \E got \in Listings(w) : Found(w, got)
     \/ ~(OwnsBoth(w) /\ access) /\ Winds(w, "release") /\ UNCHANGED <<claim, mapping>>
  /\ UNCHANGED <<world, link, rest, task, timer, marks, hooks, history, used>>

RenewBeforeTask(w) ==
  /\ proc[w].pc = "renew"
  /\ \/ RenewBoth(w) /\ Goes(w, "apply")
     \/ ~OwnsBoth(w) /\ Winds(w, "release") /\ UNCHANGED <<claim, mapping>>
  /\ UNCHANGED <<world, link, rest, task, timer, marks, hooks, history, used>>

mark_asana_mapping_synced(w) ==
  /\ proc[w].pc = "mark" /\ provider = "asana"
  /\ IF OwnsMapping(w)
     THEN /\ mapping' = [mapping EXCEPT !.full = FALSE, !.owner = Nobody, !.lapsed = FALSE]
          /\ Winds(w, "finish")
     ELSE Winds(w, "release") /\ UNCHANGED mapping
  /\ UNCHANGED <<world, settings, task, timer, marks, hooks, history, used>>

\* Partial while a mapping is still due, else succeeded; success makes every
\* mapping due again.
has_due_asana_project_mappings(w) == Owns(w) /\ Mapped /\ mapping.full
mark_asana_sync_partial(w) ==
  Ends(w) /\ claim' = Unclaimed /\ rest' = FALSE /\ UNCHANGED mapping
mark_asana_sync_succeeded(w) ==
  /\ claim.owner = w /\ Ends(w) /\ claim' = Unclaimed /\ rest' = TRUE
  /\ mapping' = IF Mapped THEN [mapping EXCEPT !.full = TRUE] ELSE mapping
AsanaFinished(w) ==
  /\ proc[w].pc = "finish" /\ provider = "asana"
  /\ \/ has_due_asana_project_mappings(w) /\ mark_asana_sync_partial(w)
     \/ ~has_due_asana_project_mappings(w) /\ mark_asana_sync_succeeded(w)
     \/ claim.owner # w /\ Winds(w, "fail") /\ UNCHANGED <<claim, rest, mapping, marks>>
  /\ UNCHANGED <<world, link, task, timer, hooks, history, used>>

release_asana_mapping_claims(w) ==
  /\ proc[w].pc = "release" /\ Winds(w, "fail")
  /\ mapping' = IF OwnsMapping(w) THEN [mapping EXCEPT !.owner = Nobody, !.lapsed = FALSE]
                ELSE mapping
  /\ UNCHANGED <<world, settings, task, timer, marks, hooks, history, used>>

(***************************************************************************)
(* GitHub webhooks.  A delivery is taken once, unless it failed or was left*)
(* half done for ten minutes and GitHub or the owner sends it again.       *)
(***************************************************************************)
begin_integration_webhook(d) ==
  /\ hooks[d].state \in {"sent", "failed", "stuck"}
  /\ hooks' = [hooks EXCEPT ![d].state = "received"]
  /\ UNCHANGED <<world, settings, mapping, task, timer, marks, proc, history, used>>
HandleIssue(d) ==
  /\ hooks[d].event = "issues"
  /\ apply_github_issue([version |-> hooks[d].version, open |-> hooks[d].open])
  /\ UNCHANGED <<world, settings, mapping, order, rushed, excused>>
HandleRemoval(d) ==
  /\ hooks[d].event = "installation_repositories"
  /\ \/ remove_github_project_mapping
     \/ ~Mapped /\ UNCHANGED <<mapping, task, timer, meant>>
  /\ UNCHANGED <<world, settings, marks, rushed, excused>>
HandleUninstall(d) == hooks[d].event = "installation" /\ disconnect_github_integration
HandleWebhook(d) ==
  /\ hooks[d].state = "received"
  /\ HandleIssue(d) \/ HandleRemoval(d) \/ HandleUninstall(d)
  /\ hooks' = [hooks EXCEPT ![d].state = "applied"]
  /\ UNCHANGED <<proc, used>>
finish_integration_webhook(d) ==
  /\ hooks[d].state = "applied"
  /\ hooks' = [hooks EXCEPT ![d].state = "done"]
  /\ UNCHANGED <<world, settings, mapping, task, timer, marks, proc, history, used>>
WebhookFails(d) ==
  /\ hooks[d].state \in {"received", "applied"} /\ Left("faults") /\ Spend("faults")
  /\ \E state \in {"failed", "stuck"} : hooks' = [hooks EXCEPT ![d].state = state]
  /\ UNCHANGED <<world, settings, mapping, task, timer, marks, proc, history>>

(***************************************************************************)
(* The provider.                                                           *)
(***************************************************************************)
Announce(event, version, open) ==
  IF provider # "github" \/ \A d \in DOMAIN hooks : hooks[d].state # "none"
  THEN UNCHANGED hooks
  ELSE LET d == CHOOSE e \in DOMAIN hooks :
                  hooks[e].state = "none" /\ \A f \in 1..(e - 1) : hooks[f].state # "none"
       IN hooks' = [hooks EXCEPT ![d] = [state |-> "sent", event |-> event,
                                         version |-> version, open |-> open]]

\* Somebody creates, edits, closes or reopens the issue.
EditIssue ==
  /\ Left("edits") /\ Spend("edits")
  /\ \E open \in BOOLEAN :
       /\ ~issue.there => open
       /\ issue' = [issue EXCEPT !.there = TRUE, !.open = open, !.version = @ + 1]
       /\ meant' = (meant \/ ~open)
  /\ mapping' = IF Mapped THEN [mapping EXCEPT !.behind = TRUE] ELSE mapping
  /\ proc' = [w \in Workers |-> IF proc[w].pc = "idle" THEN Idle
                                ELSE [proc[w] EXCEPT !.late = TRUE]]
  /\ Announce("issues", issue'.version, issue'.open)
  /\ UNCHANGED <<scope, access, settings, task, timer, marks, rushed, excused>>

\* It is deleted, which the webhook takes for closed, or moved to a project that
\* is not mapped, which says nothing of its state.
LeaveProject ==
  /\ issue.there /\ Left("edits") /\ Spend("edits")
  /\ issue' = [issue EXCEPT !.there = FALSE, !.hidden = FALSE] /\ meant' = TRUE
  /\ \E open \in {FALSE, issue.open} : Announce("issues", issue.version, open)
  /\ UNCHANGED <<scope, access, settings, mapping, task, timer, marks, proc, rushed, excused>>

\* Jira's search leaves the issue out for a while: once, so that two daily
\* passes never both miss it.
IndexLags ==
  /\ provider = "jira" /\ issue.there /\ used.lags = 0 /\ Spend("lags")
  /\ issue' = [issue EXCEPT !.hidden = TRUE]
  /\ UNCHANGED <<scope, access, settings, mapping, task, timer, marks, proc, hooks, history>>
IndexCatchesUp ==
  /\ issue.hidden /\ issue' = [issue EXCEPT !.hidden = FALSE]
  /\ UNCHANGED <<scope, access, settings, mapping, task, timer, marks, proc, hooks,
                 history, used>>

ChangeAccess ==
  /\ Left("edits") /\ Spend("edits") /\ access' = ~access
  /\ IF access
     THEN \E event \in {"installation_repositories", "installation"} : Announce(event, 0, FALSE)
     ELSE UNCHANGED hooks
  /\ UNCHANGED <<scope, issue, settings, mapping, task, timer, marks, proc, history>>

RenameRepository ==
  /\ provider = "github" /\ Mapped /\ ~mapping.renamed /\ Left("edits")
  /\ Spend("edits") /\ mapping' = [mapping EXCEPT !.renamed = TRUE]
  /\ UNCHANGED <<world, settings, task, timer, marks, proc, hooks, history>>

(***************************************************************************)
(* The owner and the members.                                              *)
(***************************************************************************)
Owner == Left("owner") /\ Spend("owner")

\* The mapping route lists the projects first: what the grant does not reach
\* is refused.
MapProject ==
  /\ Owner /\ access
  /\ UNCHANGED <<world, link, claim, marks, proc, hooks, meant, rushed>>
jira_integration_mapping(p) == set_jira_project_mapping(p) /\ MapProject
asana_integration_mapping(p) == set_asana_project_mapping(p) /\ MapProject
github_integration_mapping(p) == set_github_project_mapping(p) /\ MapProject

UnmapProject == Owner /\ UNCHANGED <<world, settings, marks, proc, hooks, rushed, excused>>
delete_jira_integration_mapping == remove_jira_project_mapping /\ UnmapProject
delete_asana_integration_mapping == remove_asana_project_mapping /\ UnmapProject
delete_github_integration_mapping == remove_github_project_mapping /\ UnmapProject

DisconnectRoute == Owner /\ link /\ UNCHANGED <<proc, hooks>>
DisconnectJira == disconnect_jira_integration /\ DisconnectRoute
DisconnectAsana == disconnect_asana_integration /\ DisconnectRoute
DisconnectGitHub == disconnect_github_integration /\ DisconnectRoute

Reconnect(row) ==
  /\ link' = TRUE /\ claim' = Unclaimed /\ rest' = FALSE
  /\ mapping' = IF Mapped THEN row ELSE mapping
  /\ UNCHANGED <<world, task, timer, marks, proc, hooks, history>>
upsert_jira_site ==
  provider = "jira" /\ Reconnect([mapping EXCEPT !.full = TRUE, !.behind = TRUE])
upsert_asana_workspace ==
  /\ provider = "asana"
  /\ Reconnect([mapping EXCEPT !.full = TRUE, !.owner = Nobody, !.lapsed = FALSE])
upsert_github_installation == provider = "github" /\ Reconnect(mapping)
jira_callback == Owner /\ upsert_jira_site
select_asana_workspace == Owner /\ upsert_asana_workspace
github_callback == Owner /\ upsert_github_installation

sync_jira_integration(w) == Owner /\ JiraSyncNow(w)
sync_asana_integration(w) == Owner /\ AsanaSyncNow(w)
sync_github_integration(w) == Owner /\ GitHubSyncNow(w)

\* set_task_status, refused for a task the integration manages.
set_task_status ==
  /\ Owner /\ Imported /\ ~task.readonly
  /\ \E status \in {"active", "archived"} \ {task.status} :
       /\ task' = [task EXCEPT !.status = status]
       /\ IF status = "archived" THEN CloseTaskSessions /\ meant' = TRUE
          ELSE UNCHANGED <<timer, meant>>
  /\ UNCHANGED <<world, settings, mapping, marks, proc, hooks, rushed, excused>>

\* A start, or a heartbeat, reads the task on a connection of its own.  The
\* transaction that inserts the session comes later and does not read it again; a
\* session that runs in that project goes on.  A start may be given up: the next
\* one takes its place.
StartChecks ==
  /\ task.status = "active" /\ timer' = [timer EXCEPT !.start = task.project]
  /\ UNCHANGED <<world, settings, mapping, task, marks, proc, hooks, history, used>>
StartInserts ==
  /\ timer.start # NoProject
  /\ timer' = IF timer.project = timer.start THEN [timer EXCEPT !.start = NoProject]
              ELSE [project |-> timer.start, start |-> NoProject,
                    late |-> task.status # "active" \/ task.project # timer.start]
  /\ UNCHANGED <<world, settings, mapping, task, marks, proc, hooks, history, used>>

(***************************************************************************)
(* Time and faults.                                                        *)
(***************************************************************************)
\* The next full pass of a Jira or GitHub mapping comes due; the search index
\* has caught up by then.
DayPasses ==
  /\ provider # "asana" /\ ~issue.hidden /\ (rushed \/ (Mapped /\ ~mapping.full))
  /\ mapping' = IF Mapped THEN [mapping EXCEPT !.full = TRUE] ELSE mapping
  /\ rushed' = (rushed /\ Running # {})
  /\ UNCHANGED <<world, settings, task, timer, marks, proc, hooks, meant, excused, used>>

RestEnds ==
  /\ rest /\ rest' = FALSE
  /\ UNCHANGED <<world, link, claim, mapping, task, timer, marks, proc, hooks, history, used>>

\* A lease runs out under a dead pass, or under one that overran it.
Overrun(owner) ==
  IF owner \in Workers THEN Left("faults") /\ Spend("faults") ELSE UNCHANGED used
ClaimLapses ==
  /\ claim.owner # Nobody /\ ~claim.lapsed /\ claim' = [claim EXCEPT !.lapsed = TRUE]
  /\ Overrun(claim.owner)
  /\ UNCHANGED <<world, link, rest, mapping, task, timer, marks, proc, hooks, history>>
MappingClaimLapses ==
  /\ mapping.owner # Nobody /\ ~mapping.lapsed
  /\ mapping' = [mapping EXCEPT !.lapsed = TRUE] /\ Overrun(mapping.owner)
  /\ UNCHANGED <<world, settings, task, timer, marks, proc, hooks, history>>

Orphaned(row, w) == IF row.owner = w THEN [row EXCEPT !.owner = Gone] ELSE row
Crash(w) ==
  /\ proc[w].pc # "idle" /\ Left("faults") /\ Spend("faults") /\ Ends(w)
  /\ claim' = Orphaned(claim, w) /\ mapping' = Orphaned(mapping, w)
  /\ UNCHANGED <<world, link, rest, task, timer, hooks, history>>

\* The provider does not answer, or with an error.
CallFails(w) ==
  /\ proc[w].pc \in {"list", "search"} /\ Left("faults") /\ Spend("faults")
  /\ Winds(w, Raised)
  /\ UNCHANGED <<world, settings, mapping, task, timer, marks, hooks, history>>

-----------------------------------------------------------------------------
Init ==
  /\ scope \in Scopes
  /\ \E there \in BOOLEAN :
       issue = [there |-> there, open |-> there, version |-> IF there THEN 1 ELSE 0,
                hidden |-> FALSE]
  /\ access = TRUE /\ link = TRUE /\ rest = FALSE /\ claim = Unclaimed
  /\ \E p \in Projects :
       mapping = [NoMapping EXCEPT !.project = p, !.full = TRUE, !.behind = TRUE]
  /\ task = NoTask /\ timer = NoTimer
  /\ fresh = {} /\ older = {} /\ order = << >> /\ proc = [w \in Workers |-> Idle]
  /\ hooks = [d \in 1..scope.hooks |-> [state |-> "none", event |-> "issues",
                                        version |-> 0, open |-> FALSE]]
  /\ meant = FALSE /\ rushed = FALSE /\ excused = {}
  /\ used = [edits |-> 0, owner |-> 0, faults |-> 0, lags |-> 0]

\* _sync_claimed of the three services.
MappingSteps(w) == RemoveUnlisted(w) \/ KeepListed(w) \/ Apply(w) \/ Archive(w)
JiraSyncClaimed(w) ==
  \/ JiraListProjects(w) \/ JiraListIssues(w) \/ mark_jira_mapping_synced(w)
  \/ mark_jira_sync_succeeded(w) \/ mark_jira_sync_failed(w)
GitHubSyncClaimed(w) ==
  \/ GitHubListRepositories(w) \/ GitHubListIssues(w) \/ mark_github_mapping_synced(w)
  \/ mark_github_sync_succeeded(w) \/ mark_github_sync_failed(w)
AsanaSyncClaimed(w) ==
  \/ claim_asana_project_mappings(w) \/ ProjectTasks(w) \/ RenewBeforeTask(w)
  \/ mark_asana_mapping_synced(w) \/ AsanaFinished(w) \/ release_asana_mapping_claims(w)
  \/ mark_asana_sync_failed(w)
Step(w) ==
  MappingSteps(w) \/ JiraSyncClaimed(w) \/ GitHubSyncClaimed(w) \/ AsanaSyncClaimed(w)
Hook(d) == begin_integration_webhook(d) \/ HandleWebhook(d) \/ finish_integration_webhook(d)

Next ==
  \/ \E w \in Workers : Step(w) \/ SyncDue(w) \/ Crash(w) \/ CallFails(w)
  \/ \E w \in Workers :
       sync_jira_integration(w) \/ sync_asana_integration(w) \/ sync_github_integration(w)
  \/ \E d \in DOMAIN hooks : Hook(d) \/ WebhookFails(d)
  \/ EditIssue \/ LeaveProject \/ IndexLags \/ IndexCatchesUp \/ ChangeAccess \/ RenameRepository
  \/ \E p \in Projects : \/ jira_integration_mapping(p) \/ asana_integration_mapping(p)
                         \/ github_integration_mapping(p)
  \/ delete_jira_integration_mapping \/ delete_asana_integration_mapping
  \/ delete_github_integration_mapping
  \/ DisconnectJira \/ DisconnectAsana \/ DisconnectGitHub
  \/ jira_callback \/ select_asana_workspace \/ github_callback
  \/ set_task_status \/ StartChecks \/ StartInserts
  \/ DayPasses \/ RestEnds \/ ClaimLapses \/ MappingClaimLapses

\* A pass or a webhook that began runs on, the job asks again and again, time
\* passes.  Whether a webhook arrives at all is GitHub's affair.
Fairness ==
  /\ \A w \in Workers : WF_vars(Step(w))
  /\ WF_vars(\E w \in Workers : SyncDue(w))
  /\ WF_vars(\E d \in DOMAIN hooks : HandleWebhook(d) \/ finish_integration_webhook(d))
  /\ WF_vars(IndexCatchesUp) /\ WF_vars(DayPasses) /\ WF_vars(RestEnds)
  /\ WF_vars(ClaimLapses) /\ WF_vars(MappingClaimLapses)

Spec == Init /\ [][Next]_vars /\ Fairness

-----------------------------------------------------------------------------
(***************************************************************************)
(* Properties.                                                             *)
(***************************************************************************)

\* A task whose issue stays open in a mapped project is not archived: not by a
\* full listing that an index lag, another pass or a webhook made incomplete.
OpenIssuesStay ==
  task.status = "archived" => meant \/ excused \cap {"cut", "rushed"} # {}

\* An open work session belongs to an active task and to that task's project,
\* however a pass, a webhook and a change of the mapping follow each other, unless
\* its start was let through before the task was archived or moved and inserted
\* after it.  What else a start is checked for is WorkSessions' affair.
TimersStopWithTheTask ==
  timer.project # NoProject /\ ~timer.late =>
    task.status = "active" /\ (task.project = timer.project \/ "adopted" \in excused)

\* Once the world leaves the integration alone the task becomes what the issue
\* is, whatever passes died, overran or failed and whatever webhooks were lost.
Connected == link /\ Mapped /\ access
Converged ==
  IF issue.there /\ issue.open
  THEN task.status = "active" /\ task.version = issue.version
         /\ task.project = mapping.project /\ task.readonly
  ELSE task.status # "active"
SyncConverges == (<>[]Connected) => (<>[]Converged)
=============================================================================
