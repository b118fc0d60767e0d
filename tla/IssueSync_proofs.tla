---------------------------- MODULE IssueSync_proofs ----------------------------
(***************************************************************************)
(* Proofs about IssueSync, for every provider, any number of passes,       *)
(* projects and webhook deliveries, and every bound on the changes at the  *)
(* provider, the owner's operations and the faults.                        *)
(***************************************************************************)
EXTENDS IssueSync, TLAPS

Claims == Workers \cup {Nobody, Gone}
Got == [version : Nat, open : BOOLEAN]
Pass == [pc : {"idle", "list", "decide", "take", "search", "renew", "apply", "archive",
               "mark", "finish", "release", "fail"},
         project : Projects \cup {NoProject}, access : BOOLEAN, renamed : BOOLEAN,
         full : BOOLEAN, behind : BOOLEAN, late : BOOLEAN, got : Got, seen : BOOLEAN]
MappingRow == [project : Projects \cup {NoProject}, full : BOOLEAN, behind : BOOLEAN,
               renamed : BOOLEAN, owner : Claims, lapsed : BOOLEAN]
TaskRow == [status : {"none", "active", "archived"}, version : Nat,
            project : Projects \cup {NoProject}, readonly : BOOLEAN, missing : BOOLEAN]
Delivery == [state : {"none", "sent", "received", "applied", "stuck", "failed", "done"},
             event : {"issues", "installation_repositories", "installation"},
             version : Nat, open : BOOLEAN]
TimerRow == [project : Projects \cup {NoProject}, late : BOOLEAN,
             start : Projects \cup {NoProject}]
Issue == [there : BOOLEAN, open : BOOLEAN, version : Nat, hidden : BOOLEAN]
Budgets == [edits : Nat, owner : Nat, faults : Nat, lags : Nat]

Typed ==
  /\ scope \in Scopes /\ access \in BOOLEAN /\ issue \in Issue /\ mapping \in MappingRow
  /\ task \in TaskRow /\ timer \in TimerRow /\ proc \in [Workers -> Pass]
  /\ claim \in [owner : Claims, lapsed : BOOLEAN]
  /\ hooks \in [1..scope.hooks -> Delivery] /\ used \in Budgets
  /\ meant \in BOOLEAN /\ rushed \in BOOLEAN
  /\ Mapped => mapping.project \in Projects
  /\ \A w \in Workers : proc[w].pc = "decide" => proc[w].project \in Projects

-----------------------------------------------------------------------------
(***************************************************************************)
(* The timer.                                                              *)
(***************************************************************************)

\* A session whose task was active in its project when it was inserted.
InTime == timer.project # NoProject /\ ~timer.late

\* A task lies in the project its issue is mapped to, and so does such a session.
Placed ==
  Mapped =>
    /\ Imported => task.project = mapping.project
    /\ InTime => mapping.project = timer.project \/ "adopted" \in excused

(***************************************************************************)
(* The task.  What closes it is either current or refused as stale; what   *)
(* archives it has missed an issue that was not there, that a disconnected *)
(* pass did not record, or that the index left out once.                   *)
(***************************************************************************)
Cut == meant \/ "cut" \in excused

\* Unless somebody meant it to go, the issue is open as it always was.
World ==
  /\ issue.there => issue.version > 0
  /\ issue.hidden => provider = "jira" /\ issue.there /\ used.lags > 0
  /\ meant \/ (issue.there /\ issue.open) \/ issue.version = 0
  /\ Mapped \/ meant

\* The task is no newer than its issue.
Stored ==
  /\ Imported => task.status # "none" /\ task.version \in 1 .. issue.version
  /\ provider = "github" => ~task.missing
  /\ task.missing =>
       Cut \/ (provider = "jira" /\ used.lags > 0 /\ (rushed \/ ~issue.hidden))

\* What was listed or announced is a version of the issue; if it says closed,
\* the task knows better or the issue was meant to be closed.
Sound(got) ==
  /\ got.version \in 1 .. issue.version
  /\ ~got.open =>
       /\ meant \/ got.version < task.version
       /\ got.version = issue.version => ~(issue.there /\ issue.open)
Listed(w) == proc[w].pc \in {"renew", "apply"} => Sound(proc[w].got)
Announced(d) ==
  hooks[d].state # "none" /\ hooks[d].event = "issues" =>
    Sound([version |-> hooks[d].version, open |-> hooks[d].open])

\* A pass about to archive a task that nobody observed since its snapshot.
Missed(w) ==
  proc[w].pc = "archive" /\ ~proc[w].seen /\ Imported /\ w \notin fresh =>
    \/ Cut
    \/ /\ provider = "jira" /\ used.lags > 0
       /\ task.missing /\ w \in older => rushed

Passes == \A w \in Workers : Listed(w) /\ Missed(w)
Deliveries == \A d \in 1..scope.hooks : Announced(d)

SyncInv ==
  /\ Typed /\ Placed /\ TimersStopWithTheTask
  /\ World /\ Stored /\ Passes /\ Deliveries /\ OpenIssuesStay

-----------------------------------------------------------------------------
(***************************************************************************)
(* Types.                                                                  *)
(***************************************************************************)

LEMMA Constants ==
  /\ Idle \in Pass /\ NoIssue \in Got /\ NoTask \in TaskRow /\ NoMapping \in MappingRow
  /\ Unclaimed \in [owner : Claims, lapsed : BOOLEAN]
  /\ \A p \in Projects \cup {NoProject} : NewMapping(p) \in MappingRow
BY DEF Idle, Pass, NoIssue, Got, NoTask, TaskRow, NoMapping, MappingRow, Unclaimed, Claims,
       NewMapping

\* What a pass becomes when it gets no further.
LEMMA Winding ==
  ASSUME Typed, NEW w \in Workers, NEW pc \in {"finish", "fail", "release"}, Winds(w, pc)
  PROVE  /\ proc' \in [Workers -> Pass] /\ proc'[w].pc = pc
         /\ \A v \in Workers : v # w => proc'[v] = proc[v]
<1>1. [Idle EXCEPT !.pc = pc] \in Pass /\ [Idle EXCEPT !.pc = pc].pc = pc
  BY Constants DEF Pass
<1>2. QED  BY <1>1 DEF Winds, Typed

LEMMA Ending ==
  ASSUME Typed, NEW w \in Workers, Ends(w)
  PROVE  /\ proc' \in [Workers -> Pass] /\ proc'[w].pc = "idle"
         /\ \A v \in Workers : v # w => proc'[v] = proc[v]
BY Constants DEF Ends, Typed, Idle

LEMMA Spending ==
  ASSUME Typed, NEW kind \in {"edits", "owner", "faults", "lags"}, Spend(kind)
  PROVE  /\ used' \in Budgets /\ used'.lags >= used.lags
         /\ kind = "lags" => used'.lags > 0
BY DEF Spend, Typed, Budgets

LEMMA CurrentIsGot == ASSUME Typed  PROVE Current \in Got
BY DEF Typed, Current, Got, Issue


-----------------------------------------------------------------------------
(***************************************************************************)
(* The steps of a pass that leave the task alone.                          *)
(***************************************************************************)

\* A mapping that keeps its project stays.
LEMMA RowStays ==
  ASSUME Typed, Mapped, mapping' \in MappingRow, mapping'.project = mapping.project
  PROVE  Mapped'
BY ProjectsAssumption DEF Typed, Mapped, NoMapping

OthersStay(w) ==
  \A v \in Workers \ {w} :
    /\ proc'[v] = proc[v]
    /\ v \in fresh => v \in fresh'
    /\ v \in older' => v \in older

\* What a listing without the issue says, if it is not there.
Absent ==
  Imported =>
    \/ Cut
    \/ provider = "jira" /\ used.lags > 0 /\ (task.missing => rushed)

PassStep(w) ==
  /\ UNCHANGED <<scope, access, issue, task, timer, hooks, meant, rushed, excused>>
  /\ proc' \in [Workers -> Pass] /\ claim' \in [owner : Claims, lapsed : BOOLEAN]
  /\ mapping' \in MappingRow /\ mapping'.project = mapping.project /\ (Mapped' <=> Mapped)
  /\ used' \in Budgets /\ used'.lags >= used.lags
  /\ OthersStay(w)
  /\ proc'[w].pc = "decide" => proc'[w].project \in Projects
  /\ proc'[w].pc \in {"renew", "apply"} => Sound(proc'[w].got)
  /\ proc'[w].pc = "archive" => Absent

LEMMA PassStepKeepsInv ==
  ASSUME SyncInv, NEW w \in Workers, PassStep(w)
  PROVE  SyncInv'
<1>1. /\ UNCHANGED <<scope, access, issue, task, timer, hooks, meant, rushed, excused>>
      /\ mapping'.project = mapping.project /\ (Mapped' <=> Mapped)
      /\ used'.lags >= used.lags /\ used.lags \in Nat /\ used'.lags \in Nat
      /\ Imported' <=> Imported
      /\ Cut' <=> Cut
  BY DEF PassStep, SyncInv, Typed, Budgets, Imported, Cut
<1>2. Typed'
  BY <1>1 DEF PassStep, OthersStay, SyncInv, Typed
<1>3. Placed' /\ TimersStopWithTheTask' /\ OpenIssuesStay'
  BY <1>1 DEF SyncInv, Placed, TimersStopWithTheTask, OpenIssuesStay, InTime
<1>4. World' /\ Stored'
  BY <1>1 DEF SyncInv, World, Stored, provider
<1>5. \A got : Sound(got)' <=> Sound(got)
  BY <1>1 DEF Sound
<1>6. Deliveries'
  BY <1>1, <1>5 DEF SyncInv, Deliveries, Announced
<1>7. ASSUME NEW v \in Workers  PROVE Listed(v)' /\ Missed(v)'
  <2>1. CASE v = w
    BY <1>1, <1>5, <2>1 DEF PassStep, Listed, Missed, Absent, provider
  <2>2. CASE v # w
    <3>1. /\ proc'[v] = proc[v]
          /\ v \in fresh => v \in fresh'
          /\ v \in older' => v \in older
      BY <2>2 DEF PassStep, OthersStay
    <3>2. Listed(v) /\ Missed(v)
      BY DEF SyncInv, Passes
    <3>3. QED  BY <1>1, <1>5, <3>1, <3>2 DEF Listed, Missed, provider
  <2>3. QED  BY <2>1, <2>2
<1>8. QED  BY <1>2, <1>3, <1>4, <1>6, <1>7 DEF SyncInv, Passes


LEMMA SnapshotIsOnes ==
  ASSUME NEW w \in Workers, TakeSnapshot(w)
  PROVE  \A v \in Workers \ {w} : (v \in fresh => v \in fresh') /\ (v \in older' => v \in older)
BY DEF TakeSnapshot

\* A pass gets no further, with the task, the mapping and its claim as they were.
LEMMA WindsIsPassStep ==
  ASSUME SyncInv, NEW w \in Workers, NEW pc \in {"finish", "fail", "release"}, Winds(w, pc),
         UNCHANGED <<world, link, rest, task, timer, marks, hooks, history>>,
         used' \in Budgets, used'.lags >= used.lags,
         claim' \in [owner : Claims, lapsed : BOOLEAN],
         mapping' \in MappingRow, mapping'.project = mapping.project, Mapped' <=> Mapped
  PROVE  PassStep(w)
<1>1. /\ proc' \in [Workers -> Pass] /\ proc'[w].pc = pc
      /\ \A v \in Workers : v # w => proc'[v] = proc[v]
  BY Winding DEF SyncInv
<1>2. QED  BY <1>1 DEF PassStep, OthersStay, world, marks, history

LEMMA EndsIsPassStep ==
  ASSUME SyncInv, NEW w \in Workers, Ends(w),
         UNCHANGED <<world, task, timer, hooks, history>>,
         used' \in Budgets, used'.lags >= used.lags,
         claim' \in [owner : Claims, lapsed : BOOLEAN],
         mapping' \in MappingRow, mapping'.project = mapping.project, Mapped' <=> Mapped
  PROVE  PassStep(w)
<1>1. /\ proc' \in [Workers -> Pass] /\ proc'[w].pc = "idle"
      /\ \A v \in Workers : v # w => proc'[v] = proc[v]
  BY Ending DEF SyncInv
<1>2. \A v \in Workers \ {w} : (v \in fresh => v \in fresh') /\ (v \in older' => v \in older)
  BY DEF Ends
<1>3. QED  BY <1>1, <1>2 DEF PassStep, OthersStay, world, history

LEMMA Unused ==
  ASSUME Typed  PROVE UNCHANGED used => used' \in Budgets /\ used'.lags >= used.lags
BY DEF Typed, Budgets

LEMMA SameRow ==
  ASSUME Typed
  PROVE  UNCHANGED mapping =>
           mapping' \in MappingRow /\ mapping'.project = mapping.project /\ (Mapped' <=> Mapped)
BY DEF Typed, Mapped

LEMMA SameClaim ==
  ASSUME Typed, UNCHANGED claim  PROVE claim' \in [owner : Claims, lapsed : BOOLEAN]
BY DEF Typed

\* Fields of the mapping other than its project.
LEMMA ChangedRow ==
  ASSUME Typed, Mapped, NEW row \in MappingRow, row.project = mapping.project, mapping' = row
  PROVE  mapping' \in MappingRow /\ mapping'.project = mapping.project /\ (Mapped' <=> Mapped)
BY RowStays

LEMMA BeginsIsPassStep ==
  ASSUME SyncInv, NEW w \in Workers, BeginsListing(w) \/ BeginsTaking(w),
         used' \in Budgets, used'.lags >= used.lags
  PROVE  PassStep(w)
<1> USE DEF SyncInv
<1>1. /\ UNCHANGED <<world, link, rest, mapping, task, timer, hooks, history>>
      /\ claim' \in [owner : Claims, lapsed : BOOLEAN]
  <2>1. Begins(w)
    BY DEF BeginsListing, BeginsTaking
  <2>2. claim' = [owner |-> w, lapsed |-> FALSE]
    BY <2>1 DEF Begins
  <2>3. QED  BY <2>1, <2>2 DEF Begins, Claims
<1>2. PICK c \in Pass : c.pc \in {"list", "take"} /\ proc' = [proc EXCEPT ![w] = c]
  <2>1. /\ [Idle EXCEPT !.pc = "list"] \in Pass /\ [Idle EXCEPT !.pc = "list"].pc = "list"
        /\ [Idle EXCEPT !.pc = "take"] \in Pass /\ [Idle EXCEPT !.pc = "take"].pc = "take"
    BY Constants DEF Pass
  <2>2. QED  BY <2>1 DEF BeginsListing, BeginsTaking
<1>3. \A v \in Workers \ {w} : (v \in fresh => v \in fresh') /\ (v \in older' => v \in older)
  BY SnapshotIsOnes DEF BeginsListing, BeginsTaking, marks
<1>4. /\ proc' \in [Workers -> Pass] /\ proc'[w].pc \in {"list", "take"}
      /\ \A v \in Workers : v # w => proc'[v] = proc[v]
  BY <1>2 DEF Typed
<1>5. QED  BY <1>1, <1>3, <1>4, SameRow DEF PassStep, OthersStay, world, history

LEMMA ReleaseIsPassStep ==
  ASSUME SyncInv, NEW w \in Workers, Release(w)
  PROVE  PassStep(w)
<1> USE DEF SyncInv
<1>1. Ends(w) /\ UNCHANGED <<world, link, mapping, task, timer, hooks, history, used>>
  BY DEF Release
<1>2. claim' \in [owner : Claims, lapsed : BOOLEAN]
  BY Constants DEF Release, Typed
<1>3. QED  BY <1>1, <1>2, Unused, SameRow, EndsIsPassStep

LEMMA CrashIsPassStep ==
  ASSUME SyncInv, NEW w \in Workers, Crash(w)
  PROVE  PassStep(w)
<1> USE DEF SyncInv
<1>1. /\ Ends(w) /\ UNCHANGED <<world, task, timer, hooks, history>>
      /\ used' \in Budgets /\ used'.lags >= used.lags
  BY Spending DEF Crash
<1>2. claim' \in [owner : Claims, lapsed : BOOLEAN]
  BY DEF Crash, Typed, Orphaned, Claims
<1>3. mapping' \in MappingRow /\ mapping'.project = mapping.project /\ (Mapped' <=> Mapped)
  <2>1. CASE mapping.owner = w
    <3>1. Mapped
      BY <2>1, WorkersAssumption DEF Mapped, NoMapping
    <3>2. mapping' = [mapping EXCEPT !.owner = Gone]
      BY <2>1 DEF Crash, Orphaned
    <3>3. [mapping EXCEPT !.owner = Gone] \in MappingRow
      BY DEF Typed, MappingRow, Claims
    <3>4. [mapping EXCEPT !.owner = Gone].project = mapping.project
      BY DEF Typed, MappingRow
    <3>5. QED  BY <3>1, <3>2, <3>3, <3>4, ChangedRow
  <2>2. CASE mapping.owner # w
    BY <2>2, SameRow DEF Crash, Orphaned
  <2>3. QED  BY <2>1, <2>2
<1>4. QED  BY <1>1, <1>2, <1>3, EndsIsPassStep


\* What a listing returns is the issue, and what it leaves out is absent.
LEMMA ListingIsSound ==
  ASSUME SyncInv, NEW w \in Workers, NEW got \in Listings(w)
  PROVE  /\ got \in Got
         /\ got # NoIssue => Sound(got)
         /\ got = NoIssue /\ proc[w].full => Absent
<1> USE DEF SyncInv
<1>1. /\ issue.there \in BOOLEAN /\ issue.hidden \in BOOLEAN /\ issue.version \in Nat
      /\ issue.open \in BOOLEAN /\ proc[w].full \in BOOLEAN /\ used.lags \in Nat
  BY DEF Typed, Issue, Pass, Budgets
<1>2. CASE ~issue.there \/ issue.hidden
  <2>1. got = NoIssue
    BY <1>2 DEF Listings
  <2>2. Absent
    <3>1. CASE ~issue.there
      BY <1>1, <3>1 DEF World, Stored, Absent, Cut
    <3>2. CASE issue.hidden
      BY <1>1, <3>2 DEF World, Stored, Absent
    <3>3. QED  BY <1>2, <3>1, <3>2
  <2>3. QED  BY <2>1, <2>2, Constants
<1>3. CASE issue.there /\ ~issue.hidden
  <2>1. got \in {Current, NoIssue} /\ (proc[w].full => got = Current)
    BY <1>3 DEF Listings
  <2>2. Current # NoIssue
    BY <1>1, <1>3 DEF World, Current, NoIssue
  <2>3. Sound(Current)
    <3>1. Current.version = issue.version /\ Current.open = issue.open
      BY DEF Current
    <3>2. issue.version \in 1 .. issue.version
      BY <1>1, <1>3 DEF World
    <3>3. ~issue.open => meant
      BY <1>1, <1>3 DEF World
    <3>4. QED  BY <3>1, <3>2, <3>3 DEF Sound
  <2>4. QED  BY <2>1, <2>2, <2>3, CurrentIsGot, Constants
<1>4. QED  BY <1>1, <1>2, <1>3

LEMMA FoundIsPassStep ==
  ASSUME SyncInv, NEW w \in Workers, NEW got \in Listings(w), Found(w, got),
         UNCHANGED <<world, link, rest, task, timer, marks, hooks, history, used>>,
         claim' \in [owner : Claims, lapsed : BOOLEAN],
         mapping' \in MappingRow, mapping'.project = mapping.project, Mapped' <=> Mapped
  PROVE  PassStep(w)
<1> USE DEF SyncInv
<1> DEFINE c == [proc[w] EXCEPT !.got = got, !.behind = FALSE, !.pc = AfterSearch(w, got)]
<1>1. /\ got \in Got
      /\ got # NoIssue => Sound(got)
      /\ got = NoIssue /\ proc[w].full => Absent
  BY ListingIsSound
<1>2. /\ AfterSearch(w, got) \in {"renew", "apply", "archive", "mark"}
      /\ AfterSearch(w, got) \in {"renew", "apply"} => got # NoIssue
      /\ AfterSearch(w, got) = "archive" => got = NoIssue /\ proc[w].full
  BY DEF AfterSearch
<1>3. proc' = [proc EXCEPT ![w] = c]
  BY DEF Found
<1>4. c \in Pass /\ c.got = got /\ c.pc = AfterSearch(w, got)
  BY <1>1, <1>2 DEF Typed, Pass
<1> HIDE DEF c
<1>5. proc' \in [Workers -> Pass] /\ proc'[w] = c /\ \A v \in Workers : v # w => proc'[v] = proc[v]
  BY <1>3, <1>4 DEF Typed
<1>6. OthersStay(w)
  BY <1>5 DEF OthersStay, marks
<1>7. /\ UNCHANGED <<scope, access, issue, task, timer, hooks, meant, rushed, excused>>
      /\ used' \in Budgets /\ used'.lags >= used.lags
  BY Unused DEF world, history
<1>8. QED  BY <1>1, <1>2, <1>4, <1>5, <1>6, <1>7 DEF PassStep

LEMMA ReadingIsPassStep ==
  ASSUME SyncInv, NEW w \in Workers, ReadMapping(w),
         claim' \in [owner : Claims, lapsed : BOOLEAN],
         UNCHANGED <<world, link, rest, mapping, task, timer, marks, hooks, history, used>>
  PROVE  PassStep(w)
<1> USE DEF SyncInv
<1>1. CASE ~Mapped
  <2>1. Winds(w, "finish")
    BY <1>1 DEF ReadMapping
  <2>2. QED  BY <2>1, Unused, SameRow, WindsIsPassStep
<1>2. CASE Mapped
  <2> DEFINE c == [proc[w] EXCEPT !.pc = "decide", !.project = mapping.project, !.access = access,
                                  !.renamed = mapping.renamed, !.full = mapping.full,
                                  !.behind = mapping.behind]
  <2>1. proc' = [proc EXCEPT ![w] = c]
    BY <1>2 DEF ReadMapping
  <2>2. c \in Pass /\ c.pc = "decide" /\ c.project \in Projects
    <3>1. /\ proc[w] \in Pass /\ mapping.project \in Projects /\ access \in BOOLEAN
          /\ mapping.renamed \in BOOLEAN /\ mapping.full \in BOOLEAN /\ mapping.behind \in BOOLEAN
      BY <1>2 DEF Typed, MappingRow
    <3>2. "decide" \in {"idle", "list", "decide", "take", "search", "renew", "apply", "archive",
                        "mark", "finish", "release", "fail"}
      OBVIOUS
    <3>3. c \in Pass
      BY <3>1, <3>2 DEF Pass
    <3>4. QED  BY <3>1 DEF Pass
  <2> HIDE DEF c
  <2>3. proc' \in [Workers -> Pass] /\ proc'[w] = c /\ \A v \in Workers : v # w => proc'[v] = proc[v]
    BY <2>1, <2>2 DEF Typed
  <2>4. QED
    BY <2>2, <2>3, Unused, SameRow DEF PassStep, OthersStay, world, marks, history
<1>3. QED  BY <1>1, <1>2

LEMMA Renewing ==
  ASSUME Typed, Extended  PROVE claim' \in [owner : Claims, lapsed : BOOLEAN]
BY DEF Typed, Extended

LEMMA RenewingRow ==
  ASSUME Typed, NEW w \in Workers, OwnsMapping(w),
         mapping' = [mapping EXCEPT !.lapsed = FALSE]
  PROVE  mapping' \in MappingRow /\ mapping'.project = mapping.project /\ (Mapped' <=> Mapped)
<1>1. /\ [mapping EXCEPT !.lapsed = FALSE] \in MappingRow
      /\ [mapping EXCEPT !.lapsed = FALSE].project = mapping.project
  BY DEF Typed, MappingRow
<1>2. QED  BY <1>1, ChangedRow DEF OwnsMapping

LEMMA ListingStepsAreQuiet ==
  ASSUME SyncInv, NEW w \in Workers,
         \/ JiraListProjects(w) \/ GitHubListRepositories(w)
         \/ JiraListIssues(w) \/ GitHubListIssues(w) \/ ProjectTasks(w)
  PROVE  PassStep(w)
<1> USE DEF SyncInv
<1>1. CASE JiraListProjects(w)
  <2>1. UNCHANGED <<world, link, rest, mapping, task, timer, marks, hooks, history, used>>
    BY <1>1 DEF JiraListProjects
  <2>2. CASE renew_jira_sync_claim(w) /\ ReadMapping(w)
    <3>1. claim' \in [owner : Claims, lapsed : BOOLEAN]
      BY <2>2, Renewing DEF renew_jira_sync_claim
    <3>2. QED  BY <2>1, <2>2, <3>1, ReadingIsPassStep
  <2>3. CASE Winds(w, "fail") /\ UNCHANGED claim
    BY <2>1, <2>3, Unused, SameRow, SameClaim, WindsIsPassStep
  <2>4. QED  BY <1>1, <2>2, <2>3 DEF JiraListProjects
<1>2. CASE GitHubListRepositories(w)
  BY <1>2, SameClaim, ReadingIsPassStep DEF GitHubListRepositories
<1>3. CASE JiraListIssues(w)
  <2>1. UNCHANGED <<world, link, rest, mapping, task, timer, marks, hooks, history, used>>
    BY <1>3 DEF JiraListIssues
  <2>2. CASE renew_jira_sync_claim(w) /\ \E got \in Listings(w) : Found(w, got)
    <3>1. claim' \in [owner : Claims, lapsed : BOOLEAN]
      BY <2>2, Renewing DEF renew_jira_sync_claim
    <3>2. QED  BY <2>1, <2>2, <3>1, SameRow, FoundIsPassStep
  <2>3. CASE Winds(w, "fail") /\ UNCHANGED claim
    BY <2>1, <2>3, Unused, SameRow, SameClaim, WindsIsPassStep
  <2>4. QED  BY <1>3, <2>2, <2>3 DEF JiraListIssues
<1>4. CASE GitHubListIssues(w)
  <2>1. UNCHANGED <<world, link, rest, mapping, task, timer, marks, hooks, history, used, claim>>
    BY <1>4 DEF GitHubListIssues
  <2>2. CASE \E got \in Listings(w) : Found(w, got)
    BY <2>1, <2>2, SameRow, SameClaim, FoundIsPassStep
  <2>3. CASE Winds(w, "fail")
    BY <2>1, <2>3, Unused, SameRow, SameClaim, WindsIsPassStep
  <2>4. QED  BY <1>4, <2>2, <2>3 DEF GitHubListIssues
<1>5. CASE ProjectTasks(w)
  <2>1. UNCHANGED <<world, link, rest, task, timer, marks, hooks, history, used>>
    BY <1>5 DEF ProjectTasks
  <2>2. CASE RenewBoth(w) /\ \E got \in Listings(w) : Found(w, got)
    <3>1. claim' \in [owner : Claims, lapsed : BOOLEAN]
      BY <2>2, Renewing DEF RenewBoth, renew_asana_sync_claim
    <3>2. mapping' \in MappingRow /\ mapping'.project = mapping.project /\ (Mapped' <=> Mapped)
      BY <2>2, RenewingRow DEF RenewBoth, renew_asana_mapping_claim
    <3>3. QED  BY <2>1, <2>2, <3>1, <3>2, FoundIsPassStep
  <2>3. CASE Winds(w, "release") /\ UNCHANGED <<claim, mapping>>
    BY <2>1, <2>3, Unused, SameRow, SameClaim, WindsIsPassStep
  <2>4. QED  BY <1>5, <2>2, <2>3 DEF ProjectTasks
<1>6. QED  BY <1>1, <1>2, <1>3, <1>4, <1>5


\* The fields of a mapping row that marking and claiming change.
LEMMA MarkedRow ==
  ASSUME Typed, Mapped, NEW full \in BOOLEAN, NEW behind \in BOOLEAN, NEW owner \in Claims,
         \/ mapping' = [mapping EXCEPT !.behind = behind, !.full = full]
         \/ mapping' = [mapping EXCEPT !.full = full]
         \/ mapping' = [mapping EXCEPT !.owner = owner, !.lapsed = FALSE]
         \/ mapping' = [mapping EXCEPT !.full = full, !.owner = owner, !.lapsed = FALSE]
         \/ mapping' = [mapping EXCEPT !.full = full, !.behind = behind]
         \/ mapping' = [mapping EXCEPT !.behind = behind]
         \/ mapping' = [mapping EXCEPT !.renamed = TRUE]
         \/ mapping' = [mapping EXCEPT !.lapsed = TRUE]
  PROVE  mapping' \in MappingRow /\ mapping'.project = mapping.project /\ (Mapped' <=> Mapped)
<1>1. mapping \in MappingRow
  BY DEF Typed
<1>2. mapping' \in MappingRow
  BY <1>1 DEF MappingRow
<1>3. mapping'.project = mapping.project
  BY <1>1 DEF MappingRow
<1>4. QED  BY <1>2, <1>3, RowStays

LEMMA MarkingIsPassStep ==
  ASSUME SyncInv, NEW w \in Workers, MarkSynced(w)
  PROVE  PassStep(w)
<1> USE DEF SyncInv
<1>1. /\ Winds(w, "finish")
      /\ UNCHANGED <<world, settings, task, timer, marks, hooks, history, used>>
  BY DEF MarkSynced
<1>2. mapping' \in MappingRow /\ mapping'.project = mapping.project /\ (Mapped' <=> Mapped)
  <2>1. CASE Mapped
    <3>1. proc[w].late \in BOOLEAN /\ (mapping.full /\ ~proc[w].full) \in BOOLEAN
      BY DEF Typed, Pass, MappingRow
    <3>2. mapping' = [mapping EXCEPT !.behind = proc[w].late,
                                     !.full = mapping.full /\ ~proc[w].full]
      BY <2>1 DEF MarkSynced
    <3>3. Nobody \in Claims
      BY DEF Claims
    <3>4. QED  BY <2>1, <3>1, <3>2, <3>3, MarkedRow
  <2>2. QED  BY <2>1, SameRow DEF MarkSynced
<1>3. QED  BY <1>1, <1>2, Unused, SameClaim, WindsIsPassStep DEF settings

LEMMA TakingIsPassStep ==
  ASSUME SyncInv, NEW w \in Workers, claim_asana_project_mappings(w)
  PROVE  PassStep(w)
<1> USE DEF SyncInv
<1>1. UNCHANGED <<world, settings, task, timer, hooks, history, used>>
  BY DEF claim_asana_project_mappings
<1>2. CASE Mapped /\ Owns(w) /\ mapping.full /\ MappingFree
  <2>1. /\ mapping' = [mapping EXCEPT !.owner = w, !.lapsed = FALSE]
        /\ proc' = [proc EXCEPT ![w].pc = "search", ![w].full = TRUE]
        /\ TakeSnapshot(w)
    BY <1>2 DEF claim_asana_project_mappings
  <2>2. mapping' \in MappingRow /\ mapping'.project = mapping.project /\ (Mapped' <=> Mapped)
    BY <1>2, <2>1, MarkedRow DEF Claims
  <2>3. PICK c : c = [proc[w] EXCEPT !.pc = "search", !.full = TRUE]
    OBVIOUS
  <2>4. c \in Pass /\ c.pc = "search"
    BY <2>3 DEF Typed, Pass
  <2>5. proc' = [proc EXCEPT ![w] = c]
    BY <2>1, <2>3 DEF Typed
  <2>6. proc' \in [Workers -> Pass] /\ proc'[w] = c /\ \A v \in Workers : v # w => proc'[v] = proc[v]
    BY <2>4, <2>5 DEF Typed
  <2>7. \A v \in Workers \ {w} : (v \in fresh => v \in fresh') /\ (v \in older' => v \in older)
    BY <2>1, SnapshotIsOnes
  <2>8. claim' \in [owner : Claims, lapsed : BOOLEAN]
    BY <1>1, SameClaim DEF settings
  <2>9. QED
    BY <1>1, <2>2, <2>4, <2>6, <2>7, <2>8, Unused DEF PassStep, OthersStay, world, history
<1>3. CASE ~(Mapped /\ Owns(w) /\ mapping.full /\ MappingFree)
  <2>1. Winds(w, "finish") /\ UNCHANGED <<mapping, marks>>
    BY <1>3 DEF claim_asana_project_mappings
  <2>2. QED
    BY <1>1, <2>1, Unused, SameRow, SameClaim, WindsIsPassStep DEF settings
<1>4. QED  BY <1>2, <1>3

LEMMA RenewingIsPassStep ==
  ASSUME SyncInv, NEW w \in Workers, RenewBeforeTask(w)
  PROVE  PassStep(w)
<1> USE DEF SyncInv
<1>1. /\ proc[w].pc = "renew"
      /\ UNCHANGED <<world, link, rest, task, timer, marks, hooks, history, used>>
  BY DEF RenewBeforeTask
<1>2. CASE RenewBoth(w) /\ Goes(w, "apply")
  <2>1. claim' \in [owner : Claims, lapsed : BOOLEAN]
    BY <1>2, Renewing DEF RenewBoth, renew_asana_sync_claim
  <2>2. mapping' \in MappingRow /\ mapping'.project = mapping.project /\ (Mapped' <=> Mapped)
    BY <1>2, RenewingRow DEF RenewBoth, renew_asana_mapping_claim
  <2>3. /\ proc' \in [Workers -> Pass] /\ proc'[w].pc = "apply" /\ proc'[w].got = proc[w].got
        /\ \A v \in Workers : v # w => proc'[v] = proc[v]
    BY <1>2 DEF Goes, Typed, Pass
  <2>4. Sound(proc[w].got)
    BY <1>1 DEF Passes, Listed
  <2>5. QED
    BY <1>1, <2>1, <2>2, <2>3, <2>4, Unused DEF PassStep, OthersStay, world, marks, history
<1>3. CASE Winds(w, "release") /\ UNCHANGED <<claim, mapping>>
  BY <1>1, <1>3, Unused, SameRow, SameClaim, WindsIsPassStep
<1>4. QED  BY <1>2, <1>3 DEF RenewBeforeTask

LEMMA AsanaEndsAreQuiet ==
  ASSUME SyncInv, NEW w \in Workers,
         mark_asana_mapping_synced(w) \/ AsanaFinished(w) \/ release_asana_mapping_claims(w)
  PROVE  PassStep(w)
<1> USE DEF SyncInv
<1>0. Nobody \in Claims
  BY DEF Claims
<1>1. CASE mark_asana_mapping_synced(w)
  <2>1. UNCHANGED <<world, settings, task, timer, marks, hooks, history, used>>
    BY <1>1 DEF mark_asana_mapping_synced
  <2>2. CASE OwnsMapping(w)
    <3>1. mapping' = [mapping EXCEPT !.full = FALSE, !.owner = Nobody, !.lapsed = FALSE]
      BY <1>1, <2>2 DEF mark_asana_mapping_synced
    <3>2. mapping' \in MappingRow /\ mapping'.project = mapping.project /\ (Mapped' <=> Mapped)
      BY <1>0, <2>2, <3>1, MarkedRow DEF OwnsMapping
    <3>3. QED
      BY <1>1, <2>1, <2>2, <3>2, Unused, SameClaim, WindsIsPassStep
      DEF mark_asana_mapping_synced, settings
  <2>3. CASE ~OwnsMapping(w)
    BY <1>1, <2>1, <2>3, Unused, SameRow, SameClaim, WindsIsPassStep
    DEF mark_asana_mapping_synced, settings
  <2>4. QED  BY <2>2, <2>3
<1>2. CASE AsanaFinished(w)
  <2>1. UNCHANGED <<world, link, task, timer, hooks, history, used>>
    BY <1>2 DEF AsanaFinished
  <2>2. CASE mark_asana_sync_partial(w)
    <3>1. claim' \in [owner : Claims, lapsed : BOOLEAN]
      BY <2>2, Constants DEF mark_asana_sync_partial
    <3>2. QED
      BY <2>1, <2>2, <3>1, Unused, SameRow, EndsIsPassStep DEF mark_asana_sync_partial
  <2>3. CASE mark_asana_sync_succeeded(w)
    <3>1. claim' \in [owner : Claims, lapsed : BOOLEAN]
      BY <2>3, Constants DEF mark_asana_sync_succeeded
    <3>2. mapping' \in MappingRow /\ mapping'.project = mapping.project /\ (Mapped' <=> Mapped)
      <4>1. CASE Mapped
        BY <1>0, <2>3, <4>1, MarkedRow DEF mark_asana_sync_succeeded
      <4>2. QED  BY <2>3, <4>1, SameRow DEF mark_asana_sync_succeeded
    <3>3. QED
      BY <2>1, <2>3, <3>1, <3>2, Unused, EndsIsPassStep DEF mark_asana_sync_succeeded
  <2>4. CASE Winds(w, "fail") /\ UNCHANGED <<claim, rest, mapping, marks>>
    BY <2>1, <2>4, Unused, SameRow, SameClaim, WindsIsPassStep
  <2>5. QED  BY <1>2, <2>2, <2>3, <2>4 DEF AsanaFinished
<1>3. CASE release_asana_mapping_claims(w)
  <2>1. /\ Winds(w, "fail")
        /\ UNCHANGED <<world, settings, task, timer, marks, hooks, history, used>>
    BY <1>3 DEF release_asana_mapping_claims
  <2>2. mapping' \in MappingRow /\ mapping'.project = mapping.project /\ (Mapped' <=> Mapped)
    <3>1. CASE OwnsMapping(w)
      BY <1>0, <1>3, <3>1, MarkedRow DEF release_asana_mapping_claims, OwnsMapping
    <3>2. QED  BY <1>3, <3>1, SameRow DEF release_asana_mapping_claims
  <2>3. QED  BY <2>1, <2>2, Unused, SameClaim, WindsIsPassStep DEF settings
<1>4. QED  BY <1>1, <1>2, <1>3

LEMMA FailingIsPassStep ==
  ASSUME SyncInv, NEW w \in Workers, CallFails(w)
  PROVE  PassStep(w)
<1> USE DEF SyncInv
<1>1. /\ Winds(w, Raised) /\ Raised \in {"finish", "fail", "release"}
      /\ UNCHANGED <<world, settings, mapping, task, timer, marks, hooks, history>>
      /\ used' \in Budgets /\ used'.lags >= used.lags
  BY Spending DEF CallFails, Raised
<1>2. QED  BY <1>1, SameRow, SameClaim, WindsIsPassStep DEF settings

\* The steps of a pass that leave the task alone, and how passes begin and die.
QuietPass(w) ==
  \/ JiraSyncClaimed(w) \/ GitHubSyncClaimed(w) \/ AsanaSyncClaimed(w)
  \/ SyncDue(w) \/ Crash(w) \/ CallFails(w)
  \/ sync_jira_integration(w) \/ sync_asana_integration(w) \/ sync_github_integration(w)
LEMMA QuietPassesKeepInv ==
  ASSUME SyncInv, NEW w \in Workers, QuietPass(w)
  PROVE  SyncInv'
<1>0. Typed
  BY DEF SyncInv
<1>1. CASE JiraSyncClaimed(w)
  BY <1>1, ListingStepsAreQuiet, MarkingIsPassStep, ReleaseIsPassStep, PassStepKeepsInv
  DEF JiraSyncClaimed, mark_jira_mapping_synced, mark_jira_sync_succeeded, mark_jira_sync_failed
<1>2. CASE GitHubSyncClaimed(w)
  BY <1>2, ListingStepsAreQuiet, MarkingIsPassStep, ReleaseIsPassStep, PassStepKeepsInv
  DEF GitHubSyncClaimed, mark_github_mapping_synced, mark_github_sync_succeeded,
      mark_github_sync_failed
<1>3. CASE AsanaSyncClaimed(w)
  BY <1>3, TakingIsPassStep, ListingStepsAreQuiet, RenewingIsPassStep, AsanaEndsAreQuiet,
     ReleaseIsPassStep, PassStepKeepsInv
  DEF AsanaSyncClaimed, mark_asana_sync_failed
<1>4. CASE SyncDue(w)
  BY <1>0, <1>4, Unused, BeginsIsPassStep, PassStepKeepsInv
  DEF SyncDue, JiraSyncDue, AsanaSyncDue, GitHubSyncDue
<1>5. CASE sync_jira_integration(w) \/ sync_asana_integration(w) \/ sync_github_integration(w)
  <2>1. used' \in Budgets /\ used'.lags >= used.lags
    BY <1>0, <1>5, Spending
    DEF sync_jira_integration, sync_asana_integration, sync_github_integration, Owner
  <2>2. QED
    BY <1>5, <2>1, BeginsIsPassStep, PassStepKeepsInv
    DEF sync_jira_integration, sync_asana_integration, sync_github_integration,
        JiraSyncNow, AsanaSyncNow, GitHubSyncNow
<1>6. QED
  BY <1>1, <1>2, <1>3, <1>4, <1>5, CrashIsPassStep, FailingIsPassStep, PassStepKeepsInv
  DEF QuietPass


-----------------------------------------------------------------------------
(***************************************************************************)
(* Steps that neither observe the issue nor change it.                     *)
(***************************************************************************)

\* What such a step leaves of the issue, the task, the passes and the webhooks.
Onward ==
  /\ UNCHANGED <<scope, fresh, older>>
  /\ issue'.there = issue.there /\ issue'.open = issue.open /\ issue'.version = issue.version
  /\ issue'.hidden => \/ issue.hidden
                      \/ provider = "jira" /\ issue.there /\ used.lags = 0 /\ used'.lags > 0
  /\ meant => meant'
  /\ excused \subseteq excused' /\ used'.lags >= used.lags
  /\ Mapped' \/ meant'
  /\ Imported' <=> Imported
  /\ task'.version = task.version /\ task'.missing = task.missing
  /\ Imported => task'.status # "none"
  /\ task'.status = "archived" => task.status = "archived" \/ meant'
  /\ rushed => rushed' \/ (Running = {} /\ ~issue.hidden)
  /\ \A w \in Workers :
       /\ proc'[w].pc \in {"renew", "apply"} => proc'[w] = proc[w]
       /\ proc'[w].pc = "archive" => proc'[w] = proc[w] \/ proc'[w].seen \/ Cut'
  /\ \A d \in 1..scope.hooks :
       hooks'[d].state # "none" /\ hooks'[d].event = "issues" =>
         /\ hooks[d].state # "none" /\ hooks[d].event = "issues"
         /\ hooks'[d].version = hooks[d].version /\ hooks'[d].open = hooks[d].open

LEMMA OnwardKeeps ==
  ASSUME SyncInv, Typed', Onward
  PROVE  World' /\ Stored' /\ Passes' /\ Deliveries' /\ OpenIssuesStay'
<1> USE DEF SyncInv
<1>1. /\ meant \in BOOLEAN /\ meant' \in BOOLEAN /\ used.lags \in Nat /\ used'.lags \in Nat
      /\ rushed \in BOOLEAN /\ issue.hidden \in BOOLEAN /\ issue.version \in Nat
      /\ task.version \in Nat
  BY DEF Typed, Budgets, Issue, TaskRow
<1>2. Cut => Cut'
  BY DEF Onward, Cut
<1>3. provider' = provider
  BY DEF Onward, provider
<1>4. World'
  BY <1>1, <1>3 DEF Onward, World
<1>5. Stored'
  <2>1. /\ Imported' => task'.status # "none" /\ task'.version \in 1 .. issue'.version
        /\ provider' = "github" => ~task'.missing
    BY <1>3 DEF Onward, Stored
  <2>2. ASSUME task'.missing, ~Cut'
        PROVE  provider' = "jira" /\ used'.lags > 0 /\ (rushed' \/ ~issue'.hidden)
    <3>1. provider = "jira" /\ used.lags > 0 /\ (rushed \/ ~issue.hidden)
      BY <1>2, <2>2 DEF Onward, Stored
    <3>2. rushed' \/ ~issue'.hidden
      BY <1>1, <3>1 DEF Onward
    <3>3. QED  BY <1>1, <1>3, <3>1, <3>2 DEF Onward
  <2>3. QED  BY <2>1, <2>2 DEF Stored
<1>6. \A got : Sound(got) => Sound(got)'
  BY DEF Onward, Sound
<1>7. ASSUME NEW w \in Workers  PROVE Listed(w)' /\ Missed(w)'
  <2>1. Listed(w) /\ Missed(w)
    BY DEF Passes
  <2>2. Listed(w)'
    BY <1>6, <2>1 DEF Listed, Onward
  <2>3. CASE proc'[w].pc = "archive" /\ proc'[w] = proc[w]
    <3>1. rushed => rushed'
      BY <2>3 DEF Onward, Running
    <3>2. Missed(w)'
      BY <1>1, <1>2, <1>3, <2>1, <2>3, <3>1 DEF Missed, Onward
    <3>3. QED  BY <2>2, <3>2
  <2>4. Cut' \/ proc'[w].seen \/ proc'[w].pc # "archive" => Missed(w)'
    BY DEF Missed
  <2>5. QED  BY <2>2, <2>3, <2>4 DEF Onward
<1>8. ASSUME NEW d \in 1..scope'.hooks  PROVE Announced(d)'
  <2>1. d \in 1..scope.hooks
    BY <1>8 DEF Onward
  <2>2. Announced(d)
    BY <2>1 DEF Deliveries
  <2>3. QED  BY <1>6, <2>1, <2>2 DEF Announced, Onward
<1>9. OpenIssuesStay'
  BY <1>1 DEF OpenIssuesStay, Onward
<1>10. QED  BY <1>4, <1>5, <1>7, <1>8, <1>9 DEF Passes, Deliveries

LEMMA SamePlaceKeeps ==
  ASSUME SyncInv, UNCHANGED timer, task'.project = task.project, Imported' <=> Imported,
         excused \subseteq excused', Mapped' => Mapped, mapping'.project = mapping.project,
         InTime => task'.status = task.status
  PROVE  Placed' /\ TimersStopWithTheTask'
BY DEF SyncInv, Placed, TimersStopWithTheTask, InTime

\* A close leaves no session; a start in flight it leaves in flight.
LEMMA ClosedTimer ==
  ASSUME Typed, CloseTaskSessions
  PROVE  timer' \in TimerRow /\ ~InTime'
BY DEF Typed, CloseTaskSessions, NoTimer, TimerRow, InTime

\* Without such a session there is nothing to follow the task.
LEMMA NobodyInTime ==
  ASSUME ~InTime', Mapped' /\ Imported' => task'.project = mapping'.project
  PROVE  Placed' /\ TimersStopWithTheTask'
BY DEF Placed, TimersStopWithTheTask, InTime

LEMMA InTimeFollows ==
  SyncInv /\ InTime => Imported /\ task.status = "active"
BY DEF SyncInv, TimersStopWithTheTask, InTime, Imported, NoTask

\* A task that is imported has a version, so it remains one whatever is written.
LEMMA TaskRows ==
  ASSUME SyncInv, Imported
  PROVE  /\ \A p \in Projects \cup {NoProject} :
              /\ [task EXCEPT !.project = p] \in TaskRow /\ [task EXCEPT !.project = p] # NoTask
              /\ [task EXCEPT !.project = p].version = task.version
              /\ [task EXCEPT !.project = p].missing = task.missing
              /\ [task EXCEPT !.project = p].status = task.status
              /\ [task EXCEPT !.project = p].project = p
         /\ \A s \in {"active", "archived"} :
              /\ [task EXCEPT !.status = s] \in TaskRow /\ [task EXCEPT !.status = s] # NoTask
              /\ [task EXCEPT !.status = s].version = task.version
              /\ [task EXCEPT !.status = s].missing = task.missing
              /\ [task EXCEPT !.status = s].status = s
              /\ [task EXCEPT !.status = s].project = task.project
         /\ [task EXCEPT !.readonly = FALSE] \in TaskRow
         /\ [task EXCEPT !.readonly = FALSE] # NoTask
         /\ [task EXCEPT !.readonly = FALSE].version = task.version
         /\ [task EXCEPT !.readonly = FALSE].missing = task.missing
         /\ [task EXCEPT !.readonly = FALSE].status = task.status
         /\ [task EXCEPT !.readonly = FALSE].project = task.project
<1>1. task \in TaskRow /\ task.version # 0
  BY DEF SyncInv, Stored, Typed
<1>2. NoTask.version = 0
  BY DEF NoTask
<1>3. \A p \in Projects \cup {NoProject} :
              /\ [task EXCEPT !.project = p] \in TaskRow
              /\ [task EXCEPT !.project = p].version = task.version
              /\ [task EXCEPT !.project = p].missing = task.missing
              /\ [task EXCEPT !.project = p].status = task.status
              /\ [task EXCEPT !.project = p].project = p
  BY <1>1 DEF TaskRow
<1>4. \A s \in {"active", "archived"} :
              /\ [task EXCEPT !.status = s] \in TaskRow
              /\ [task EXCEPT !.status = s].version = task.version
              /\ [task EXCEPT !.status = s].missing = task.missing
              /\ [task EXCEPT !.status = s].status = s
              /\ [task EXCEPT !.status = s].project = task.project
  BY <1>1 DEF TaskRow
<1>5. /\ [task EXCEPT !.readonly = FALSE] \in TaskRow
      /\ [task EXCEPT !.readonly = FALSE].version = task.version
      /\ [task EXCEPT !.readonly = FALSE].missing = task.missing
      /\ [task EXCEPT !.readonly = FALSE].status = task.status
      /\ [task EXCEPT !.readonly = FALSE].project = task.project
  BY <1>1 DEF TaskRow
<1>6. QED  BY <1>1, <1>2, <1>3, <1>4, <1>5


\* Whoever maps the project, the task and its timer follow.
LEMMA MappingKeepsInv ==
  ASSUME SyncInv, NEW p \in Projects, NEW row \in MappingRow, row.project = p, MapTo(p, row),
         UNCHANGED <<scope, access, issue, fresh, older, hooks, meant, rushed, claim>>,
         used' \in Budgets, used'.lags >= used.lags,
         proc' \in [Workers -> Pass],
         \A w \in Workers : proc'[w].pc = "decide" => proc'[w].project \in Projects,
         \A w \in Workers :
           proc'[w].pc \in {"renew", "apply", "archive"} => proc'[w] = proc[w]
  PROVE  SyncInv'
<1> USE DEF SyncInv
<1>1. p # NoProject
  BY ProjectsAssumption
<1>2. mapping' \in MappingRow /\ mapping'.project = p
  <2>1. NewMapping(p) \in MappingRow /\ NewMapping(p).project = p
    BY Constants DEF NewMapping, NoMapping
  <2>2. QED  BY <2>1 DEF MapTo
<1>3. Mapped'
  BY <1>1, <1>2 DEF Mapped, NoMapping
<1>4. /\ task' \in TaskRow /\ (Imported' <=> Imported)
      /\ task'.version = task.version /\ task'.missing = task.missing
      /\ task'.status = task.status
      /\ Imported => task'.project = p
  <2>1. CASE Imported
    <3>1. task' = [task EXCEPT !.project = p]
      BY <2>1 DEF MapTo
    <3>2. QED  BY <2>1, <3>1, TaskRows DEF Imported
  <2>2. CASE ~Imported
    <3>1. task' = task
      BY <2>2 DEF MapTo
    <3>2. QED  BY <2>2, <3>1 DEF Imported, Typed
  <2>3. QED  BY <2>1, <2>2
<1>5. timer' \in TimerRow /\ (timer' = timer \/ ~InTime') /\ excused \subseteq excused'
  BY ClosedTimer DEF MapTo, Typed
<1>6. Typed'
  BY <1>2, <1>4, <1>5 DEF Typed
<1>7. Onward
  BY <1>3, <1>4, <1>5 DEF Onward, Stored
<1>8. InTime' => timer' = timer /\ InTime /\ (p = timer.project \/ "adopted" \in excused')
  <2>1. CASE Moves(p)
    BY <2>1, ClosedTimer DEF MapTo
  <2>2. CASE ~Mapped
    BY <2>2 DEF MapTo, Moves, InTime
  <2>3. CASE Mapped /\ mapping.project = p
    BY <1>5, <2>3 DEF Placed, InTime
  <2>4. QED  BY <2>1, <2>2, <2>3 DEF Moves
<1>9. Placed'
  BY <1>2, <1>4, <1>8 DEF Placed
<1>10. TimersStopWithTheTask'
  <2>1. QED  BY <1>4, <1>8, InTimeFollows DEF TimersStopWithTheTask, InTime
<1>11. QED  BY <1>6, <1>7, <1>9, <1>10, OnwardKeeps

MappingRoutes(p) ==
  jira_integration_mapping(p) \/ asana_integration_mapping(p) \/ github_integration_mapping(p)
LEMMA MappingRoutesKeepInv ==
  ASSUME SyncInv, NEW p \in Projects, MappingRoutes(p)
  PROVE  SyncInv'
<1> USE DEF SyncInv
<1>1. MapProject
  BY DEF MappingRoutes, jira_integration_mapping, asana_integration_mapping,
         github_integration_mapping
<1>2. /\ UNCHANGED <<scope, access, issue, fresh, older, hooks, meant, rushed, claim, proc>>
      /\ used' \in Budgets /\ used'.lags >= used.lags
  BY <1>1, Spending DEF MapProject, Owner, world, marks
<1>3. PICK row \in MappingRow : row.project = p /\ MapTo(p, row)
  <2>1. mapping \in MappingRow /\ Nobody \in Claims
    BY DEF Typed, Claims
  <2>2. /\ [mapping EXCEPT !.project = p] \in MappingRow
        /\ [mapping EXCEPT !.project = p].project = p
    BY <2>1 DEF MappingRow
  <2>3. /\ [mapping EXCEPT !.project = p, !.full = TRUE, !.owner = Nobody, !.lapsed = FALSE]
             \in MappingRow
        /\ [mapping EXCEPT !.project = p, !.full = TRUE, !.owner = Nobody,
                           !.lapsed = FALSE].project = p
    BY <2>1 DEF MappingRow
  <2>4. /\ [mapping EXCEPT !.project = p, !.renamed = FALSE] \in MappingRow
        /\ [mapping EXCEPT !.project = p, !.renamed = FALSE].project = p
    BY <2>1 DEF MappingRow
  <2>5. QED
    BY <2>2, <2>3, <2>4
    DEF MappingRoutes, jira_integration_mapping, asana_integration_mapping,
        github_integration_mapping, set_jira_project_mapping, set_asana_project_mapping,
        set_github_project_mapping
<1>4. /\ proc' \in [Workers -> Pass]
      /\ \A w \in Workers : proc'[w].pc = "decide" => proc'[w].project \in Projects
      /\ \A w \in Workers : proc'[w] = proc[w]
  BY <1>2 DEF Typed
<1>5. QED  BY <1>2, <1>3, <1>4, MappingKeepsInv

\* A step that leaves everything of the task alone.
LEMMA IdleKeepsInv ==
  ASSUME SyncInv, Typed', Onward, UNCHANGED <<task, timer>>,
         mapping'.project = mapping.project, Mapped' => Mapped
  PROVE  SyncInv'
BY OnwardKeeps, SamePlaceKeeps DEF SyncInv, Onward

LEMMA KeepListedKeepsInv ==
  ASSUME SyncInv, NEW w \in Workers, KeepListed(w)
  PROVE  SyncInv'
<1> USE DEF SyncInv
<1>1. /\ proc[w].pc = "decide" /\ proc[w].project \in Projects
      /\ UNCHANGED <<scope, access, issue, fresh, older, hooks, meant, rushed, claim, used>>
  BY DEF KeepListed, Typed, world, marks
<1>2. used' \in Budgets /\ used'.lags >= used.lags
  BY <1>1, Unused
<1>3. ASSUME Searches(w)
      PROVE  /\ proc' \in [Workers -> Pass] /\ proc'[w].pc = "search"
             /\ \A v \in Workers : v # w => proc'[v] = proc[v]
  <2>1. PICK c : c = [proc[w] EXCEPT !.pc = "search", !.project = NoProject,
                                     !.access = FALSE, !.renamed = FALSE]
    OBVIOUS
  <2>2. c \in Pass /\ c.pc = "search"
    BY <2>1 DEF Typed, Pass
  <2>3. proc' = [proc EXCEPT ![w] = c]
    BY <1>3, <2>1 DEF Searches
  <2>4. QED  BY <2>2, <2>3 DEF Typed
<1>4. ASSUME NEW pc, pc \notin {"renew", "apply", "archive", "decide"},
             proc' \in [Workers -> Pass], proc'[w].pc = pc,
             \A v \in Workers : v # w => proc'[v] = proc[v]
      PROVE  /\ \A v \in Workers :
                  proc'[v].pc \in {"renew", "apply", "archive"} => proc'[v] = proc[v]
             /\ \A v \in Workers : proc'[v].pc = "decide" => proc'[v].project \in Projects
  BY <1>4 DEF Typed
<1>5. CASE set_jira_project_mapping(proc[w].project) /\ Searches(w)
  <2>1. PICK row : row = [mapping EXCEPT !.project = proc[w].project]
    OBVIOUS
  <2>2. row \in MappingRow /\ row.project = proc[w].project
    BY <1>1, <2>1 DEF Typed, MappingRow
  <2>3. MapTo(proc[w].project, row)
    BY <1>5, <2>1 DEF set_jira_project_mapping
  <2>4. PICK p \in Projects : p = proc[w].project
    BY <1>1
  <2>5. QED  BY <1>1, <1>2, <1>3, <1>4, <1>5, <2>2, <2>3, <2>4, MappingKeepsInv
<1>6. CASE set_github_project_mapping(proc[w].project) /\ Searches(w)
  <2>1. PICK row : row = [mapping EXCEPT !.project = proc[w].project, !.renamed = FALSE]
    OBVIOUS
  <2>2. row \in MappingRow /\ row.project = proc[w].project
    BY <1>1, <2>1 DEF Typed, MappingRow
  <2>3. MapTo(proc[w].project, row)
    BY <1>6, <2>1 DEF set_github_project_mapping
  <2>4. PICK p \in Projects : p = proc[w].project
    BY <1>1
  <2>5. QED  BY <1>1, <1>2, <1>3, <1>4, <1>6, <2>2, <2>3, <2>4, MappingKeepsInv
<1>7. CASE (Searches(w) \/ Winds(w, "fail")) /\ UNCHANGED <<mapping, task, timer, rest, excused>>
  <2>1. /\ proc' \in [Workers -> Pass] /\ proc'[w].pc \in {"search", "fail"}
        /\ \A v \in Workers : v # w => proc'[v] = proc[v]
    BY <1>3, <1>7, Winding
  <2>2. /\ \A v \in Workers :
             proc'[v].pc \in {"renew", "apply", "archive"} => proc'[v] = proc[v]
        /\ \A v \in Workers : proc'[v].pc = "decide" => proc'[v].project \in Projects
    BY <2>1 DEF Typed
  <2>3. Typed' /\ (Mapped' <=> Mapped) /\ (Imported' <=> Imported)
    BY <1>1, <1>7, <2>1, <2>2 DEF Typed, Mapped, Imported
  <2>4. Onward
    BY <1>1, <1>2, <1>7, <2>2, <2>3 DEF Onward, World, Stored
  <2>5. QED  BY <1>7, <2>3, <2>4, IdleKeepsInv
<1>8. QED  BY <1>5, <1>6, <1>7 DEF KeepListed


\* Whoever unmaps the project meant its tasks to go.
LEMMA UnmappingKeepsInv ==
  ASSUME SyncInv, Unmap,
         UNCHANGED <<scope, access, issue, fresh, older, claim, rushed, excused>>,
         used' \in Budgets, used'.lags >= used.lags,
         hooks' \in [1..scope.hooks -> Delivery],
         \A d \in 1..scope.hooks :
           hooks'[d].state # "none" /\ hooks'[d].event = "issues" =>
             /\ hooks[d].state # "none" /\ hooks[d].event = "issues"
             /\ hooks'[d].version = hooks[d].version /\ hooks'[d].open = hooks[d].open,
         proc' \in [Workers -> Pass],
         \A w \in Workers : proc'[w].pc = "decide" => proc'[w].project \in Projects,
         \A w \in Workers :
           proc'[w].pc \in {"renew", "apply", "archive"} => proc'[w] = proc[w]
  PROVE  SyncInv'
<1> USE DEF SyncInv
<1>1. mapping' \in MappingRow /\ ~Mapped'
  BY Constants DEF Unmap, Mapped
<1>2. /\ task' \in TaskRow /\ (Imported' <=> Imported)
      /\ task'.version = task.version /\ task'.missing = task.missing
      /\ Imported => task'.status = "archived"
      /\ ~Imported => task' = task
  <2>1. CASE Imported
    <3>1. task' = [task EXCEPT !.status = "archived"]
      BY <2>1 DEF Unmap
    <3>2. QED  BY <2>1, <3>1, TaskRows DEF Imported
  <2>2. CASE ~Imported
    <3>1. task' = task
      BY <2>2 DEF Unmap
    <3>2. QED  BY <2>2, <3>1 DEF Imported, Typed
  <2>3. QED  BY <2>1, <2>2
<1>3. timer' \in TimerRow /\ ~InTime' /\ meant' = TRUE
  BY ClosedTimer DEF Unmap
<1>4. Typed'
  BY <1>1, <1>2, <1>3 DEF Typed
<1>5. Onward
  BY <1>1, <1>2, <1>3 DEF Onward
<1>6. QED
  BY <1>1, <1>3, <1>4, <1>5, OnwardKeeps, NobodyInTime

\* A pass that ends the mapping, or finds it ended.
LEMMA RemoveUnlistedKeepsInv ==
  ASSUME SyncInv, NEW w \in Workers, RemoveUnlisted(w)
  PROVE  SyncInv'
<1> USE DEF SyncInv
<1>1. UNCHANGED <<scope, access, issue, fresh, older, hooks, claim, rushed, excused, used>>
  BY DEF RemoveUnlisted, world, settings, marks
<1>2. used' \in Budgets /\ used'.lags >= used.lags
  BY <1>1, Unused
<1>3. /\ proc' \in [Workers -> Pass]
      /\ \A v \in Workers : proc'[v].pc = "decide" => proc'[v].project \in Projects
      /\ \A v \in Workers :
           proc'[v].pc \in {"renew", "apply", "archive"} => proc'[v] = proc[v]
  <2>1. PICK pc \in {"finish", "fail", "release"} : Winds(w, pc)
    BY DEF RemoveUnlisted
  <2>2. /\ proc' \in [Workers -> Pass] /\ proc'[w].pc = pc
        /\ \A v \in Workers : v # w => proc'[v] = proc[v]
    BY <2>1, Winding
  <2>3. QED  BY <2>2 DEF Typed
<1>4. CASE Unmap
  BY <1>1, <1>2, <1>3, <1>4, UnmappingKeepsInv DEF Typed
<1>5. CASE UNCHANGED <<mapping, task, timer, meant>>
  <2>1. Typed' /\ (Mapped' <=> Mapped) /\ (Imported' <=> Imported)
    BY <1>1, <1>3, <1>5 DEF Typed, Mapped, Imported
  <2>2. Onward
    BY <1>1, <1>2, <1>3, <1>5, <2>1 DEF Onward, World, Stored
  <2>3. QED  BY <1>5, <2>1, <2>2, IdleKeepsInv
<1>6. QED
  BY <1>4, <1>5 DEF RemoveUnlisted, remove_jira_project_mapping, remove_github_project_mapping

UnmappingRoutes ==
  \/ delete_jira_integration_mapping \/ delete_asana_integration_mapping
  \/ delete_github_integration_mapping
LEMMA UnmappingRoutesKeepInv == ASSUME SyncInv, UnmappingRoutes  PROVE SyncInv'
<1> USE DEF SyncInv
<1>1. Unmap /\ UnmapProject
  BY DEF UnmappingRoutes, delete_jira_integration_mapping, delete_asana_integration_mapping,
         delete_github_integration_mapping, remove_jira_project_mapping,
         remove_asana_project_mapping, remove_github_project_mapping
<1>2. /\ UNCHANGED <<scope, access, issue, fresh, older, hooks, claim, rushed, excused, proc>>
      /\ used' \in Budgets /\ used'.lags >= used.lags
  BY <1>1, Spending DEF UnmapProject, Owner, world, settings, marks
<1>3. /\ hooks' \in [1..scope.hooks -> Delivery] /\ proc' \in [Workers -> Pass]
      /\ \A v \in Workers : proc'[v].pc = "decide" => proc'[v].project \in Projects
  BY <1>2 DEF Typed
<1>4. QED  BY <1>1, <1>2, <1>3, UnmappingKeepsInv

\* Disconnecting.
LEMMA LettingGoKeepsInv ==
  ASSUME SyncInv, LetGo, UNCHANGED proc,
         used' \in Budgets, used'.lags >= used.lags,
         hooks' \in [1..scope.hooks -> Delivery],
         \A d \in 1..scope.hooks :
           hooks'[d].state # "none" /\ hooks'[d].event = "issues" =>
             /\ hooks[d].state # "none" /\ hooks[d].event = "issues"
             /\ hooks'[d].version = hooks[d].version /\ hooks'[d].open = hooks[d].open
  PROVE  SyncInv'
<1> USE DEF SyncInv
<1>1. /\ UNCHANGED <<scope, access, issue, mapping, timer, fresh, older, meant, rushed, excused>>
      /\ claim' = Unclaimed
  BY DEF LetGo, world, marks, history
<1>2. /\ task' \in TaskRow /\ (Imported' <=> Imported)
      /\ task'.version = task.version /\ task'.missing = task.missing
      /\ task'.status = task.status /\ task'.project = task.project
  <2>1. CASE Imported
    <3>1. task' = [task EXCEPT !.readonly = FALSE]
      BY <2>1 DEF LetGo
    <3>2. QED  BY <2>1, <3>1, TaskRows DEF Imported
  <2>2. CASE ~Imported
    <3>1. task' = task
      BY <2>2 DEF LetGo
    <3>2. QED  BY <2>2, <3>1 DEF Imported, Typed
  <2>3. QED  BY <2>1, <2>2
<1>3. Mapped' <=> Mapped
  BY <1>1 DEF Mapped
<1>4. Typed'
  BY <1>1, <1>2, <1>3, Constants DEF Typed
<1>5. Onward
  BY <1>1, <1>2, <1>3 DEF Onward, World, Stored
<1>6. Placed' /\ TimersStopWithTheTask'
  BY <1>1, <1>2, <1>3, SamePlaceKeeps
<1>7. QED  BY <1>4, <1>5, <1>6, OnwardKeeps

Disconnects == DisconnectJira \/ DisconnectAsana \/ DisconnectGitHub
LEMMA DisconnectsKeepInv == ASSUME SyncInv, Disconnects  PROVE SyncInv'
<1> USE DEF SyncInv
<1>1. LetGo /\ DisconnectRoute
  BY DEF Disconnects, DisconnectJira, DisconnectAsana, DisconnectGitHub,
         disconnect_jira_integration, disconnect_asana_integration, disconnect_github_integration
<1>2. UNCHANGED <<proc, hooks>> /\ used' \in Budgets /\ used'.lags >= used.lags
  BY <1>1, Spending DEF DisconnectRoute, Owner
<1>3. hooks' \in [1..scope.hooks -> Delivery]
  BY <1>2 DEF Typed
<1>4. QED  BY <1>1, <1>2, <1>3, LettingGoKeepsInv


\* A closed task was meant to be, and only an active one is worked on.
LEMMA TaskStatusKeepsInv == ASSUME SyncInv, set_task_status  PROVE SyncInv'
<1> USE DEF SyncInv
<1>1. /\ Imported
      /\ UNCHANGED <<scope, access, issue, link, rest, claim, mapping, fresh, older, proc, hooks,
                     rushed, excused>>
      /\ used' \in Budgets /\ used'.lags >= used.lags
  BY Spending DEF set_task_status, Owner, world, settings, marks
<1>2. PICK status \in {"active", "archived"} :
        /\ status # task.status /\ task' = [task EXCEPT !.status = status]
        /\ IF status = "archived" THEN CloseTaskSessions /\ meant' = TRUE
           ELSE UNCHANGED <<timer, meant>>
  BY DEF set_task_status
<1>3. /\ task' \in TaskRow /\ (Imported' <=> Imported)
      /\ task'.version = task.version /\ task'.missing = task.missing
      /\ task'.status = status /\ task'.project = task.project
  BY <1>1, <1>2, TaskRows DEF Imported
<1>4. Mapped' <=> Mapped
  BY <1>1 DEF Mapped
<1>5. timer' \in TimerRow /\ meant' \in BOOLEAN /\ (meant => meant')
      /\ (status = "archived" => meant' /\ ~InTime')
      /\ (status = "active" => timer' = timer)
  BY <1>2, ClosedTimer DEF Typed
<1>6. Typed'
  BY <1>1, <1>3, <1>4, <1>5 DEF Typed
<1>7. Onward
  BY <1>1, <1>3, <1>4, <1>5 DEF Onward, World
<1>8. Placed' /\ TimersStopWithTheTask'
  <2>1. CASE ~InTime'
    BY <1>1, <1>3, <1>4, <2>1, NobodyInTime DEF Placed
  <2>2. CASE InTime'
    <3>1. timer' = timer /\ status = "active"
      BY <1>2, <1>5, <2>2
    <3>2. QED  BY <1>1, <1>3, <1>4, <3>1 DEF Placed, TimersStopWithTheTask, InTime
  <2>3. QED  BY <2>1, <2>2
<1>9. QED  BY <1>6, <1>7, <1>8, OnwardKeeps

\* A start is let through by the task it reads, and inserts by what it has read.
LEMMA StartsKeepInv == ASSUME SyncInv, StartChecks \/ StartInserts  PROVE SyncInv'
<1> USE DEF SyncInv
<1>1. UNCHANGED <<scope, access, issue, claim, mapping, task, fresh, older, proc, hooks,
                  meant, rushed, excused, used>>
  BY DEF StartChecks, StartInserts, world, settings, marks, history
<1>2. (Mapped' <=> Mapped) /\ (Imported' <=> Imported)
  BY <1>1 DEF Mapped, Imported
<1>3. /\ timer' \in TimerRow
      /\ InTime' => \/ (InTime /\ timer'.project = timer.project)
                   \/ (task.status = "active" /\ task.project = timer'.project)
  <2>1. CASE StartChecks
    BY <2>1 DEF StartChecks, Typed, TimerRow, TaskRow, InTime
  <2>2. CASE StartInserts
    <3>1. timer \in TimerRow /\ (task.status # "active" \/ task.project # timer.start) \in BOOLEAN
      BY DEF Typed
    <3>2. CASE timer.project = timer.start
      BY <2>2, <3>1, <3>2 DEF StartInserts, TimerRow, InTime
    <3>3. CASE timer.project # timer.start
      BY <2>2, <3>1, <3>3 DEF StartInserts, TimerRow, InTime
    <3>4. QED  BY <3>2, <3>3
  <2>3. QED  BY <2>1, <2>2
<1>4. Typed'
  BY <1>1, <1>2, <1>3 DEF Typed
<1>5. Onward
  BY <1>1, <1>2, Unused DEF Onward, World, Stored
<1>6. Placed' /\ TimersStopWithTheTask'
  <2>1. task.status = "active" => Imported
    BY DEF Imported, NoTask
  <2>2. QED  BY <1>1, <1>2, <1>3, <2>1 DEF Placed, TimersStopWithTheTask, InTime
<1>7. QED  BY <1>4, <1>5, <1>6, OnwardKeeps

LEMMA ReconnectKeepsInv ==
  ASSUME SyncInv, jira_callback \/ select_asana_workspace \/ github_callback
  PROVE  SyncInv'
<1> USE DEF SyncInv
<1>1. used' \in Budgets /\ used'.lags >= used.lags
  BY Spending DEF jira_callback, select_asana_workspace, github_callback, Owner
<1>2. /\ UNCHANGED <<scope, access, issue, task, timer, fresh, older, proc, hooks, meant, rushed,
                     excused>>
      /\ claim' \in [owner : Claims, lapsed : BOOLEAN]
  BY Constants
  DEF jira_callback, select_asana_workspace, github_callback, upsert_jira_site,
      upsert_asana_workspace, upsert_github_installation, Reconnect, world, marks, history
<1>3. mapping' \in MappingRow /\ mapping'.project = mapping.project /\ (Mapped' <=> Mapped)
  <2>1. CASE Mapped
    <3>1. \/ mapping' = [mapping EXCEPT !.full = TRUE, !.behind = TRUE]
          \/ mapping' = [mapping EXCEPT !.full = TRUE, !.owner = Nobody, !.lapsed = FALSE]
          \/ mapping' = mapping
      BY <2>1 DEF jira_callback, select_asana_workspace, github_callback, upsert_jira_site,
        upsert_asana_workspace, upsert_github_installation, Reconnect
    <3>2. Nobody \in Claims
      BY DEF Claims
    <3>3. QED  BY <2>1, <3>1, <3>2, MarkedRow, SameRow
  <2>2. CASE ~Mapped
    <3>1. mapping' = mapping
      BY <2>2 DEF jira_callback, select_asana_workspace, github_callback, upsert_jira_site,
        upsert_asana_workspace, upsert_github_installation, Reconnect
    <3>2. QED  BY <3>1, SameRow
  <2>3. QED  BY <2>1, <2>2
<1>4. Imported' <=> Imported
  BY <1>2 DEF Imported
<1>5. Typed'
  BY <1>1, <1>2, <1>3 DEF Typed
<1>6. Onward
  BY <1>1, <1>2, <1>3, <1>4 DEF Onward, World, Stored
<1>7. QED  BY <1>2, <1>3, <1>5, <1>6, IdleKeepsInv

\* Leases, rests and days.
LEMMA TimeKeepsInv ==
  ASSUME SyncInv, DayPasses \/ RestEnds \/ ClaimLapses \/ MappingClaimLapses \/ RenameRepository
  PROVE  SyncInv'
<1> USE DEF SyncInv
<1>1. /\ UNCHANGED <<scope, access, issue, task, timer, fresh, older, proc, hooks, meant, excused>>
      /\ used' \in Budgets /\ used'.lags >= used.lags
  BY Spending, Unused
  DEF DayPasses, RestEnds, ClaimLapses, MappingClaimLapses, RenameRepository, Overrun,
      world, settings, marks, history
<1>2. claim' \in [owner : Claims, lapsed : BOOLEAN]
  BY DEF Typed, DayPasses, RestEnds, ClaimLapses, MappingClaimLapses, RenameRepository, settings
<1>3. mapping' \in MappingRow /\ mapping'.project = mapping.project /\ (Mapped' <=> Mapped)
  <2>1. ASSUME mapping' # mapping
        PROVE  /\ Mapped
               /\ \/ mapping' = [mapping EXCEPT !.full = TRUE]
                  \/ mapping' = [mapping EXCEPT !.lapsed = TRUE]
                  \/ mapping' = [mapping EXCEPT !.renamed = TRUE]
    <3>1. mapping.owner # Nobody => Mapped
      BY DEF Mapped, NoMapping
    <3>2. QED
      BY <2>1, <3>1
      DEF DayPasses, RestEnds, ClaimLapses, MappingClaimLapses, RenameRepository, settings
  <2>2. Nobody \in Claims
    BY DEF Claims
  <2>3. QED  BY <2>1, <2>2, MarkedRow, SameRow
<1>4. rushed' \in BOOLEAN /\ (rushed => rushed' \/ (Running = {} /\ ~issue.hidden))
  BY DEF DayPasses, RestEnds, ClaimLapses, MappingClaimLapses, RenameRepository, history, Typed,
         Issue
<1>5. Imported' <=> Imported
  BY <1>1 DEF Imported
<1>6. Typed'
  BY <1>1, <1>2, <1>3, <1>4 DEF Typed
<1>7. Onward
  BY <1>1, <1>3, <1>4, <1>5 DEF Onward, World, Stored
<1>8. QED  BY <1>1, <1>3, <1>6, <1>7, IdleKeepsInv

\* The search index, and what GitHub's other webhooks say.
Announcement(event, version, open) ==
  [state |-> "sent", event |-> event, version |-> version, open |-> open]
LEMMA Announcing ==
  ASSUME Typed, NEW version \in Nat, NEW open \in BOOLEAN,
         NEW event \in {"issues", "installation_repositories", "installation"},
         Announce(event, version, open)
  PROVE  /\ hooks' \in [1..scope.hooks -> Delivery]
         /\ \A d \in 1..scope.hooks :
              hooks'[d] = hooks[d] \/ hooks'[d] = Announcement(event, version, open)
<1>1. Announcement(event, version, open) \in Delivery
  BY DEF Announcement, Delivery
<1>2. \/ hooks' = hooks
      \/ \E d : hooks' = [hooks EXCEPT ![d] = Announcement(event, version, open)]
  BY DEF Announce, Announcement
<1>3. QED  BY <1>1, <1>2 DEF Typed

LEMMA SurroundingsKeepInv ==
  ASSUME SyncInv, IndexLags \/ IndexCatchesUp \/ ChangeAccess
  PROVE  SyncInv'
<1> USE DEF SyncInv
<1>1. /\ UNCHANGED <<scope, claim, mapping, task, timer, fresh, older, proc, meant, rushed, excused>>
      /\ used' \in Budgets /\ used'.lags >= used.lags
  BY Spending, Unused
  DEF IndexLags, IndexCatchesUp, ChangeAccess, settings, marks, history
<1>2. /\ hooks' \in [1..scope.hooks -> Delivery]
      /\ \A d \in 1..scope.hooks :
           hooks'[d] = hooks[d] \/ (hooks'[d].event # "issues" /\ ChangeAccess)
  <2>1. CASE hooks' = hooks
    BY <2>1 DEF Typed
  <2>2. CASE hooks' # hooks
    <3>1. PICK event \in {"installation_repositories", "installation"} : Announce(event, 0, FALSE)
      BY <2>2 DEF IndexLags, IndexCatchesUp, ChangeAccess
    <3>2. ChangeAccess
      BY <2>2 DEF IndexLags, IndexCatchesUp
    <3>3. Announcement(event, 0, FALSE).event # "issues"
      BY DEF Announcement
    <3>4. QED  BY <3>1, <3>2, <3>3, Announcing
  <2>3. QED  BY <2>1, <2>2
<1>3. /\ issue' \in Issue /\ issue'.there = issue.there /\ issue'.open = issue.open
      /\ issue'.version = issue.version
      /\ issue'.hidden => \/ issue.hidden
                          \/ provider = "jira" /\ issue.there /\ used.lags = 0 /\ used'.lags > 0
  <2>1. CASE IndexLags
    BY <2>1, Spending DEF IndexLags, Typed, Issue
  <2>2. CASE IndexCatchesUp
    BY <2>2 DEF IndexCatchesUp, Typed, Issue
  <2>3. CASE ChangeAccess
    BY <2>3 DEF ChangeAccess, Typed
  <2>4. QED  BY <2>1, <2>2, <2>3
<1>4. access' \in BOOLEAN
  BY DEF IndexLags, IndexCatchesUp, ChangeAccess, Typed
<1>5. (Mapped' <=> Mapped) /\ (Imported' <=> Imported)
  BY <1>1 DEF Mapped, Imported
<1>6. Typed'
  BY <1>1, <1>2, <1>3, <1>4, <1>5 DEF Typed
<1>7. Onward
  BY <1>1, <1>2, <1>3, <1>5 DEF Onward, World, Stored
<1>8. QED  BY <1>1, <1>5, <1>6, <1>7, IdleKeepsInv


-----------------------------------------------------------------------------
(***************************************************************************)
(* Observing the issue.                                                    *)
(***************************************************************************)

\* What an observation may do beside the task.
Beside ==
  /\ UNCHANGED <<scope, access, issue, mapping, rushed>>
  /\ used' \in Budgets /\ used'.lags >= used.lags /\ claim' \in [owner : Claims, lapsed : BOOLEAN]
  /\ excused \subseteq excused'
  /\ proc' \in [Workers -> Pass]
  /\ \A w \in Workers :
       /\ proc'[w].pc = "decide" => proc'[w].project \in Projects
       /\ proc'[w].pc \in {"renew", "apply"} => proc'[w] = proc[w]
       /\ proc'[w].pc = "archive" =>
            /\ proc[w].pc # "idle"
            /\ proc'[w] = proc[w] \/ proc'[w].seen \/ (~Applies /\ (~Mapped \/ Cut'))
  /\ hooks' \in [1..scope.hooks -> Delivery]
  /\ \A d \in 1..scope.hooks :
       hooks'[d].state # "none" /\ hooks'[d].event = "issues" =>
         /\ hooks[d].state # "none" /\ hooks[d].event = "issues"
         /\ hooks'[d].version = hooks[d].version /\ hooks'[d].open = hooks[d].open

LEMMA ObservingKeepsInv ==
  ASSUME SyncInv, NEW got \in Got, Sound(got), NEW missing \in BOOLEAN, ~missing, NEW after,
         Observe(got, missing, after), Beside
  PROVE  SyncInv'
<1> USE DEF SyncInv
<1>1. /\ meant \in BOOLEAN /\ used.lags \in Nat /\ issue.version \in Nat /\ task.version \in Nat
      /\ got.version \in Nat /\ got.open \in BOOLEAN /\ issue.open \in BOOLEAN
  BY DEF Typed, Budgets, Issue, TaskRow, Got
<1>2. Mapped' <=> Mapped
  BY DEF Beside, Mapped
<1>3. CASE ~Applies \/ StaleIssue(got)
  <2>1. UNCHANGED <<task, timer, fresh, older, meant>>
    BY <1>3 DEF Observe
  <2>2. Imported' <=> Imported
    BY <2>1 DEF Imported
  <2>3. Typed'
    BY <1>2, <2>1 DEF Beside, Typed
  <2>4. ~Mapped => Cut'
    BY <2>1 DEF World, Cut
  <2>5. Onward
    BY <1>2, <2>1, <2>2, <2>4 DEF Beside, Onward, World, Stored
  <2>6. QED  BY <1>2, <2>1, <2>3, <2>5, IdleKeepsInv DEF Beside
<1>4. CASE Applies /\ ~StaleIssue(got)
  <2>1. /\ task' = [status |-> Status(got), version |-> got.version,
                    project |-> mapping.project, readonly |-> TRUE, missing |-> missing]
        /\ IF Imported /\ ~got.open THEN CloseTaskSessions ELSE UNCHANGED timer
        /\ fresh' = Running
        /\ meant' = (meant /\ ~(issue.there /\ got = Current /\ got.open))
    BY <1>4 DEF Observe
  <2>2. task.version <= got.version /\ got.version \in 1 .. issue.version /\ Mapped
    BY <1>1, <1>4 DEF StaleIssue, Sound, Applies
  <2>3. /\ task'.status = Status(got) /\ task'.version = got.version
        /\ task'.project = mapping.project /\ ~task'.missing
        /\ Status(got) \in {"active", "archived"}
    BY <2>1 DEF Status
  <2>4. Typed'
    <3>1. mapping.project \in Projects \cup {NoProject} /\ TRUE \in BOOLEAN
      BY DEF Typed, MappingRow
    <3>2. task' \in TaskRow
      BY <1>1, <2>1, <2>3, <3>1 DEF TaskRow
    <3>3. timer' \in TimerRow
      BY <2>1, ClosedTimer DEF Typed
    <3>4. meant' \in BOOLEAN
      BY <2>1
    <3>5. QED  BY <1>2, <3>2, <3>3, <3>4 DEF Beside, Typed
  <2>5. Imported'
    BY <1>1, <2>2, <2>3 DEF Imported, NoTask
  <2>6. ~meant' => ~meant \/ (issue.there /\ issue.open /\ got.version = issue.version)
    <3>1. ASSUME ~meant', meant  PROVE issue.there /\ got = Current /\ got.open
      BY <2>1, <3>1
    <3>2. got = Current /\ got.open => issue.open /\ got.version = issue.version
      BY DEF Current
    <3>3. QED  BY <3>1, <3>2
  <2>7. \A g \in Got : Sound(g) => Sound(g)'
    <3>1. SUFFICES ASSUME NEW g \in Got, Sound(g)  PROVE Sound(g)'
      OBVIOUS
    <3>2. g.version \in Nat
      BY DEF Got
    <3>3. ASSUME ~g.open  PROVE meant' \/ g.version < task'.version
      BY <1>1, <2>2, <2>3, <2>6, <3>1, <3>2, <3>3 DEF Sound
    <3>4. QED  BY <3>1, <3>3 DEF Sound, Beside
  <2>8. World'
    <3>1. /\ issue.there => issue.version > 0
          /\ issue.hidden => provider = "jira" /\ issue.there /\ used'.lags > 0
      BY <1>1 DEF World, Beside, Typed, Budgets
    <3>2. meant' \/ (issue.there /\ issue.open) \/ issue.version = 0
      BY <2>6 DEF World
    <3>3. Mapped'
      BY <1>2, <2>2
    <3>4. issue' = issue /\ provider' = provider
      BY DEF Beside, provider
    <3>5. QED  BY <3>1, <3>2, <3>3, <3>4 DEF World
  <2>9. Stored'
    BY <2>2, <2>3 DEF Stored, Beside
  <2>10. ASSUME NEW w \in Workers  PROVE Listed(w)' /\ Missed(w)'
    <3>1. Listed(w) /\ proc[w].got \in Got
      BY DEF Passes, Typed, Pass
    <3>2. proc'[w].pc = "archive" => w \in fresh'
      BY <2>1 DEF Beside, Running
    <3>3. QED  BY <2>7, <3>1, <3>2 DEF Listed, Missed, Beside
  <2>11. ASSUME NEW d \in 1..scope'.hooks  PROVE Announced(d)'
    <3>1. d \in 1..scope.hooks
      BY <2>11 DEF Beside
    <3>2. /\ Announced(d)
          /\ [version |-> hooks[d].version, open |-> hooks[d].open] \in Got
      BY <3>1 DEF Deliveries, Typed, Delivery, Got
    <3>3. QED  BY <2>7, <3>1, <3>2 DEF Announced, Beside
  <2>12. OpenIssuesStay'
    <3>1. ASSUME task'.status = "archived"  PROVE meant'
      <4>1. ~got.open
        BY <2>3, <3>1 DEF Status
      <4>2. meant
        BY <1>1, <2>2, <4>1 DEF Sound
      <4>3. QED  BY <2>1, <4>1, <4>2
    <3>2. QED  BY <3>1 DEF OpenIssuesStay
  <2>13. InTime' => timer' = timer /\ InTime /\ got.open
    <3>1. CASE Imported /\ ~got.open
      BY <2>1, <3>1, ClosedTimer
    <3>2. CASE ~(Imported /\ ~got.open)
      BY <2>1, <3>2, InTimeFollows DEF InTime
    <3>3. QED  BY <3>1, <3>2
  <2>14. Placed' /\ TimersStopWithTheTask'
    <3>1. InTime' => mapping.project = timer'.project \/ "adopted" \in excused'
      BY <2>2, <2>13 DEF Placed, Beside
    <3>2. got.open => task'.status = "active"
      BY <2>3 DEF Status
    <3>3. QED  BY <2>3, <2>13, <3>1, <3>2 DEF Placed, TimersStopWithTheTask, Beside, InTime
  <2>15. QED
    BY <2>4, <2>8, <2>9, <2>10, <2>11, <2>12, <2>14 DEF Passes, Deliveries
<1>5. QED  BY <1>3, <1>4


LEMMA Unannounced ==
  ASSUME Typed, UNCHANGED hooks
  PROVE  /\ hooks' \in [1..scope.hooks -> Delivery]
         /\ \A d \in 1..scope.hooks :
              hooks'[d].state # "none" /\ hooks'[d].event = "issues" =>
                /\ hooks[d].state # "none" /\ hooks[d].event = "issues"
                /\ hooks'[d].version = hooks[d].version /\ hooks'[d].open = hooks[d].open
BY DEF Typed

LEMMA ApplyKeepsInv ==
  ASSUME SyncInv, NEW w \in Workers, Apply(w)
  PROVE  SyncInv'
<1> USE DEF SyncInv
<1>1. /\ proc[w].pc = "apply"
      /\ UNCHANGED <<scope, access, issue, claim, mapping, hooks, rushed, used>>
  BY DEF Apply, world, settings
<1>2. PICK got \in Got : got = proc[w].got
  BY DEF Typed, Pass
<1>3. Sound(got)
  BY <1>1, <1>2 DEF Passes, Listed
<1>4. PICK missing \in BOOLEAN : ~missing /\ \E after : Observe(got, missing, after)
  BY <1>2 DEF Apply, apply_jira_issue, apply_asana_task, apply_github_issue, Stored, Typed, TaskRow
<1>5. PICK seen \in BOOLEAN : seen = (provider = "jira" \/ Applies)
  OBVIOUS
<1>6. PICK c \in Pass :
        /\ proc' = [proc EXCEPT ![w] = c] /\ c.pc \in {"archive", "mark"}
        /\ c.pc = "archive" => (c.seen <=> (provider = "jira" \/ Applies))
  <2>1. CASE proc[w].full
    <3>1. PICK c : c = [proc[w] EXCEPT !.pc = "archive", !.got = NoIssue, !.seen = seen]
      OBVIOUS
    <3>2. c \in Pass /\ c.pc = "archive" /\ c.seen = seen
      BY <3>1, Constants DEF Typed, Pass
    <3>3. proc' = [proc EXCEPT ![w] = c]
      BY <1>5, <2>1, <3>1 DEF Apply
    <3>4. QED  BY <1>5, <3>2, <3>3
  <2>2. CASE ~proc[w].full
    <3>1. PICK c : c = [proc[w] EXCEPT !.pc = "mark", !.got = NoIssue]
      OBVIOUS
    <3>2. c \in Pass /\ c.pc = "mark"
      BY <3>1, Constants DEF Typed, Pass
    <3>3. proc' = [proc EXCEPT ![w] = c]
      BY <2>2, <3>1 DEF Apply
    <3>4. QED  BY <3>2, <3>3
  <2>3. QED  BY <2>1, <2>2
<1>7. /\ proc' \in [Workers -> Pass] /\ proc'[w] = c
      /\ \A v \in Workers : v # w => proc'[v] = proc[v]
  BY <1>6 DEF Typed
<1>8. /\ excused \subseteq excused'
      /\ provider # "jira" /\ Mapped /\ ~link => "cut" \in excused'
  BY DEF Apply
<1>9. c.pc = "archive" => c.seen \/ (~Applies /\ (~Mapped \/ Cut'))
  BY <1>6, <1>8 DEF Applies, Cut
<1>10. claim' \in [owner : Claims, lapsed : BOOLEAN] /\ used' \in Budgets /\ used'.lags >= used.lags
  BY <1>1, SameClaim, Unused
<1>11. \A v \in Workers :
         /\ proc'[v].pc = "decide" => proc'[v].project \in Projects
         /\ proc'[v].pc \in {"renew", "apply"} => proc'[v] = proc[v]
         /\ proc'[v].pc = "archive" =>
              /\ proc[v].pc # "idle"
              /\ proc'[v] = proc[v] \/ proc'[v].seen \/ (~Applies /\ (~Mapped \/ Cut'))
  BY <1>1, <1>6, <1>7, <1>9 DEF Typed
<1>12. Beside
  BY <1>1, <1>7, <1>8, <1>10, <1>11, Unannounced DEF Beside
<1>13. QED  BY <1>3, <1>4, <1>12, ObservingKeepsInv

\* A delivery moves on; what it says stays.
LEMMA DeliveryMoves ==
  ASSUME Typed, NEW d \in DOMAIN hooks, hooks[d].state # "none",
         NEW state \in {"received", "applied", "stuck", "failed", "done"},
         hooks' = [hooks EXCEPT ![d].state = state]
  PROVE  /\ hooks' \in [1..scope.hooks -> Delivery]
         /\ \A e \in 1..scope.hooks :
              hooks'[e].state # "none" /\ hooks'[e].event = "issues" =>
                /\ hooks[e].state # "none" /\ hooks[e].event = "issues"
                /\ hooks'[e].version = hooks[e].version /\ hooks'[e].open = hooks[e].open
BY DEF Typed, Delivery

LEMMA DeliveriesKeepInv ==
  ASSUME SyncInv, NEW d \in DOMAIN hooks,
         begin_integration_webhook(d) \/ finish_integration_webhook(d) \/ WebhookFails(d)
  PROVE  SyncInv'
<1> USE DEF SyncInv
<1>1. /\ UNCHANGED <<scope, access, issue, claim, mapping, task, timer, fresh, older, proc, meant,
                     rushed, excused>>
      /\ used' \in Budgets /\ used'.lags >= used.lags
  BY Spending, Unused
  DEF begin_integration_webhook, finish_integration_webhook, WebhookFails, world, settings, marks,
      history
<1>2. /\ hooks[d].state # "none"
      /\ \E state \in {"received", "applied", "stuck", "failed", "done"} :
           hooks' = [hooks EXCEPT ![d].state = state]
  BY DEF begin_integration_webhook, finish_integration_webhook, WebhookFails
<1>3. /\ hooks' \in [1..scope.hooks -> Delivery]
      /\ \A e \in 1..scope.hooks :
           hooks'[e].state # "none" /\ hooks'[e].event = "issues" =>
             /\ hooks[e].state # "none" /\ hooks[e].event = "issues"
             /\ hooks'[e].version = hooks[e].version /\ hooks'[e].open = hooks[e].open
  BY <1>2, DeliveryMoves
<1>4. (Mapped' <=> Mapped) /\ (Imported' <=> Imported)
  BY <1>1 DEF Mapped, Imported
<1>5. Typed'
  BY <1>1, <1>3, <1>4 DEF Typed
<1>6. Onward
  BY <1>1, <1>3, <1>4 DEF Onward, World, Stored
<1>7. QED  BY <1>1, <1>4, <1>5, <1>6, IdleKeepsInv

LEMMA HandlingKeepsInv ==
  ASSUME SyncInv, NEW d \in DOMAIN hooks, HandleWebhook(d)
  PROVE  SyncInv'
<1> USE DEF SyncInv
<1>1. /\ hooks[d].state # "none" /\ hooks' = [hooks EXCEPT ![d].state = "applied"]
      /\ UNCHANGED <<proc, used>>
  BY DEF HandleWebhook
<1>2. /\ hooks' \in [1..scope.hooks -> Delivery]
      /\ \A e \in 1..scope.hooks :
           hooks'[e].state # "none" /\ hooks'[e].event = "issues" =>
             /\ hooks[e].state # "none" /\ hooks[e].event = "issues"
             /\ hooks'[e].version = hooks[e].version /\ hooks'[e].open = hooks[e].open
  BY <1>1, DeliveryMoves
<1>3. /\ used' \in Budgets /\ used'.lags >= used.lags /\ proc' \in [Workers -> Pass]
      /\ \A w \in Workers : proc'[w].pc = "decide" => proc'[w].project \in Projects
  BY <1>1, Unused DEF Typed
<1>4. CASE HandleIssue(d)
  <2>1. UNCHANGED <<scope, access, issue, claim, mapping, rushed, excused>>
    BY <1>4 DEF HandleIssue, world, settings
  <2>2. PICK got : got = [version |-> hooks[d].version, open |-> hooks[d].open]
    OBVIOUS
  <2>3. got \in Got
    BY <2>2 DEF Typed, Delivery, Got
  <2>4. Sound(got)
    BY <1>1, <1>4, <2>2 DEF HandleIssue, Deliveries, Announced, Typed
  <2>5. task.missing \in BOOLEAN /\ ~task.missing /\ Observe(got, task.missing, older)
    BY <1>4, <2>2 DEF HandleIssue, apply_github_issue, Stored, Typed, TaskRow
  <2>6. claim' \in [owner : Claims, lapsed : BOOLEAN]
    BY <2>1, SameClaim
  <2>7. Beside
    <3>1. \A w \in Workers : proc'[w] = proc[w]
      BY <1>1
    <3>2. QED  BY <1>2, <1>3, <2>1, <2>6, <3>1 DEF Beside
  <2>8. QED  BY <2>3, <2>4, <2>5, <2>7, ObservingKeepsInv
<1>5. CASE HandleRemoval(d)
  <2>1. UNCHANGED <<scope, access, issue, claim, fresh, older, rushed, excused>>
    BY <1>5 DEF HandleRemoval, world, settings, marks
  <2>2. CASE Unmap
    BY <1>1, <1>2, <1>3, <2>1, <2>2, UnmappingKeepsInv
  <2>3. CASE UNCHANGED <<mapping, task, timer, meant>>
    <3>1. (Mapped' <=> Mapped) /\ (Imported' <=> Imported)
      BY <2>3 DEF Mapped, Imported
    <3>2. Typed'
      BY <1>1, <1>2, <1>3, <2>1, <2>3, <3>1 DEF Typed
    <3>3. Onward
      BY <1>1, <1>2, <1>3, <2>1, <2>3, <3>1 DEF Onward, World, Stored
    <3>4. QED  BY <2>3, <3>1, <3>2, <3>3, IdleKeepsInv
  <2>4. QED  BY <1>5, <2>2, <2>3 DEF HandleRemoval, remove_github_project_mapping
<1>6. CASE HandleUninstall(d)
  BY <1>1, <1>2, <1>3, <1>6, LettingGoKeepsInv DEF HandleUninstall, disconnect_github_integration
<1>7. QED  BY <1>4, <1>5, <1>6 DEF HandleWebhook


-----------------------------------------------------------------------------
(***************************************************************************)
(* Archiving what a full listing left out.                                 *)
(***************************************************************************)

\* What archiving does to the task: nothing, or it was seen after all, or it is
\* archived, or missed for the first time.
LEMMA ArchivingOutcomes ==
  ASSUME SyncInv, NEW w \in Workers, Archive(w)
  PROVE  \/ UNCHANGED <<task, timer, older>>
         \/ /\ Imported /\ task' = [task EXCEPT !.missing = FALSE] /\ older' = {}
            /\ UNCHANGED timer
         \/ /\ Imported /\ task' = [task EXCEPT !.status = "archived"] /\ CloseTaskSessions
            /\ UNCHANGED older /\ ~proc[w].seen /\ w \notin fresh
            /\ provider = "jira" => task.missing /\ w \in older
         \/ /\ Imported /\ task' = [task EXCEPT !.missing = TRUE] /\ UNCHANGED timer
            /\ ~proc[w].seen /\ w \notin fresh /\ provider # "github"
<1>1. CASE archive_missing_github_issues(w)
  BY <1>1 DEF archive_missing_github_issues, Unobserved
<1>2. CASE Reconcile(w) /\ provider # "github"
  <2>1. CASE Imported /\ proc[w].seen /\ task' = [task EXCEPT !.missing = FALSE] /\ older' = {}
             /\ UNCHANGED timer
    BY <2>1
  <2>2. CASE /\ Imported /\ ~proc[w].seen /\ Unobserved(w) /\ MissedBefore(w)
             /\ task' = [task EXCEPT !.status = "archived"] /\ CloseTaskSessions
             /\ UNCHANGED older
    BY <2>2 DEF Unobserved, MissedBefore
  <2>3. CASE /\ Imported /\ ~proc[w].seen /\ Unobserved(w)
             /\ task' = [task EXCEPT !.missing = TRUE] /\ UNCHANGED timer
    BY <1>2, <2>3 DEF Unobserved
  <2>4. CASE UNCHANGED <<task, timer, older>>
    BY <2>4
  <2>5. QED  BY <1>2, <2>1, <2>2, <2>3, <2>4 DEF Reconcile
<1>3. QED
  BY <1>1, <1>2 DEF Archive, archive_missing_jira_issues, reconcile_asana_project_tasks

LEMMA ArchiveKeepsInv ==
  ASSUME SyncInv, NEW w \in Workers, Archive(w)
  PROVE  SyncInv'
<1> USE DEF SyncInv
<1>1. /\ proc[w].pc = "archive" /\ rushed' = TRUE
      /\ UNCHANGED <<scope, access, issue, claim, mapping, fresh, hooks, meant, used>>
      /\ excused \subseteq excused'
      /\ rushed /\ provider = "jira" /\ w \in older => "rushed" \in excused'
  BY DEF Archive, world, settings
<1>2. /\ proc' \in [Workers -> Pass] /\ proc'[w].pc = "mark"
      /\ \A v \in Workers : v # w => proc'[v] = proc[v]
  <2>1. proc' = [proc EXCEPT ![w].pc = "mark", ![w].seen = FALSE]
    BY DEF Archive
  <2>2. PICK c : c = [proc[w] EXCEPT !.pc = "mark", !.seen = FALSE]
    OBVIOUS
  <2>3. c \in Pass /\ c.pc = "mark"
    BY <2>2 DEF Typed, Pass
  <2>4. proc' = [proc EXCEPT ![w] = c]
    BY <2>1, <2>2 DEF Typed
  <2>5. QED  BY <2>3, <2>4 DEF Typed
<1>3. /\ Imported /\ ~proc[w].seen /\ w \notin fresh
           => \/ Cut
              \/ provider = "jira" /\ used.lags > 0 /\ (task.missing /\ w \in older => rushed)
      /\ Cut => Cut'
  BY <1>1 DEF Passes, Missed, Cut
<1>4. /\ task' \in TaskRow /\ (Imported' <=> Imported) /\ task'.version = task.version
      /\ task'.project = task.project
      /\ Imported => task'.status # "none"
      /\ \/ task'.status = task.status /\ timer' = timer
         \/ /\ timer' \in TimerRow /\ ~InTime' /\ task'.status = "archived"
            /\ meant \/ excused' \cap {"cut", "rushed"} # {}
      /\ \/ task'.missing => task.missing
         \/ provider # "github" /\ (Cut' \/ (provider = "jira" /\ used.lags > 0))
  <2>1. CASE UNCHANGED <<task, timer, older>>
    BY <2>1 DEF Typed, Stored, Imported
  <2>2. CASE Imported /\ task' = [task EXCEPT !.missing = FALSE] /\ UNCHANGED timer
    <3>1. task' \in TaskRow /\ task'.version = task.version /\ task'.version # 0
          /\ task'.project = task.project /\ task'.status = task.status /\ ~task'.missing
      <4>1. task \in TaskRow /\ task.version # 0
        BY <2>2 DEF Typed, Stored
      <4>2. QED  BY <2>2, <4>1 DEF TaskRow
    <3>2. QED  BY <2>2, <3>1 DEF Stored, Imported, NoTask
  <2>3. CASE /\ Imported /\ task' = [task EXCEPT !.status = "archived"] /\ CloseTaskSessions
             /\ ~proc[w].seen /\ w \notin fresh
             /\ provider = "jira" => task.missing /\ w \in older
    <3>1. task' \in TaskRow /\ task' # NoTask /\ task'.version = task.version
          /\ task'.project = task.project /\ task'.status = "archived"
          /\ task'.missing = task.missing
      BY <2>3, TaskRows
    <3>2. Cut \/ "rushed" \in excused'
      BY <1>1, <1>3, <2>3
    <3>3. meant \/ excused' \cap {"cut", "rushed"} # {}
      BY <1>1, <3>2 DEF Cut
    <3>4. QED  BY <2>3, <3>1, <3>3, ClosedTimer DEF Imported
  <2>4. CASE /\ Imported /\ task' = [task EXCEPT !.missing = TRUE] /\ UNCHANGED timer
             /\ ~proc[w].seen /\ w \notin fresh /\ provider # "github"
    <3>1. task' \in TaskRow /\ task'.version = task.version /\ task'.version # 0
          /\ task'.project = task.project /\ task'.status = task.status
      <4>1. task \in TaskRow /\ task.version # 0
        BY <2>4 DEF Typed, Stored
      <4>2. QED  BY <2>4, <4>1 DEF TaskRow
    <3>2. Cut' \/ (provider = "jira" /\ used.lags > 0)
      BY <1>3, <2>4
    <3>3. QED  BY <2>4, <3>1, <3>2 DEF Stored, Imported, NoTask
  <2>5. QED  BY <2>1, <2>2, <2>3, <2>4, ArchivingOutcomes
<1>5. provider' = provider /\ (Mapped' <=> Mapped)
  BY <1>1 DEF provider, Mapped
<1>6. Typed'
  <2>1. \A v \in Workers : proc'[v].pc = "decide" => proc'[v].project \in Projects
    BY <1>2 DEF Typed
  <2>2. timer' \in TimerRow /\ rushed' \in BOOLEAN
    BY <1>1, <1>4 DEF Typed
  <2>3. QED  BY <1>1, <1>2, <1>4, <1>5, <2>1, <2>2 DEF Typed
<1>7. World'
  BY <1>1, <1>5 DEF World
<1>8. Stored'
  <2>1. task'.missing => Cut' \/ (provider = "jira" /\ used.lags > 0)
    BY <1>3, <1>4 DEF Stored
  <2>2. provider = "github" => ~task'.missing
    BY <1>4 DEF Stored
  <2>3. QED  BY <1>1, <1>4, <1>5, <2>1, <2>2 DEF Stored
<1>9. \A got : Sound(got) => Sound(got)'
  BY <1>1, <1>4 DEF Sound
<1>10. ASSUME NEW v \in Workers  PROVE Listed(v)' /\ Missed(v)'
  <2>1. Listed(v) /\ Missed(v)
    BY DEF Passes
  <2>2. CASE v = w
    BY <1>2, <2>2 DEF Listed, Missed
  <2>3. CASE v # w
    BY <1>1, <1>2, <1>3, <1>4, <1>5, <1>9, <2>1, <2>3 DEF Listed, Missed
  <2>4. QED  BY <2>2, <2>3
<1>11. Deliveries'
  BY <1>1, <1>9 DEF Deliveries, Announced
<1>12. OpenIssuesStay'
  BY <1>1, <1>4 DEF OpenIssuesStay
<1>13. Placed' /\ TimersStopWithTheTask'
  <2>1. CASE timer' = timer /\ task'.status = task.status
    BY <1>1, <1>4, <1>5, <2>1 DEF Placed, TimersStopWithTheTask, InTime
  <2>2. CASE ~InTime'
    BY <1>1, <1>4, <1>5, <2>2, NobodyInTime DEF Placed
  <2>3. QED  BY <1>4, <2>1, <2>2
<1>14. QED
  BY <1>6, <1>7, <1>8, <1>10, <1>11, <1>12, <1>13 DEF Passes


-----------------------------------------------------------------------------
(***************************************************************************)
(* The issue changes.                                                      *)
(***************************************************************************)
LEMMA LateKeepsInv ==
  ASSUME Typed, proc' = [w \in Workers |-> IF proc[w].pc = "idle" THEN Idle
                                           ELSE [proc[w] EXCEPT !.late = TRUE]]
  PROVE  /\ proc' \in [Workers -> Pass]
         /\ \A w \in Workers : /\ proc'[w].pc = proc[w].pc
                               /\ proc'[w].pc # "idle" => /\ proc'[w].got = proc[w].got
                                                          /\ proc'[w].seen = proc[w].seen
                                                          /\ proc'[w].project = proc[w].project
<1>1. ASSUME NEW w \in Workers
      PROVE  /\ proc'[w] \in Pass /\ proc'[w].pc = proc[w].pc
             /\ proc'[w].pc # "idle" => /\ proc'[w].got = proc[w].got
                                        /\ proc'[w].seen = proc[w].seen
                                        /\ proc'[w].project = proc[w].project
  <2>1. CASE proc[w].pc = "idle"
    <3>1. proc'[w] = Idle
      BY <2>1
    <3>2. Idle.pc = "idle"
      BY DEF Idle
    <3>3. QED  BY <2>1, <3>1, <3>2, Constants
  <2>2. CASE proc[w].pc # "idle"
    <3>1. proc'[w] = [proc[w] EXCEPT !.late = TRUE]
      BY <2>2
    <3>2. PICK old \in Pass : old = proc[w]
      BY DEF Typed
    <3>3. proc'[w] = [old EXCEPT !.late = TRUE]
      BY <3>1, <3>2
    <3>4. /\ proc'[w] \in Pass /\ proc'[w].pc = old.pc /\ proc'[w].got = old.got
          /\ proc'[w].seen = old.seen /\ proc'[w].project = old.project
      BY <3>3 DEF Pass
    <3>5. QED  BY <3>2, <3>4
  <2>3. QED  BY <2>1, <2>2
<1>2. QED  BY <1>1

LEMMA IssueChangesKeepInv ==
  ASSUME SyncInv, EditIssue \/ LeaveProject
  PROVE  SyncInv'
<1> USE DEF SyncInv
<1>1. /\ UNCHANGED <<scope, access, claim, task, timer, fresh, older, rushed, excused>>
      /\ used' \in Budgets /\ used'.lags = used.lags /\ used.lags \in Nat
  <2>1. Spend("edits")
    BY DEF EditIssue, LeaveProject
  <2>2. used' \in Budgets /\ used'.lags = used.lags /\ used.lags \in Nat
    BY <2>1 DEF Spend, Typed, Budgets
  <2>3. UNCHANGED <<scope, access, claim, task, timer, fresh, older, rushed, excused>>
    BY DEF EditIssue, LeaveProject, settings, marks
  <2>4. QED  BY <2>2, <2>3
<1>2. /\ issue.version \in Nat /\ issue' \in Issue /\ meant' \in BOOLEAN /\ (meant => meant')
      /\ issue'.hidden => issue.hidden /\ issue'.there
      /\ issue'.version > 0
      /\ \/ EditIssue /\ issue'.version = issue.version + 1 /\ issue'.there
            /\ (meant' \/ issue'.open)
         \/ LeaveProject /\ issue'.version = issue.version /\ ~issue'.there /\ meant'
  <2>1. CASE EditIssue
    <3>1. PICK open \in BOOLEAN :
            /\ issue' = [issue EXCEPT !.there = TRUE, !.open = open, !.version = issue.version + 1]
            /\ meant' = (meant \/ ~open)
      BY <2>1 DEF EditIssue, Typed, Issue
    <3>2. /\ issue' \in Issue /\ issue'.there /\ issue'.open = open
          /\ issue'.version = issue.version + 1 /\ issue'.hidden = issue.hidden
          /\ issue.version \in Nat
      <4>1. issue \in Issue /\ issue.version \in Nat /\ issue.version + 1 \in Nat
        BY DEF Typed, Issue
      <4>2. QED  BY <3>1, <4>1 DEF Issue
    <3>3. meant' \in BOOLEAN /\ (meant => meant') /\ (meant' \/ open)
      BY <3>1
    <3>4. QED  BY <2>1, <3>2, <3>3
  <2>2. CASE LeaveProject
    <3>1. /\ issue.there /\ meant' = TRUE
          /\ issue' = [issue EXCEPT !.there = FALSE, !.hidden = FALSE]
      BY <2>2 DEF LeaveProject
    <3>2. /\ issue' \in Issue /\ ~issue'.there /\ ~issue'.hidden
          /\ issue'.version = issue.version /\ issue.version \in Nat
      BY <3>1 DEF Typed, Issue
    <3>3. QED  BY <2>2, <3>1, <3>2 DEF World
  <2>3. QED  BY <2>1, <2>2
<1>3. mapping' \in MappingRow /\ mapping'.project = mapping.project /\ (Mapped' <=> Mapped)
  <2>1. \/ mapping' = mapping
        \/ Mapped /\ mapping' = [mapping EXCEPT !.behind = TRUE]
    BY DEF EditIssue, LeaveProject
  <2>2. Nobody \in Claims
    BY DEF Claims
  <2>3. QED  BY <2>1, <2>2, SameRow, MarkedRow
<1>4. /\ proc' \in [Workers -> Pass]
      /\ \A w \in Workers : /\ proc'[w].pc = proc[w].pc
                            /\ proc'[w].pc # "idle" => /\ proc'[w].got = proc[w].got
                                                       /\ proc'[w].seen = proc[w].seen
                                                       /\ proc'[w].project = proc[w].project
  <2>1. CASE EditIssue
    BY <2>1, LateKeepsInv DEF EditIssue
  <2>2. CASE LeaveProject
    BY <2>2 DEF LeaveProject, Typed
  <2>3. QED  BY <2>1, <2>2
<1>5. PICK open \in BOOLEAN :
        /\ Announce("issues", issue'.version, open)
        /\ ~open => meant' /\ ~(issue'.there /\ issue'.open)
  <2>1. CASE EditIssue
    <3>1. PICK o \in BOOLEAN : issue'.open = o /\ meant' = (meant \/ ~o)
      BY <2>1 DEF EditIssue, Typed, Issue
    <3>2. Announce("issues", issue'.version, issue'.open)
      BY <2>1 DEF EditIssue
    <3>3. QED  BY <3>1, <3>2
  <2>2. CASE LeaveProject
    <3>1. PICK o \in {FALSE, issue.open} : Announce("issues", issue.version, o)
      BY <2>2 DEF LeaveProject
    <3>2. o \in BOOLEAN
      BY DEF Typed, Issue
    <3>3. issue'.version = issue.version /\ meant' /\ ~issue'.there
      BY <2>2 DEF LeaveProject, Typed, Issue
    <3>4. QED  BY <3>1, <3>2, <3>3
  <2>3. QED  BY <2>1, <2>2
<1>6. /\ hooks' \in [1..scope.hooks -> Delivery]
      /\ \A d \in 1..scope.hooks :
           hooks'[d] = hooks[d] \/ hooks'[d] = Announcement("issues", issue'.version, open)
  <2>1. PICK version \in Nat : version = issue'.version
    BY <1>2 DEF Issue
  <2>2. Announce("issues", version, open)
    BY <1>5, <2>1
  <2>3. QED  BY <2>1, <2>2, Announcing
<1>7. provider' = provider /\ (Imported' <=> Imported) /\ (Cut => Cut')
  BY <1>1, <1>2 DEF provider, Imported, Cut
<1>8. access' \in BOOLEAN /\ Typed'
  <2>1. \A w \in Workers : proc'[w].pc = "decide" => proc'[w].project \in Projects
    BY <1>4 DEF Typed
  <2>2. QED  BY <1>1, <1>2, <1>3, <1>4, <1>6, <2>1 DEF Typed
<1>9. World'
  BY <1>1, <1>2, <1>3, <1>7 DEF World
<1>10. Stored'
  <2>1. task'.missing =>
          Cut' \/ (provider = "jira" /\ used.lags > 0 /\ (rushed \/ ~issue'.hidden))
    BY <1>1, <1>2, <1>7 DEF Stored
  <2>2. Imported => task.version \in 1 .. issue'.version
    BY <1>2 DEF Stored, Typed, TaskRow
  <2>3. QED  BY <1>1, <1>7, <2>1, <2>2 DEF Stored
<1>11. \A g \in Got : Sound(g) => Sound(g)'
  BY <1>1, <1>2 DEF Sound, Got
<1>12. ASSUME NEW w \in Workers  PROVE Listed(w)' /\ Missed(w)'
  <2>1. Listed(w) /\ Missed(w) /\ proc[w].got \in Got
    BY DEF Passes, Typed, Pass
  <2>2. Listed(w)'
    BY <1>4, <1>11, <2>1 DEF Listed
  <2>3. Missed(w)'
    BY <1>1, <1>4, <1>7, <2>1 DEF Missed
  <2>4. QED  BY <2>2, <2>3
<1>13. ASSUME NEW d \in 1..scope'.hooks  PROVE Announced(d)'
  <2>1. d \in 1..scope.hooks
    BY <1>1
  <2>2. CASE hooks'[d] = hooks[d]
    <3>1. /\ Announced(d)
          /\ [version |-> hooks[d].version, open |-> hooks[d].open] \in Got
      BY <2>1 DEF Deliveries, Typed, Delivery, Got
    <3>2. QED  BY <1>11, <2>2, <3>1 DEF Announced
  <2>3. CASE hooks'[d] = Announcement("issues", issue'.version, open)
    <3>1. hooks'[d].version = issue'.version /\ hooks'[d].open = open
      BY <2>3 DEF Announcement
    <3>2. issue'.version \in 1 .. issue'.version
      BY <1>2
    <3>3. QED  BY <1>5, <3>1, <3>2 DEF Announced, Sound
  <2>4. QED  BY <1>6, <2>1, <2>2, <2>3
<1>14. OpenIssuesStay' /\ Placed' /\ TimersStopWithTheTask'
  BY <1>1, <1>2, <1>3, <1>7 DEF OpenIssuesStay, Placed, TimersStopWithTheTask, InTime
<1>15. QED
  BY <1>8, <1>9, <1>10, <1>12, <1>13, <1>14 DEF Passes, Deliveries


-----------------------------------------------------------------------------
LEMMA InitIsSound == Init => SyncInv
<1> SUFFICES ASSUME Init  PROVE SyncInv
  OBVIOUS
<1>1. PICK there \in BOOLEAN :
        issue = [there |-> there, open |-> there, version |-> IF there THEN 1 ELSE 0,
                 hidden |-> FALSE]
  BY DEF Init
<1>2. PICK p \in Projects :
        mapping = [NoMapping EXCEPT !.project = p, !.full = TRUE, !.behind = TRUE]
  BY DEF Init
<1>3. /\ issue \in Issue /\ ~issue.hidden /\ (issue.there => issue.version = 1)
      /\ (issue.there /\ issue.open) \/ issue.version = 0
  BY <1>1 DEF Issue
<1>4. mapping \in MappingRow /\ mapping.project = p /\ p # NoProject
  BY <1>2, Constants, ProjectsAssumption DEF NoMapping, MappingRow, Claims
<1>5. Mapped
  BY <1>4 DEF Mapped, NoMapping
<1>6. /\ proc \in [Workers -> Pass] /\ \A w \in Workers : proc[w].pc = "idle"
  BY Constants DEF Init, Idle
<1>7. /\ hooks \in [1..scope.hooks -> Delivery]
      /\ \A d \in 1..scope.hooks : hooks[d].state = "none"
  BY DEF Init, Delivery
<1>8. /\ scope \in Scopes /\ access \in BOOLEAN /\ claim = Unclaimed /\ task = NoTask
      /\ timer = NoTimer /\ used \in Budgets /\ meant = FALSE /\ rushed = FALSE
  BY DEF Init, Budgets
<1>9. Typed
  BY <1>3, <1>4, <1>6, <1>7, <1>8, Constants DEF Typed, NoTimer, TimerRow
<1>10. ~Imported /\ ~task.missing /\ task.status = "none"
  BY <1>8 DEF Imported, NoTask
<1>11. Placed /\ TimersStopWithTheTask /\ OpenIssuesStay
  BY <1>8, <1>10 DEF Placed, TimersStopWithTheTask, OpenIssuesStay, InTime, NoTimer
<1>12. World /\ Stored
  BY <1>3, <1>5, <1>10 DEF World, Stored
<1>13. Passes /\ Deliveries
  BY <1>6, <1>7 DEF Passes, Listed, Missed, Deliveries, Announced
<1>14. QED  BY <1>9, <1>11, <1>12, <1>13 DEF SyncInv

LEMMA StepsKeepInv == SyncInv /\ [Next]_vars => SyncInv'
<1> SUFFICES ASSUME SyncInv, [Next]_vars  PROVE SyncInv'
  OBVIOUS
<1>1. CASE UNCHANGED vars
  <2>1. (Mapped' <=> Mapped) /\ (Imported' <=> Imported)
    BY <1>1 DEF vars, Mapped, Imported
  <2>2. Typed'
    BY <1>1, <2>1 DEF vars, SyncInv, Typed
  <2>3. Onward
    BY <1>1, <2>1, Unused DEF vars, Onward, SyncInv, World, Stored
  <2>4. QED  BY <1>1, <2>1, <2>2, <2>3, IdleKeepsInv DEF vars
<1>2. ASSUME NEW w \in Workers, Step(w)  PROVE SyncInv'
  BY <1>2, RemoveUnlistedKeepsInv, KeepListedKeepsInv, ApplyKeepsInv, ArchiveKeepsInv,
     QuietPassesKeepInv
  DEF Step, MappingSteps, QuietPass
<1>3. ASSUME NEW w \in Workers, \/ SyncDue(w) \/ Crash(w) \/ CallFails(w)
                                \/ sync_jira_integration(w) \/ sync_asana_integration(w)
                                \/ sync_github_integration(w)
      PROVE  SyncInv'
  BY <1>3, QuietPassesKeepInv DEF QuietPass
<1>4. ASSUME NEW d \in DOMAIN hooks, Hook(d) \/ WebhookFails(d)  PROVE SyncInv'
  BY <1>4, DeliveriesKeepInv, HandlingKeepsInv DEF Hook
<1>5. CASE EditIssue \/ LeaveProject
  BY <1>5, IssueChangesKeepInv
<1>6. CASE IndexLags \/ IndexCatchesUp \/ ChangeAccess
  BY <1>6, SurroundingsKeepInv
<1>7. CASE DayPasses \/ RestEnds \/ ClaimLapses \/ MappingClaimLapses \/ RenameRepository
  BY <1>7, TimeKeepsInv
<1>8. ASSUME NEW p \in Projects, MappingRoutes(p)  PROVE SyncInv'
  BY <1>8, MappingRoutesKeepInv
<1>9. CASE UnmappingRoutes
  BY <1>9, UnmappingRoutesKeepInv
<1>10. CASE Disconnects
  BY <1>10, DisconnectsKeepInv
<1>11. CASE jira_callback \/ select_asana_workspace \/ github_callback
  BY <1>11, ReconnectKeepsInv
<1>12. CASE set_task_status
  BY <1>12, TaskStatusKeepsInv
<1>13. CASE StartChecks \/ StartInserts
  BY <1>13, StartsKeepInv
<1>14. QED
  BY <1>1, <1>2, <1>3, <1>4, <1>5, <1>6, <1>7, <1>8, <1>9, <1>10, <1>11, <1>12, <1>13
  DEF Next, MappingRoutes, UnmappingRoutes, Disconnects

\* The invariant: the timer lies where its task does; nothing in circulation
\* closes an open issue; a pass that is about to archive has missed an issue
\* that is gone, or has an excuse.
THEOREM SyncInvHolds == Spec => []SyncInv
<1>1. Init => SyncInv
  BY InitIsSound
<1>2. SyncInv /\ [Next]_vars => SyncInv'
  BY StepsKeepInv
<1>3. QED  BY <1>1, <1>2, PTL DEF Spec

\* A task whose issue stays open in a mapped project is not archived: a listing
\* that left it out is overruled by what observed it since, and an index lag is
\* forgiven once (archive_missing_jira_issues, reconcile_asana_project_tasks,
\* archive_missing_github_issues, the three apply functions).
THEOREM OpenTasksStay == Spec => []OpenIssuesStay
<1>1. SyncInv => OpenIssuesStay
  BY DEF SyncInv
<1>2. QED  BY <1>1, SyncInvHolds, PTL

\* An open work session belongs to an active task and to that task's project, unless
\* the task was archived or moved between the check of its start and its insertion
\* (every statement that archives or moves a task closes the sessions it finds).
THEOREM TimersFollowTheTask == Spec => []TimersStopWithTheTask
<1>1. SyncInv => TimersStopWithTheTask
  BY DEF SyncInv
<1>2. QED  BY <1>1, SyncInvHolds, PTL

=============================================================================
