-------------------------- MODULE Outboxes_proofs --------------------------
(***************************************************************************)
(* Proofs about Outboxes, for any number of replicas, every bound and      *)
(* every mode: the exports keep to ExportLedger, a delivered row shows its *)
(* total at the provider, and nothing is sent twice.                       *)
(***************************************************************************)
EXTENDS Outboxes, TLAPS

(***************************************************************************)
(* Types.                                                                  *)
(***************************************************************************)
RowT == [state : {"none", "open", "sent", "discarded"}, want : Totals,
         have : Totals \cup {Never}, pid : Nat, claim : Workers \cup {Nobody},
         lapsed : BOOLEAN, wait : BOOLEAN, tries : Nat]
WorkerT == [pc : {"idle", "stage", "staging", "claim", "taking", "renew", "call", "mark", "fail"},
            item : Items, want : Totals, pid : Nat,
            call : {"none", "nothing", "delete", "find", "put", "update", "post", "mail"}]
Budgets == [changes : Nat, switches : Nat, faults : Nat, queued : Nat]
Leases == [owner : Workers \cup {Nobody}, lapsed : BOOLEAN]
Totalled == Totals \cup {Gone}

Typed ==
  /\ kind \in {"worklog", "comment", "message", "report"} /\ source \in Totals
  /\ entries \in Seq(Totalled) /\ rows \in [Items -> RowT] /\ proc \in [Workers -> WorkerT]
  /\ sends \in [Items -> Nat] /\ job \in Leases /\ used \in Budgets

-----------------------------------------------------------------------------
(***************************************************************************)
(* The inductive invariants: one of the job's lease, and one for each kind *)
(* of outbox.                                                              *)
(***************************************************************************)

\* The claim has been renewed, or will be before the call.
OnTheWay(w) == proc[w].pc \in {"renew", "call"}

\* A worker at an export works on the day's row, with a total that was staged
\* and an entry that was created.
Exports ==
  /\ rows[1].state \in {"none", "open"} /\ rows[1].pid <= Len(entries)
  /\ rows[1].state # "none" => rows[1].want \in asked
  /\ rows[1].state = "none" =>
       rows[1].pid = 0 /\ rows[1].have = Never /\ rows[1].claim = Nobody
  /\ \A w \in Workers : proc[w].pc # "taking"
  /\ \A w \in Workers : Working(w) =>
       /\ rows[1].state = "open" /\ proc[w].item = 1
       /\ proc[w].want \in asked /\ proc[w].pid <= Len(entries)
       /\ OnTheWay(w) =>
            /\ proc[w].call \in {"nothing", "delete", "find", "put", "update", "post"}
            /\ proc[w].call \in {"delete", "put", "update"} => proc[w].pid # 0

\* Nobody works without the claim unless it outlived it.
Exclusive ==
  "stall" \notin excused =>
    \A w \in Workers : Working(w) => rows[1].claim = w /\ ~rows[1].lapsed

\* The provider has one entry at most; a worker that is about to create one
\* has seen that there is none.
Single ==
  "stall" \notin excused =>
    /\ \A m, n \in Live : m = n
    /\ \A n \in Live : entries[n] \in asked
    /\ \A w \in Workers : OnTheWay(w) =>
         /\ proc[w].call = "post" => Live = {}
         /\ proc[w].call = "update" => Live \subseteq {proc[w].pid}

\* The provider shows what the row, or the worker that called it, recorded.
Agrees(pid, total) ==
  IF pid = 0 THEN Live = {} /\ total \in {Never, 0}
  ELSE Live = {pid} /\ entries[pid] = total /\ (kind = "worklog" => total > 0)

Untroubled == excused \cap {"lost", "stall", "removed"} = {}
Delivered ==
  Untroubled =>
    /\ (\A w \in Workers : proc[w].pc # "mark") => Agrees(rows[1].pid, rows[1].have)
    /\ \A w \in Workers : proc[w].pc = "mark" => Agrees(proc[w].pid, proc[w].want)
    /\ \A w \in Workers : OnTheWay(w) =>
         /\ proc[w].pid = rows[1].pid /\ proc[w].call # "update"
         /\ proc[w].call \in {"post", "find", "nothing"} => proc[w].pid = 0
         /\ proc[w].call \in {"nothing", "delete"} => proc[w].want = 0
         /\ proc[w].call = "post" => proc[w].want > 0
         /\ kind = "worklog" /\ proc[w].call \in {"find", "put"} => proc[w].want > 0

\* While no run outlived its lease one replica runs the job.
JobHeld ==
  "overrun" \notin excused =>
    \A w \in Workers : proc[w].pc # "idle" => job.owner = w /\ ~job.lapsed

\* A mail that went out is about to be recorded, or its report is gone.
Mailed ==
  /\ sends[2] = 0 /\ entries = << >> /\ \A w \in Workers : proc[w].pc # "taking"
  /\ \A w \in Workers : Working(w) => proc[w].item = 1 /\ proc[w].pc # "renew"
  /\ excused \cap {"lost", "stall"} = {} =>
      /\ sends[1] <= 1
      /\ \A v, w \in Workers : Working(v) /\ Working(w) => v = w
      /\ \A w \in Workers : Working(w) =>
           \/ rows[1].state = "none"
           \/ rows[1].claim = w /\ ~rows[1].lapsed
      /\ \A w \in Workers : proc[w].pc = "call" => sends[1] = 0
      /\ rows[1].state # "none" /\ sends[1] # 0 => \E w \in Workers : proc[w].pc = "mark"

\* An event is queued once; a message that went out is about to be recorded,
\* or its row is gone.
Posted ==
  /\ entries = << >>
  /\ \A i \in Items : rows[i].state # "none" => used.queued >= i
  /\ \A w \in Workers : Working(w) \/ proc[w].pc = "taking" => used.queued >= proc[w].item
  /\ \A i \in Items : used.queued < i => sends[i] = 0
  /\ excused \cap {"lost", "stall", "overrun"} = {} =>
      /\ \A i \in Items : sends[i] <= 1
      /\ \A w \in Workers : Working(w) =>
           \/ rows[proc[w].item].state = "none"
           \/ /\ rows[proc[w].item].claim = w /\ ~rows[proc[w].item].lapsed
              /\ rows[proc[w].item].state = "open"
      /\ \A w \in Workers : proc[w].pc = "taking" => rows[proc[w].item].state \in {"none", "open"}
      /\ \A w \in Workers : OnTheWay(w) => sends[proc[w].item] = 0
      /\ \A i \in Items : rows[i].state = "open" /\ sends[i] # 0 =>
           \E w \in Workers : proc[w].pc = "mark" /\ proc[w].item = i

ExportInv == Exporting => Exports /\ Exclusive /\ Single /\ Delivered
MailInv == kind = "report" => Mailed
PostInv == kind = "message" => Posted

Inv == Typed /\ JobHeld /\ ExportInv /\ MailInv /\ PostInv

\* A step of the ledger, or none of its business.
Kept == [Ledger!Next]_(Ledger!ledger)

-----------------------------------------------------------------------------
(***************************************************************************)
(* Facts the steps share.                                                  *)
(***************************************************************************)
LEMMA Constants ==
  /\ Nobody \notin Workers /\ MaxSeconds \in Nat /\ 0 \in Totals /\ Never \notin Totals
  /\ Gone \notin Totals /\ Totals \subseteq Nat /\ 1 \in Items /\ 2 \in Items
  /\ \A i \in Items : i = 1 \/ i = 2
BY OutboxAssumption DEF Totals, Never, Gone, Items

LEMMA NoRowFacts ==
  /\ NoRow \in RowT /\ NoRow.state = "none" /\ NoRow.pid = 0 /\ NoRow.have = Never
  /\ NoRow.claim = Nobody /\ ~NoRow.lapsed
  /\ Queued \in RowT /\ Queued.state = "open" /\ Queued.pid = 0 /\ Queued.have = Never
  /\ Queued.claim = Nobody /\ ~Queued.lapsed /\ Queued.want = 0
BY Constants DEF NoRow, Queued, RowT

LEMMA IdleFacts ==
  /\ Idle \in WorkerT /\ Idle.pc = "idle"
  /\ [Idle EXCEPT !.pc = "stage"] \in WorkerT /\ [Idle EXCEPT !.pc = "claim"] \in WorkerT
  /\ [Idle EXCEPT !.pc = "stage"].pc = "stage" /\ [Idle EXCEPT !.pc = "claim"].pc = "claim"
BY Constants DEF Idle, WorkerT

LEMMA OneMoves ==
  ASSUME Typed, NEW w \in Workers, NEW c \in WorkerT, Becomes(w, c)
  PROVE  /\ proc' \in [Workers -> WorkerT] /\ proc'[w] = c
         /\ \A v \in Workers : v # w => proc'[v] = proc[v]
BY DEF Typed, Becomes

LEMMA GoesFacts ==
  ASSUME Typed, NEW w \in Workers,
         NEW pc \in {"idle", "stage", "staging", "claim", "taking", "renew", "call", "mark", "fail"}
  PROVE  LET c == [proc[w] EXCEPT !.pc = pc]
         IN  /\ c \in WorkerT /\ c.pc = pc /\ c.item = proc[w].item /\ c.want = proc[w].want
             /\ c.pid = proc[w].pid /\ c.call = proc[w].call
             /\ Goes(w, pc) <=> Becomes(w, c)
BY DEF Typed, WorkerT, Goes

\* The new state of a worker of which only the step changes.
LEMMA Goer ==
  ASSUME Typed, NEW w \in Workers, NEW pc \in {"idle", "claim", "call", "mark", "fail"}, Goes(w, pc)
  PROVE  \E c \in WorkerT : /\ Becomes(w, c) /\ c.pc = pc /\ c.item = proc[w].item
                            /\ c.want = proc[w].want /\ c.pid = proc[w].pid
                            /\ c.call = proc[w].call
<1>1. pc \in {"idle", "stage", "staging", "claim", "taking", "renew", "call", "mark", "fail"}
  OBVIOUS
<1>2. PICK c : c = [proc[w] EXCEPT !.pc = pc]
  OBVIOUS
<1>3. /\ c \in WorkerT /\ c.pc = pc /\ c.item = proc[w].item /\ c.want = proc[w].want
      /\ c.pid = proc[w].pid /\ c.call = proc[w].call /\ Becomes(w, c)
  BY <1>1, <1>2 DEF Typed, WorkerT, Goes
<1>4. QED  BY <1>3

\* What the types say of the fields the proofs look at.
LEMMA Fields ==
  ASSUME Typed
  PROVE  /\ \A i \in Items :
              /\ rows[i] \in RowT /\ rows[i].want \in Totals /\ rows[i].pid \in Nat
              /\ rows[i].claim \in Workers \cup {Nobody} /\ rows[i].have \in Totals \cup {Never}
              /\ rows[i].state \in {"none", "open", "sent", "discarded"} /\ sends[i] \in Nat
         /\ \A w \in Workers :
              /\ proc[w] \in WorkerT /\ proc[w].want \in Totals /\ proc[w].pid \in Nat
              /\ proc[w].item \in Items /\ Row(w) = rows[proc[w].item] /\ Row(w) \in RowT
         /\ Len(entries) \in Nat /\ DOMAIN entries = 1 .. Len(entries)
         /\ \A n \in 1 .. Len(entries) : entries[n] \in Totalled
         /\ used.queued \in Nat
<1>1. \A i \in Items : rows[i] \in RowT /\ sends[i] \in Nat
  BY DEF Typed
<1>2. \A w \in Workers : proc[w] \in WorkerT
  BY DEF Typed
<1>3. \A i \in Items :
        /\ rows[i].want \in Totals /\ rows[i].pid \in Nat
        /\ rows[i].claim \in Workers \cup {Nobody} /\ rows[i].have \in Totals \cup {Never}
        /\ rows[i].state \in {"none", "open", "sent", "discarded"}
  BY <1>1 DEF RowT
<1>4. \A w \in Workers : /\ proc[w].want \in Totals /\ proc[w].pid \in Nat
                         /\ proc[w].item \in Items /\ Row(w) = rows[proc[w].item]
  BY <1>2 DEF WorkerT, Row
<1>5. entries \in Seq(Totalled) /\ used.queued \in Nat
  BY DEF Typed, Budgets
<1>6. /\ Len(entries) \in Nat /\ DOMAIN entries = 1 .. Len(entries)
      /\ \A n \in 1 .. Len(entries) : entries[n] \in Totalled
  BY <1>5
<1>7. QED  BY <1>1, <1>2, <1>3, <1>4, <1>5, <1>6

LEMMA SpendFacts ==
  ASSUME Typed, NEW what \in {"changes", "switches", "faults"}, Spend(what)
  PROVE  used' \in Budgets /\ used'.queued = used.queued
BY DEF Typed, Spend, Budgets

LEMMA FaultFacts ==
  ASSUME Typed, Fault
  PROVE  used' \in Budgets /\ used'.queued = used.queued
BY SpendFacts DEF Fault

LEMMA LiveFacts ==
  ASSUME Typed
  PROVE  /\ Live \subseteq 1 .. Len(entries) /\ \A n \in Live : entries[n] \in Totals
         /\ \A n \in 1 .. Len(entries) : n \in Live <=> entries[n] # Gone
         /\ 0 \notin Live
BY Fields DEF Live, Totalled

-----------------------------------------------------------------------------
(***************************************************************************)
(* Steps after which the rows, the entries and the workers that are at     *)
(* them are as they were.                                                  *)
(***************************************************************************)
SameRows ==
  \A i \in Items :
    /\ rows'[i].state = rows[i].state /\ rows'[i].pid = rows[i].pid
    /\ rows'[i].have = rows[i].have /\ rows'[i].want = rows[i].want
    /\ rows'[i].claim = rows[i].claim /\ rows'[i].lapsed = rows[i].lapsed

\* A worker is as it was, or has left its row, with nothing to record or lost.
Leaves(w) ==
  \/ proc'[w] = proc[w]
  \/ /\ proc'[w].pc \in {"idle", "stage", "staging", "claim"}
     /\ proc[w].pc = "mark" => "lost" \in excused'

\* What went wrong stays on record.
Remembers ==
  /\ "stall" \in excused' <=> "stall" \in excused
  /\ "lost" \in excused => "lost" \in excused'
  /\ "removed" \in excused => "removed" \in excused'
  /\ "overrun" \in excused => "overrun" \in excused'

LEMMA SettledWorkers ==
  ASSUME \A w \in Workers : Leaves(w)
  PROVE  \A w \in Workers :
           /\ proc'[w].pc \in {"taking", "renew", "call", "mark", "fail"} => proc'[w] = proc[w]
           /\ proc[w].pc = "mark" => proc'[w] = proc[w] \/ "lost" \in excused'
BY DEF Leaves

LEMMA SameExports ==
  ASSUME Inv, Exporting, SameRows, \A w \in Workers : Leaves(w), Remembers,
         UNCHANGED <<kind, entries, asked>>
  PROVE  Exports' /\ Exclusive' /\ Single' /\ Delivered'
<1>. USE SettledWorkers, Constants DEF Inv, ExportInv, SameRows, Remembers, Working
<1>1. Exports'
  BY DEF Exports, OnTheWay
<1>2. Exclusive'
  BY DEF Exclusive
<1>3. Single'
  BY DEF Single, OnTheWay, Live
<1>4. Delivered'
  <2>. SUFFICES ASSUME Untroubled'
                PROVE  /\ (\A w \in Workers : proc'[w].pc # "mark")
                            => Agrees(rows[1].pid, rows[1].have)'
                       /\ \A w \in Workers : proc'[w].pc = "mark" => Agrees(proc[w].pid, proc[w].want)'
                       /\ \A w \in Workers : OnTheWay(w)' =>
                            /\ proc'[w].pid = rows'[1].pid /\ proc'[w].call # "update"
                            /\ proc'[w].call \in {"post", "find", "nothing"} => proc'[w].pid = 0
                            /\ proc'[w].call \in {"nothing", "delete"} => proc'[w].want = 0
                            /\ proc'[w].call = "post" => proc'[w].want > 0
                            /\ kind = "worklog" /\ proc'[w].call \in {"find", "put"} => proc'[w].want > 0
    BY DEF Delivered
  <2>1. Untroubled /\ "lost" \notin excused'
    BY DEF Untroubled
  <2>2. \A pid, total : Agrees(pid, total)' <=> Agrees(pid, total)
    BY DEF Agrees, Live
  <2>3. \A w \in Workers : proc[w].pc = "mark" <=> proc'[w].pc = "mark"
    BY <2>1
  <2>4. QED  BY <2>1, <2>2, <2>3 DEF Delivered, OnTheWay
<1>5. QED  BY <1>1, <1>2, <1>3, <1>4

LEMMA SameMails ==
  ASSUME Inv, kind = "report", SameRows, \A w \in Workers : Leaves(w), Remembers,
         UNCHANGED <<kind, entries, sends>>
  PROVE  Mailed'
BY SettledWorkers, Constants DEF Inv, MailInv, SameRows, Remembers, Working, Mailed

LEMMA SamePosts ==
  ASSUME Inv, kind = "message", SameRows, \A w \in Workers : Leaves(w), Remembers,
         UNCHANGED <<kind, entries, sends>>, used'.queued = used.queued
  PROVE  Posted'
<1>. USE SettledWorkers, Constants, Fields
     DEF Inv, PostInv, SameRows, Remembers, Working, OnTheWay
<1>1. /\ entries' = << >> /\ \A i \in Items : rows'[i].state # "none" => used'.queued >= i
      /\ \A w \in Workers : proc'[w].pc \in {"renew", "call", "mark", "fail", "taking"}
                            => used'.queued >= proc'[w].item
      /\ \A i \in Items : used'.queued < i => sends'[i] = 0
  BY DEF Posted
<1>2. ASSUME excused' \cap {"lost", "stall", "overrun"} = {}
      PROVE
      /\ \A i \in Items : sends'[i] <= 1
      /\ \A w \in Workers : proc'[w].pc \in {"renew", "call", "mark", "fail"} =>
           \/ rows'[proc'[w].item].state = "none"
           \/ /\ rows'[proc'[w].item].claim = w /\ ~rows'[proc'[w].item].lapsed
              /\ rows'[proc'[w].item].state = "open"
      /\ \A w \in Workers : proc'[w].pc = "taking" => rows'[proc'[w].item].state \in {"none", "open"}
      /\ \A w \in Workers : proc'[w].pc \in {"renew", "call"} => sends'[proc'[w].item] = 0
      /\ \A i \in Items : rows'[i].state = "open" /\ sends'[i] # 0 =>
           \E w \in Workers : proc'[w].pc = "mark" /\ proc'[w].item = i
  <2>1. excused \cap {"lost", "stall", "overrun"} = {}
    BY <1>2
  <2>2. \A i \in Items : sends'[i] <= 1
    BY <2>1 DEF Posted
  <2>3. ASSUME NEW w \in Workers, proc'[w].pc \in {"renew", "call", "mark", "fail", "taking"}
        PROVE  /\ proc'[w].pc # "taking" =>
                    \/ rows'[proc'[w].item].state = "none"
                    \/ /\ rows'[proc'[w].item].claim = w /\ ~rows'[proc'[w].item].lapsed
                       /\ rows'[proc'[w].item].state = "open"
               /\ proc'[w].pc = "taking" => rows'[proc'[w].item].state \in {"none", "open"}
               /\ proc'[w].pc \in {"renew", "call"} => sends'[proc'[w].item] = 0
    <3>1. proc'[w] = proc[w] /\ proc[w].item \in Items
      BY <2>3
    <3>2. QED  BY <2>1, <2>3, <3>1 DEF Posted
  <2>4. \A i \in Items : rows'[i].state = "open" /\ sends'[i] # 0 =>
           \E w \in Workers : proc'[w].pc = "mark" /\ proc'[w].item = i
    BY <2>1, <1>2 DEF Posted
  <2>5. QED  BY <2>2, <2>3, <2>4
<1>3. QED  BY <1>1, <1>2 DEF Posted

LEMMA QuietStep ==
  ASSUME Inv, Typed', JobHeld', SameRows, \A w \in Workers : Leaves(w), Remembers,
         UNCHANGED <<kind, entries, asked, sends>>, used'.queued = used.queued
  PROVE  Inv' /\ Kept
<1>1. ExportInv' /\ MailInv' /\ PostInv'
  BY SameExports, SameMails, SamePosts DEF ExportInv, MailInv, PostInv, Exporting
<1>2. Kept
  BY DEF Kept, Ledger!ledger, Remembers, Live
<1>3. QED  BY <1>1, <1>2 DEF Inv

LEMMA JobStays ==
  ASSUME Inv, UNCHANGED job, "overrun" \in excused => "overrun" \in excused',
         \A w \in Workers : proc'[w].pc # "idle" => proc[w].pc # "idle"
  PROVE  JobHeld'
BY DEF Inv, JobHeld

LEMMA RowsStay ==
  ASSUME UNCHANGED rows
  PROVE  SameRows
BY DEF SameRows

LEMMA ProcStays ==
  ASSUME UNCHANGED proc
  PROVE  /\ \A w \in Workers : Leaves(w)
         /\ \A w \in Workers : proc'[w].pc # "idle" => proc[w].pc # "idle"
BY DEF Leaves

LEMMA MarksStep ==
  ASSUME Inv, NEW n \in Totals, Marks(n)
  PROVE  Inv' /\ Kept
<1>1. /\ Spend("changes") /\ source' \in Totals /\ Remembers
      /\ UNCHANGED <<kind, link, mode, rows, entries, sends, job, proc, asked>>
  BY DEF Marks, Inv, Typed, Remembers
<1>2. used' \in Budgets /\ used'.queued = used.queued
  BY <1>1, SpendFacts DEF Inv
<1>3. Typed' /\ JobHeld'
  BY <1>1, <1>2, JobStays, ProcStays DEF Inv, Typed, Remembers
<1>4. QED  BY <1>1, <1>2, <1>3, RowsStay, ProcStays, QuietStep

LEMMA PassingSteps ==
  ASSUME Inv, Midnight \/ CompleteTask \/ SyncComesDue
  PROVE  Inv' /\ Kept
<1>1. UNCHANGED <<kind, source, rows, entries, sends, job, proc, asked, excused, used>> /\ Remembers
  BY DEF Midnight, CompleteTask, SyncComesDue, Remembers
<1>2. Typed' /\ JobHeld'
  BY <1>1, JobStays, ProcStays DEF Inv, Typed
<1>3. QED  BY <1>1, <1>2, RowsStay, ProcStays, QuietStep

\* Switches that touch the link, the mode and the times only.
LEMMA SettingSteps ==
  ASSUME Inv,
         \/ set_jira_user_sync_mode \/ set_asana_user_sync_mode
         \/ DisconnectAccount \/ ConnectAccount \/ set_slack_destination \/ upsert_slack_workspace
  PROVE  Inv' /\ Kept
<1>1. /\ \E to \in {"none", "off", "on"} : SwitchTo(to)
      /\ UNCHANGED <<rows, sends, excused>>
  BY DEF set_jira_user_sync_mode, set_asana_user_sync_mode, SetMode, Switch, DisconnectAccount,
         ConnectAccount, set_slack_destination, upsert_slack_workspace
<1>2. /\ Spend("switches") /\ UNCHANGED <<kind, source, entries, job, proc, asked>> /\ Remembers
  BY <1>1 DEF SwitchTo, Remembers
<1>3. used' \in Budgets /\ used'.queued = used.queued
  BY <1>2, SpendFacts DEF Inv
<1>4. Typed' /\ JobHeld'
  BY <1>1, <1>2, <1>3, JobStays, ProcStays DEF Inv, Typed
<1>5. QED  BY <1>1, <1>2, <1>3, <1>4, RowsStay, ProcStays, QuietStep

LEMMA RunJobStep ==
  ASSUME Inv, NEW w \in Workers, RunJob(w)
  PROVE  Inv' /\ Kept
<1> DEFINE c == [Idle EXCEPT !.pc = IF Exporting THEN "stage" ELSE "claim"]
<1>1. /\ proc[w].pc = "idle" /\ claim_background_job(w) /\ Becomes(w, c)
      /\ job' = [owner |-> w, lapsed |-> FALSE] /\ Typed
      /\ UNCHANGED <<kind, source, rows, entries, sends, asked, excused, used>>
  BY DEF RunJob, Inv, day
<1>2. c \in WorkerT /\ c.pc \in {"stage", "claim"}
  BY IdleFacts
<1> HIDE DEF c
<1>3. /\ proc' \in [Workers -> WorkerT] /\ proc'[w] = c
      /\ \A v \in Workers : v # w => proc'[v] = proc[v]
  BY <1>1, <1>2, OneMoves
<1>4. \A v \in Workers : Leaves(v)
  BY <1>1, <1>2, <1>3 DEF Leaves
<1>5. Typed'
  BY <1>1, <1>3 DEF Typed, Leases
<1>6. JobHeld'
  <2>1. job'.owner = w /\ ~job'.lapsed
    BY <1>1
  <2>2. ASSUME NEW v \in Workers, v # w, proc[v].pc # "idle", "overrun" \notin excused
        PROVE  FALSE
    <3>1. job.owner = v /\ ~job.lapsed
      BY <2>2 DEF Inv, JobHeld
    <3>2. QED  BY <3>1, <1>1, <2>2, Constants DEF claim_background_job
  <2>3. QED  BY <1>1, <1>3, <2>1, <2>2 DEF JobHeld
<1>7. Remembers
  BY <1>1 DEF Remembers
<1>8. QED  BY <1>1, <1>4, <1>5, <1>6, <1>7, RowsStay, QuietStep

LEMMA ReleaseStep ==
  ASSUME Inv, NEW w \in Workers, release_background_jobs(w)
  PROVE  Inv' /\ Kept
<1>1. /\ proc[w].pc = "idle" /\ job.owner = w /\ job' = [owner |-> Nobody, lapsed |-> FALSE]
      /\ UNCHANGED <<kind, source, rows, entries, sends, proc, asked, excused, used>> /\ Remembers
  BY DEF release_background_jobs, Remembers, day
<1>2. Typed'
  BY <1>1 DEF Inv, Typed, Leases
<1>3. JobHeld'
  BY <1>1 DEF Inv, JobHeld
<1>4. QED  BY <1>1, <1>2, <1>3, RowsStay, ProcStays, QuietStep

LEMMA JobLeaseLapsesStep ==
  ASSUME Inv, JobLeaseLapses
  PROVE  Inv' /\ Kept
<1>1. /\ job.owner # Nobody /\ job' = [job EXCEPT !.lapsed = TRUE] /\ Typed
      /\ UNCHANGED <<kind, source, rows, entries, sends, proc, asked>>
      /\ IF proc[job.owner].pc # "idle" THEN Fault /\ excused' = excused \cup {"overrun"}
         ELSE UNCHANGED <<used, excused>>
  BY DEF JobLeaseLapses, Outlives, Inv, day
<1>2. used' \in Budgets /\ used'.queued = used.queued /\ Remembers
  BY <1>1, FaultFacts DEF Typed, Remembers
<1>3. Typed'
  BY <1>1, <1>2 DEF Typed, Leases
<1>4. JobHeld'
  BY <1>1, <1>2 DEF Inv, JobHeld, Remembers
<1>5. QED  BY <1>1, <1>2, <1>3, <1>4, RowsStay, ProcStays, QuietStep

LEMMA CrashStep ==
  ASSUME Inv, NEW w \in Workers, Crash(w)
  PROVE  Inv' /\ Kept
<1>1. /\ proc[w].pc # "idle" /\ Fault /\ Becomes(w, Idle) /\ Typed
      /\ excused' = excused \cup (IF proc[w].pc \in {"call", "mark", "renew"} THEN {"lost"} ELSE {})
      /\ UNCHANGED <<kind, source, rows, entries, sends, job, asked>>
  BY DEF Crash, Inv, day
<1>2. /\ proc' \in [Workers -> WorkerT] /\ proc'[w] = Idle
      /\ \A v \in Workers : v # w => proc'[v] = proc[v]
  BY <1>1, IdleFacts, OneMoves
<1>3. /\ \A v \in Workers : Leaves(v)
      /\ \A v \in Workers : proc'[v].pc # "idle" => proc[v].pc # "idle"
  BY <1>1, <1>2, IdleFacts DEF Leaves
<1>4. used' \in Budgets /\ used'.queued = used.queued /\ Remembers
  BY <1>1, FaultFacts DEF Remembers
<1>5. Typed' /\ JobHeld'
  BY <1>1, <1>2, <1>3, <1>4, JobStays DEF Typed, Remembers
<1>6. QED  BY <1>1, <1>3, <1>4, <1>5, RowsStay, QuietStep

LEMMA RowComesDueStep ==
  ASSUME Inv, NEW i \in Items, RowComesDue(i)
  PROVE  Inv' /\ Kept
<1>1. /\ rows' = [rows EXCEPT ![i].wait = FALSE] /\ Typed
      /\ UNCHANGED <<kind, source, entries, sends, job, proc, asked, excused, used>> /\ Remembers
  BY DEF RowComesDue, Remembers, Inv, day
<1>2. rows' \in [Items -> RowT] /\ SameRows
  <2>1. rows[i] \in RowT /\ rows \in [Items -> RowT]
    BY <1>1, Fields DEF Typed
  <2>2. PICK r : r = [rows[i] EXCEPT !.wait = FALSE]
    OBVIOUS
  <2>3. /\ r \in RowT /\ r.state = rows[i].state /\ r.pid = rows[i].pid /\ r.have = rows[i].have
        /\ r.want = rows[i].want /\ r.claim = rows[i].claim /\ r.lapsed = rows[i].lapsed
    BY <2>1, <2>2 DEF RowT
  <2>4. rows' = [rows EXCEPT ![i] = r]
    BY <1>1, <2>2
  <2>5. QED  BY <2>1, <2>3, <2>4 DEF SameRows
<1>3. Typed' /\ JobHeld'
  BY <1>1, <1>2, JobStays, ProcStays DEF Typed
<1>4. QED  BY <1>1, <1>2, <1>3, ProcStays, QuietStep

-----------------------------------------------------------------------------
(***************************************************************************)
(* Staging and claiming.                                                   *)
(***************************************************************************)
\* A worker moves on, but not to a row.
LEMMA MovesOn ==
  ASSUME Inv, NEW w \in Workers, NEW c \in WorkerT, Becomes(w, c), proc[w].pc \notin {"idle", "mark"},
         c.pc \in {"idle", "stage", "staging", "claim"}, Remembers,
         UNCHANGED <<kind, source, rows, entries, sends, job, asked, used>>
  PROVE  Inv' /\ Kept
<1>1. /\ proc' \in [Workers -> WorkerT] /\ proc'[w] = c
      /\ \A v \in Workers : v # w => proc'[v] = proc[v]
  BY OneMoves DEF Inv
<1>2. /\ \A v \in Workers : Leaves(v)
      /\ \A v \in Workers : proc'[v].pc # "idle" => proc[v].pc # "idle"
  BY <1>1 DEF Leaves
<1>3. Typed' /\ JobHeld'
  BY <1>1, <1>2, JobStays DEF Inv, Typed, Remembers
<1>4. QED  BY <1>2, <1>3, RowsStay, QuietStep

LEMMA StageStep ==
  ASSUME Inv, NEW w \in Workers, Stage(w)
  PROVE  Inv' /\ Kept
<1>1. /\ proc[w].pc = "stage" /\ Typed /\ proc[w] \in WorkerT /\ source \in Totals
      /\ UNCHANGED <<kind, source, rows, entries, sends, job, asked, used>>
  BY Fields DEF Stage, Inv, Typed
<1>2. Remembers
  BY DEF Stage, Remembers
<1> DEFINE c == [proc[w] EXCEPT !.pc = "claim"]
           d == [proc[w] EXCEPT !.pc = "staging", !.want = source]
<1>3. c \in WorkerT /\ c.pc = "claim" /\ d \in WorkerT /\ d.pc = "staging"
  BY <1>1 DEF WorkerT
<1>4. Becomes(w, c) \/ Becomes(w, d)
  BY DEF Stage, Goes
<1> HIDE DEF c, d
<1>5. QED  BY <1>1, <1>2, <1>3, <1>4, MovesOn

LEMMA StagedFacts ==
  ASSUME NEW r \in RowT, NEW n \in Totals
  PROVE  /\ Staged(r, n) \in RowT /\ Staged(r, n).want = n
         /\ Staged(r, n).state = IF r.state = "none" THEN "open" ELSE r.state
         /\ r.state # "none" =>
              /\ Staged(r, n).pid = r.pid /\ Staged(r, n).have = r.have
              /\ Staged(r, n).claim = r.claim /\ Staged(r, n).lapsed = r.lapsed
         /\ r.state = "none" =>
              /\ Staged(r, n).pid = 0 /\ Staged(r, n).have = Never
              /\ Staged(r, n).claim = Nobody
<1>1. CASE r.state = "none"
  <2>1. Staged(r, n) = [Queued EXCEPT !.want = n]
    BY <1>1 DEF Staged
  <2>2. QED  BY <1>1, <2>1, NoRowFacts, Zenon DEF RowT
<1>2. CASE r.state # "none" /\ r.want = n
  BY <1>2 DEF Staged
<1>3. CASE r.state # "none" /\ r.want # n
  <2>1. Staged(r, n) = [r EXCEPT !.want = n, !.wait = FALSE]
    BY <1>3 DEF Staged
  <2>2. QED  BY <1>3, <2>1, Zenon DEF RowT
<1>4. QED  BY <1>1, <1>2, <1>3

LEMMA WriteStagedStep ==
  ASSUME Inv, Exporting, NEW w \in Workers, WriteStaged(w)
  PROVE  Inv' /\ Kept
<1>1. PICK n \in Totals : n = proc[w].want
  BY Fields DEF Inv
<1>2. /\ proc[w].pc = "staging" /\ Goes(w, "claim") /\ Typed /\ proc[w] \in WorkerT
      /\ UNCHANGED <<kind, source, entries, sends, job, excused, used>>
  BY Fields DEF WriteStaged, Inv
<1> DEFINE c == [proc[w] EXCEPT !.pc = "claim"]
<1>3. c \in WorkerT /\ c.pc = "claim" /\ Becomes(w, c)
  BY <1>2, GoesFacts
<1> HIDE DEF c
<1>4. Remembers
  BY <1>2 DEF Remembers
<1>5. CASE UNCHANGED <<rows, asked>>
  BY <1>2, <1>3, <1>4, <1>5, MovesOn
<1>6. CASE rows' = [rows EXCEPT ![1] = Staged(@, n)] /\ asked' = asked \cup {n}
  <2>1. /\ proc' \in [Workers -> WorkerT] /\ proc'[w] = c
        /\ \A v \in Workers : v # w => proc'[v] = proc[v]
    BY <1>2, <1>3, OneMoves
  <2>2. /\ \A v \in Workers : Leaves(v)
        /\ \A v \in Workers : proc'[v].pc # "idle" => proc[v].pc # "idle"
    BY <1>2, <1>3, <2>1 DEF Leaves
  <2>3. rows[1] \in RowT /\ rows' \in [Items -> RowT] /\ rows'[1] = Staged(rows[1], n)
    <3>1. rows[1] \in RowT /\ rows \in [Items -> RowT]
      BY <1>2, Fields, Constants DEF Typed
    <3>2. Staged(rows[1], n) \in RowT
      BY <3>1, StagedFacts
    <3>3. QED  BY <1>6, <3>1, <3>2, Constants
  <2>4. Typed' /\ JobHeld'
    BY <1>2, <1>4, <2>1, <2>2, <2>3, JobStays DEF Typed, Remembers
  <2>5. /\ rows'[1].want = n /\ rows'[1].state = (IF rows[1].state = "none" THEN "open" ELSE rows[1].state)
        /\ rows[1].state # "none" =>
              /\ rows'[1].pid = rows[1].pid /\ rows'[1].have = rows[1].have
              /\ rows'[1].claim = rows[1].claim /\ rows'[1].lapsed = rows[1].lapsed
        /\ rows[1].state = "none" =>
              /\ rows'[1].pid = 0 /\ rows'[1].have = Never /\ rows'[1].claim = Nobody
    BY <2>3, StagedFacts
  <2>6. rows'[1].pid = rows[1].pid /\ rows'[1].have = rows[1].have
    BY <2>5 DEF Inv, ExportInv, Exports
  <2>7. \A v \in Workers :
           /\ proc'[v].pc \in {"taking", "renew", "call", "mark", "fail"} => proc'[v] = proc[v]
           /\ proc[v].pc = "mark" => proc'[v] = proc[v]
    BY <1>2, <1>3, <2>1
  <2> USE DEF Inv, ExportInv
  <2>8. Exports'
    BY <1>2, <1>6, <2>5, <2>6, <2>7 DEF Exports, Working, OnTheWay
  <2>9. Exclusive'
    BY <1>2, <2>5, <2>7 DEF Exports, Exclusive, Working
  <2>10. Single'
    BY <1>2, <1>6, <2>7 DEF Single, OnTheWay, Live
  <2>11. Delivered'
    <3>1. \A pid, total : Agrees(pid, total)' <=> Agrees(pid, total)
      BY <1>2 DEF Agrees, Live
    <3>2. QED  BY <1>2, <2>6, <2>7, <3>1 DEF Delivered, OnTheWay, Untroubled
  <2>12. Kept
    BY <1>2, <1>6 DEF Kept, Ledger!Next, Ledger!Ask, Live
  <2>13. QED
    BY <1>2, <2>4, <2>8, <2>9, <2>10, <2>11, <2>12 DEF Exporting, MailInv, PostInv
<1>7. QED  BY <1>1, <1>5, <1>6 DEF WriteStaged

LEMMA StagingSteps ==
  ASSUME Inv, NEW w \in Workers, stage_due_jira_worklogs(w) \/ stage_due_asana_comments(w)
  PROVE  Inv' /\ Kept
<1>1. Exporting /\ (Stage(w) \/ WriteStaged(w))
  BY DEF stage_due_jira_worklogs, stage_due_asana_comments, Exporting
<1>2. QED  BY <1>1, StageStep, WriteStagedStep

\* What a claim writes, and the worker it makes.
LEMMA ClaimedFacts ==
  ASSUME Typed, NEW w \in Workers, NEW i \in Items,
         NEW first \in {"nothing", "delete", "find", "put", "post", "mail"}, Claimed(w, i, first)
  PROVE  /\ rows' \in [Items -> RowT] /\ proc' \in [Workers -> WorkerT]
         /\ rows'[i].claim = w /\ ~rows'[i].lapsed
         /\ \A j \in Items :
              /\ j # i => rows'[j] = rows[j]
              /\ rows'[j].state = rows[j].state /\ rows'[j].pid = rows[j].pid
              /\ rows'[j].have = rows[j].have /\ rows'[j].want = rows[j].want
         /\ proc'[w].pc = (IF first = "mail" THEN "call" ELSE "renew")
         /\ proc'[w].item = i /\ proc'[w].want = rows[i].want /\ proc'[w].pid = rows[i].pid
         /\ proc'[w].call = first
         /\ \A v \in Workers : v # w => proc'[v] = proc[v]
<1> DEFINE r == [rows[i] EXCEPT !.claim = w, !.lapsed = FALSE]
           c == [pc |-> IF first = "mail" THEN "call" ELSE "renew", item |-> i,
                 want |-> rows[i].want, pid |-> rows[i].pid, call |-> first]
<1>1. rows[i] \in RowT /\ rows \in [Items -> RowT] /\ rows[i].want \in Totals /\ rows[i].pid \in Nat
  BY Fields DEF Typed
<1>2. rows' = [rows EXCEPT ![i] = r]
  BY <1>1 DEF Claimed
<1>3. /\ r \in RowT /\ r.claim = w /\ ~r.lapsed /\ r.state = rows[i].state /\ r.pid = rows[i].pid
      /\ r.have = rows[i].have /\ r.want = rows[i].want
  BY <1>1 DEF RowT
<1> HIDE DEF r
<1>4. /\ c \in WorkerT /\ c.pc = (IF first = "mail" THEN "call" ELSE "renew")
      /\ c.item = i /\ c.want = rows[i].want /\ c.pid = rows[i].pid /\ c.call = first
  BY <1>1 DEF WorkerT
<1>5. Becomes(w, c)
  BY DEF Claimed
<1> HIDE DEF c
<1>6. /\ proc' \in [Workers -> WorkerT] /\ proc'[w] = c
      /\ \A v \in Workers : v # w => proc'[v] = proc[v]
  BY <1>4, <1>5, OneMoves
<1>7. /\ rows' \in [Items -> RowT] /\ rows'[i] = r /\ \A j \in Items : j # i => rows'[j] = rows[j]
  BY <1>1, <1>2, <1>3
<1>8. QED  BY <1>3, <1>4, <1>6, <1>7

LEMMA ClaimExport ==
  ASSUME Inv, Exporting, NEW w \in Workers, proc[w].pc = "claim", Due(1),
         NEW first, first = (IF kind = "worklog" THEN JiraFirst(rows[1]) ELSE AsanaFirst(rows[1])),
         Claimed(w, 1, first),
         UNCHANGED <<kind, source, entries, sends, job, asked, excused, used>>
  PROVE  Inv' /\ Kept
<1>. USE DEF Inv, ExportInv
<1>1. /\ first \in {"nothing", "delete", "find", "put"}
      /\ first \in {"delete", "put"} => rows[1].pid # 0
      /\ first \in {"find", "nothing"} => rows[1].pid = 0
      /\ first \in {"nothing", "delete"} => rows[1].want = 0
      /\ kind = "worklog" /\ first \in {"find", "put"} => rows[1].want > 0
  <2>1. rows[1].want \in Nat
    BY Fields, Constants
  <2>2. QED  BY <2>1 DEF JiraFirst, AsanaFirst
<1>2. /\ rows' \in [Items -> RowT] /\ proc' \in [Workers -> WorkerT]
      /\ rows'[1].claim = w /\ ~rows'[1].lapsed
      /\ rows'[1].state = rows[1].state /\ rows'[1].pid = rows[1].pid
      /\ rows'[1].have = rows[1].have /\ rows'[1].want = rows[1].want
      /\ proc'[w].pc = "renew" /\ proc'[w].item = 1 /\ proc'[w].want = rows[1].want
      /\ proc'[w].pid = rows[1].pid /\ proc'[w].call = first
      /\ \A v \in Workers : v # w => proc'[v] = proc[v]
  BY <1>1, ClaimedFacts, Constants
<1>3. rows[1].state = "open" /\ (rows[1].claim = Nobody \/ rows[1].lapsed)
  BY DEF Due, Free
<1>4. "stall" \notin excused => \A v \in Workers : ~Working(v)
  BY <1>3, Constants DEF Exclusive
<1>5. Typed'
  BY <1>2 DEF Typed
<1>6. JobHeld'
  BY <1>2, JobStays
<1>7. Exports'
  BY <1>1, <1>2, <1>3 DEF Exports, Working, OnTheWay
<1>8. Exclusive'
  BY <1>2, <1>4 DEF Exclusive, Working
<1>9. Single'
  BY <1>1, <1>2, <1>4 DEF Single, OnTheWay, Live, Working
<1>10. Delivered'
  <2>1. \A pid, total : Agrees(pid, total)' <=> Agrees(pid, total)
    BY DEF Agrees, Live
  <2>2. Untroubled => \A v \in Workers : v # w => proc'[v].pc \notin {"mark", "renew", "call"}
    BY <1>2, <1>4 DEF Untroubled, Working
  <2>3. Untroubled => \A v \in Workers : proc[v].pc # "mark"
    BY <1>4 DEF Untroubled, Working
  <2>4. QED  BY <1>1, <1>2, <2>1, <2>2, <2>3 DEF Delivered, OnTheWay, Untroubled
<1>11. Kept
  BY DEF Kept, Ledger!ledger, Live
<1>12. QED
  BY <1>5, <1>6, <1>7, <1>8, <1>9, <1>10, <1>11 DEF Exporting, MailInv, PostInv

LEMMA ClaimReport ==
  ASSUME Inv, kind = "report", NEW w \in Workers, proc[w].pc = "claim", Due(1),
         Claimed(w, 1, "mail"),
         UNCHANGED <<kind, source, entries, sends, job, asked, excused, used>>
  PROVE  Inv' /\ Kept
<1>. USE DEF Inv, MailInv
<1>1. /\ rows' \in [Items -> RowT] /\ proc' \in [Workers -> WorkerT]
      /\ rows'[1].claim = w /\ ~rows'[1].lapsed /\ rows'[1].state = rows[1].state
      /\ proc'[w].pc = "call" /\ proc'[w].item = 1
      /\ \A v \in Workers : v # w => proc'[v] = proc[v]
  BY ClaimedFacts, Constants
<1>2. rows[1].state = "open" /\ (rows[1].claim = Nobody \/ rows[1].lapsed)
  BY DEF Due, Free
<1>3. excused \cap {"lost", "stall"} = {} => \A v \in Workers : ~Working(v)
  BY <1>2, Constants DEF Mailed
<1>4. Typed'
  BY <1>1 DEF Typed
<1>5. JobHeld'
  BY <1>1, JobStays
<1>6. Mailed'
  <2>1. excused \cap {"lost", "stall"} = {} => sends[1] = 0
    BY <1>2, <1>3 DEF Mailed, Working
  <2>2. QED  BY <1>1, <1>2, <1>3, <2>1 DEF Mailed, Working
<1>7. Kept
  BY DEF Kept, Ledger!ledger, Live
<1>8. QED
  BY <1>4, <1>5, <1>6, <1>7 DEF Exporting, ExportInv, PostInv

\* While the job's lease holds, the other workers are at rest.
LEMMA OneRuns ==
  ASSUME Inv, NEW w \in Workers, proc[w].pc # "idle", "overrun" \notin excused
  PROVE  \A v \in Workers : v # w => proc[v].pc = "idle"
BY DEF Inv, JobHeld

LEMMA PickMessageStep ==
  ASSUME Inv, NEW w \in Workers, proc[w].pc = "claim", PickMessage(w),
         UNCHANGED <<kind, source, entries, sends, job, asked, excused, used>>
  PROVE  Inv' /\ Kept
<1>. USE DEF Inv, PostInv
<1>1. /\ kind = "message" /\ rows' = rows
      /\ \E i \in Items : Due(i) /\ Becomes(w, [proc[w] EXCEPT !.pc = "taking", !.item = i])
  BY DEF PickMessage, SlackDue
<1>2. PICK i \in Items : Due(i) /\ Becomes(w, [proc[w] EXCEPT !.pc = "taking", !.item = i])
  BY <1>1
<1>3. PICK c \in WorkerT : c.pc = "taking" /\ c.item = i /\ Becomes(w, c)
  <2>1. proc[w] \in WorkerT
    BY Fields
  <2>2. LET c == [proc[w] EXCEPT !.pc = "taking", !.item = i]
        IN  c \in WorkerT /\ c.pc = "taking" /\ c.item = i
    BY <2>1 DEF WorkerT
  <2>3. QED  BY <1>2, <2>2
<1>4. /\ proc' \in [Workers -> WorkerT] /\ proc'[w] = c
      /\ \A v \in Workers : v # w => proc'[v] = proc[v]
  BY <1>3, OneMoves
<1>5. rows[i].state = "open"
  BY <1>2 DEF Due
<1>6. Typed' /\ JobHeld'
  BY <1>1, <1>3, <1>4, JobStays DEF Typed
<1>7. Posted'
  BY <1>1, <1>3, <1>4, <1>5 DEF Posted, Working, OnTheWay
<1>8. Kept
  BY DEF Kept, Ledger!ledger, Live
<1>9. QED
  BY <1>1, <1>6, <1>7, <1>8 DEF Exporting, ExportInv, MailInv

LEMMA TakeStep ==
  ASSUME Inv, NEW w \in Workers, claim_due_slack_messages(w)
  PROVE  Inv' /\ Kept
<1>. USE DEF Inv, PostInv
<1>1. PICK i \in Items : i = proc[w].item
  BY Fields
<1>2. /\ proc[w].pc = "taking" /\ Typed /\ rows[i] = Row(w)
      /\ UNCHANGED <<kind, source, entries, sends, job, asked, excused, used>>
  BY <1>1, Fields DEF claim_due_slack_messages, day
<1>3. kind = "message"
  BY <1>2 DEF Typed, ExportInv, MailInv, Exporting, Exports, Mailed
<1>4. CASE Row(w).state = "none"
  <2>1. Becomes(w, Idle) /\ UNCHANGED rows /\ Remembers
    BY <1>2, <1>4 DEF claim_due_slack_messages, Remembers
  <2>2. QED  BY <1>2, <2>1, IdleFacts, MovesOn
<1>5. CASE Row(w).state # "none"
  <2>1. Claimed(w, i, "post")
    BY <1>1, <1>5 DEF claim_due_slack_messages
  <2>2. /\ rows' \in [Items -> RowT] /\ proc' \in [Workers -> WorkerT]
        /\ rows'[i].claim = w /\ ~rows'[i].lapsed
        /\ \A j \in Items : rows'[j].state = rows[j].state
        /\ proc'[w].pc = "renew" /\ proc'[w].item = i
        /\ \A v \in Workers : v # w => proc'[v] = proc[v]
    BY <1>2, <2>1, ClaimedFacts
  <2>3. Typed' /\ JobHeld'
    BY <1>2, <2>2, JobStays DEF Typed
  <2>4. ASSUME excused \cap {"lost", "stall", "overrun"} = {}
        PROVE  /\ \A v \in Workers : v # w => proc'[v].pc = "idle"
               /\ rows[i].state = "open" /\ sends[i] = 0
               /\ \A j \in Items : rows[j].state = "open" => sends[j] = 0
    <3>1. \A v \in Workers : v # w => proc[v].pc = "idle"
      BY <1>2, <2>4, OneRuns
    <3>2. rows[i].state = "open"
      BY <1>1, <1>2, <1>3, <1>5, <2>4 DEF Posted
    <3>3. \A j \in Items : rows[j].state = "open" => sends[j] = 0
      BY <1>2, <1>3, <2>4, <3>1 DEF Posted
    <3>4. QED  BY <2>2, <3>1, <3>2, <3>3
  <2>5. used.queued >= i
    BY <1>1, <1>2, <1>3 DEF Posted
  <2>6. Posted'
    BY <1>2, <1>3, <2>2, <2>4, <2>5 DEF Posted, Working, OnTheWay
  <2>7. Kept
    BY <1>2 DEF Kept, Ledger!ledger, Live
  <2>8. QED  BY <1>2, <1>3, <2>3, <2>6, <2>7 DEF Exporting, ExportInv, MailInv
<1>6. QED  BY <1>4, <1>5

LEMMA ClaimStep ==
  ASSUME Inv, NEW w \in Workers, Claim(w)
  PROVE  Inv' /\ Kept
<1>1. /\ proc[w].pc = "claim" /\ Remembers
      /\ UNCHANGED <<kind, source, entries, sends, job, asked, excused, used>>
  BY DEF Claim, Remembers, day
<1>2. CASE claim_due_jira_worklog_exports(w) \/ claim_due_asana_comment_exports(w)
  <2>1. PICK first : /\ first = (IF kind = "worklog" THEN JiraFirst(rows[1]) ELSE AsanaFirst(rows[1]))
                     /\ Exporting /\ Due(1) /\ Claimed(w, 1, first)
    BY <1>2 DEF claim_due_jira_worklog_exports, claim_due_asana_comment_exports, Exporting
  <2>2. QED  BY <1>1, <2>1, ClaimExport
<1>3. CASE due_scheduled_reports(w)
  BY <1>1, <1>3, ClaimReport DEF due_scheduled_reports
<1>4. CASE PickMessage(w)
  BY <1>1, <1>4, PickMessageStep
<1>5. CASE Becomes(w, Idle) /\ UNCHANGED rows
  BY <1>1, <1>5, IdleFacts, MovesOn
<1>6. QED  BY <1>2, <1>3, <1>4, <1>5 DEF Claim

-----------------------------------------------------------------------------
(***************************************************************************)
(* An export's worker renews its claim, calls the provider and records.    *)
(***************************************************************************)
LiveIn(s) == {i \in DOMAIN s : s[i] # Gone}
AgreesIn(s, pid, total) ==
  IF pid = 0 THEN LiveIn(s) = {} /\ total \in {Never, 0}
  ELSE LiveIn(s) = {pid} /\ s[pid] = total /\ (kind = "worklog" => total > 0)

\* The new state c of a worker at an export, and what the provider then holds.
FitsLedger(c, s) ==
  /\ \A m, n \in LiveIn(s) : m = n
  /\ \A n \in LiveIn(s) : s[n] \in asked
  /\ c.pc \in {"renew", "call"} =>
       /\ c.call = "post" => LiveIn(s) = {}
       /\ c.call = "update" => LiveIn(s) \subseteq {c.pid}
FitsRow(c, s) ==
  /\ c.pc = "mark" => AgreesIn(s, c.pid, c.want)
  /\ c.pc # "mark" => AgreesIn(s, rows[1].pid, rows[1].have)
  /\ c.pc \in {"renew", "call"} =>
       /\ c.pid = rows[1].pid /\ c.call # "update"
       /\ c.call \in {"post", "find", "nothing"} => c.pid = 0
       /\ c.call \in {"nothing", "delete"} => c.want = 0
       /\ c.call = "post" => c.want > 0
       /\ kind = "worklog" /\ c.call \in {"find", "put"} => c.want > 0

\* A worker at an export: where it works, and that it works alone.
LEMMA AtExport ==
  ASSUME Inv, Exporting, NEW w \in Workers, Working(w)
  PROVE  /\ rows[1].state = "open" /\ proc[w].item = 1 /\ proc[w].want \in asked
         /\ Row(w) = rows[1] /\ proc[w].pid \in 0 .. Len(entries)
         /\ "stall" \notin excused =>
              /\ rows[1].claim = w /\ ~rows[1].lapsed
              /\ \A v \in Workers : v # w => ~Working(v)
<1>1. Exports /\ Exclusive
  BY DEF Inv, ExportInv
<1>2. /\ rows[1].state = "open" /\ proc[w].item = 1 /\ proc[w].want \in asked
      /\ proc[w].pid <= Len(entries)
  BY <1>1 DEF Exports
<1>3. proc[w].pid \in Nat /\ Len(entries) \in Nat
  BY Fields DEF Inv
<1>4. "stall" \notin excused => rows[1].claim = w /\ ~rows[1].lapsed
                                /\ \A v \in Workers : v # w => ~Working(v)
  BY <1>1 DEF Exclusive
<1>5. QED  BY <1>2, <1>3, <1>4 DEF Row

\* The provider's side of the ledger, from what it holds after a step.
LEMMA LedgerStep ==
  ASSUME Inv, Exporting, Remembers, UNCHANGED asked, entries' \in Seq(Totalled),
         "stall" \notin excused =>
           /\ \A m, n \in LiveIn(entries') : m = n
           /\ \A n \in LiveIn(entries') : entries'[n] \in asked
  PROVE  Kept
<1>1. CASE "stall" \in excused
  BY <1>1 DEF Kept, Ledger!Next, Ledger!Void, Remembers
<1>2. CASE "stall" \notin excused
  <2>1. ("stall" \in excused)' = ("stall" \in excused)
    BY DEF Remembers
  <2>2. CASE LiveIn(entries') = {}
    <3>1. Ledger!Withdraw
      BY <2>1, <2>2 DEF Ledger!Withdraw, LiveIn, Live
    <3>2. QED  BY <3>1 DEF Kept, Ledger!Next
  <2>3. ASSUME NEW n \in LiveIn(entries')
        PROVE  Kept
    <3>1. LiveIn(entries') = {n} /\ entries'[n] \in asked
      BY <1>2
    <3>2. Live' = {n}
      BY <3>1 DEF Live, LiveIn
    <3>3. {<<m, entries[m]>> : m \in Live}' = {<<n, entries'[n]>>}
      BY <3>2
    <3>4. <<n, entries'[n]>>[2] \in asked
      BY <3>1
    <3>5. \A e, f \in {<<m, entries[m]>> : m \in Live} : e = f
      BY <1>2 DEF Inv, ExportInv, Single
    <3>6. Ledger!Show
      BY <2>1, <3>3, <3>4, <3>5 DEF Ledger!Show
    <3>7. QED  BY <3>6 DEF Kept, Ledger!Next
  <2>4. QED  BY <2>2, <2>3
<1>3. QED  BY <1>1, <1>2

LEMMA ExportMoves ==
  ASSUME Inv, Exporting, NEW w \in Workers, proc[w].pc \in {"renew", "call"},
         NEW c \in WorkerT, Becomes(w, c),
         c.pc \in {"renew", "call", "mark", "fail"}, c.item = 1, c.want = proc[w].want,
         c.pid <= Len(entries'),
         c.pc \in {"renew", "call"} =>
           /\ c.call \in {"nothing", "delete", "find", "put", "update", "post"}
           /\ c.call \in {"delete", "put", "update"} => c.pid # 0,
         entries' \in Seq(Totalled), Len(entries) <= Len(entries'),
         rows' \in [Items -> RowT],
         rows'[1].state = rows[1].state, rows'[1].pid = rows[1].pid,
         rows'[1].have = rows[1].have, rows'[1].want = rows[1].want,
         rows'[1].claim = rows[1].claim, "stall" \notin excused => ~rows'[1].lapsed,
         used' \in Budgets, Remembers, UNCHANGED <<kind, source, sends, job, asked>>,
         "stall" \notin excused => FitsLedger(c, entries'),
         Untroubled' => FitsRow(c, entries')
  PROVE  Inv' /\ Kept
<1>1. /\ proc' \in [Workers -> WorkerT] /\ proc'[w] = c
      /\ \A v \in Workers : v # w => proc'[v] = proc[v]
  BY OneMoves DEF Inv
<1>3. Working(w)
  BY DEF Working
<1>4. /\ rows[1].state = "open" /\ proc[w].item = 1 /\ proc[w].want \in asked
      /\ "stall" \notin excused =>
           /\ rows[1].claim = w /\ ~rows[1].lapsed /\ \A v \in Workers : v # w => ~Working(v)
  BY <1>3, AtExport
<1>6. Typed'
  BY <1>1 DEF Inv, Typed
<1>7. JobHeld'
  BY <1>1, JobStays DEF Remembers
<1>8. Live' = LiveIn(entries')
  BY DEF Live, LiveIn
<1>9. Exports'
  <2>1. Exports /\ Len(entries) \in Nat /\ Len(entries') \in Nat /\ rows[1].pid \in Nat
        /\ \A v \in Workers : proc[v].pid \in Nat
    BY Fields, Constants DEF Inv, ExportInv
  <2>2. ASSUME NEW v \in Workers, v # w, Working(v)
        PROVE  proc[v].pid <= Len(entries')
    BY <2>1, <2>2 DEF Exports
  <2>3. rows'[1].pid <= Len(entries')
    BY <2>1 DEF Exports
  <2>4. QED  BY <1>1, <1>4, <2>1, <2>2, <2>3 DEF Exports, Working, OnTheWay
<1>10. Exclusive'
  BY <1>1, <1>4 DEF Exclusive, Working, Remembers
<1>11. Single'
  BY <1>1, <1>4, <1>8 DEF Single, FitsLedger, OnTheWay, Working, Remembers
<1>12. Delivered'
  <2>. SUFFICES ASSUME Untroubled'  PROVE  Delivered'
    BY DEF Delivered
  <2>1. "stall" \notin excused
    BY DEF Untroubled, Remembers
  <2>2. \A p, t : Agrees(p, t)' <=> AgreesIn(entries', p, t)
    BY <1>8 DEF Agrees, AgreesIn
  <2>3. \A v \in Workers : v # w => proc'[v].pc \notin {"mark", "renew", "call"}
    BY <1>1, <1>4, <2>1 DEF Working
  <2>4. QED  BY <1>1, <2>2, <2>3 DEF Delivered, FitsRow, OnTheWay
<1>13. Kept
  BY LedgerStep DEF FitsLedger
<1>14. QED
  BY <1>6, <1>7, <1>9, <1>10, <1>11, <1>12, <1>13 DEF Inv, ExportInv, MailInv, PostInv, Exporting

\* Renewing keeps what the row says.
LEMMA RenewedRow ==
  ASSUME Typed, NEW i \in Items, rows' = [rows EXCEPT ![i].lapsed = FALSE]
  PROVE  /\ rows' \in [Items -> RowT] /\ ~rows'[i].lapsed
         /\ \A j \in Items :
              /\ j # i => rows'[j] = rows[j]
              /\ rows'[j].state = rows[j].state /\ rows'[j].pid = rows[j].pid
              /\ rows'[j].have = rows[j].have /\ rows'[j].want = rows[j].want
              /\ rows'[j].claim = rows[j].claim
<1>1. rows[i] \in RowT /\ rows \in [Items -> RowT]
  BY Fields DEF Typed
<1>2. PICK r : r = [rows[i] EXCEPT !.lapsed = FALSE]
  OBVIOUS
<1>3. /\ r \in RowT /\ ~r.lapsed /\ r.state = rows[i].state /\ r.pid = rows[i].pid
      /\ r.have = rows[i].have /\ r.want = rows[i].want /\ r.claim = rows[i].claim
  BY <1>1, <1>2 DEF RowT
<1>4. rows' = [rows EXCEPT ![i] = r]
  BY <1>2
<1>5. /\ rows' \in [Items -> RowT] /\ rows'[i] = r /\ \A j \in Items : j # i => rows'[j] = rows[j]
  BY <1>1, <1>3, <1>4
<1>6. QED  BY <1>3, <1>5

\* What the invariants say of the entries before a worker's next step.
LEMMA ExportFits ==
  ASSUME Inv, Exporting, NEW w \in Workers, proc[w].pc \in {"renew", "call"}
  PROVE  /\ "stall" \notin excused => FitsLedger(proc[w], entries)
         /\ Untroubled => FitsRow(proc[w], entries)
<1>1. LiveIn(entries) = Live /\ \A p, t : AgreesIn(entries, p, t) <=> Agrees(p, t)
  BY DEF LiveIn, Live, AgreesIn, Agrees
<1>2. Single /\ Delivered
  BY DEF Inv, ExportInv
<1>3. "stall" \notin excused => \A v \in Workers : v # w => ~Working(v)
  BY AtExport DEF Working
<1>4. Untroubled => \A v \in Workers : proc[v].pc # "mark"
  BY <1>3 DEF Untroubled, Working
<1>5. "stall" \notin excused => FitsLedger(proc[w], entries)
  BY <1>1, <1>2 DEF Single, FitsLedger, OnTheWay
<1>6. Untroubled => FitsRow(proc[w], entries)
  BY <1>1, <1>2, <1>4 DEF Delivered, FitsRow, OnTheWay
<1>7. QED  BY <1>5, <1>6

LEMMA RenewExport ==
  ASSUME Inv, Exporting, NEW w \in Workers, Renew(w)
  PROVE  Inv' /\ Kept
<1>1. /\ proc[w].pc = "renew" /\ Typed /\ Remembers
      /\ UNCHANGED <<kind, source, entries, sends, job, asked, excused, used>>
  BY DEF Renew, Inv, Remembers, day
<1>2. Working(w) /\ Exports
  BY <1>1 DEF Working, Inv, ExportInv
<1>3. /\ rows[1].state = "open" /\ proc[w].item = 1 /\ Row(w) = rows[1]
      /\ proc[w].pid \in 0 .. Len(entries)
      /\ "stall" \notin excused => rows[1].claim = w /\ ~rows[1].lapsed
  BY <1>2, AtExport
<1>4. PICK next \in {"mark", "call", "fail"} :
        /\ Goes(w, next)
        /\ next = "mark" => proc[w].call = "nothing"
        /\ \/ rows' = [rows EXCEPT ![1].lapsed = FALSE]
           \/ rows' = rows /\ rows[1].claim # w /\ next = "fail"
  <2>1. kind = "worklog" \/ kind = "comment"
    BY DEF Exporting
  <2>2. CASE Row(w).claim = w
    <3>1. /\ rows' = [rows EXCEPT ![1].lapsed = FALSE]
          /\ Goes(w, IF proc[w].call = "nothing" THEN "mark" ELSE "call")
      BY <1>3, <2>1, <2>2 DEF Renew, renew_jira_worklog_export_claim, renew_asana_comment_export_claim
    <3>2. QED  BY <3>1
  <2>3. CASE Row(w).claim # w
    BY <1>3, <2>1, <2>3
    DEF Renew, renew_jira_worklog_export_claim, renew_asana_comment_export_claim,
        renew_slack_message_claim
  <2>4. QED  BY <2>2, <2>3
<1>5. PICK c \in WorkerT : /\ Becomes(w, c) /\ c.pc = next /\ c.item = 1 /\ c.want = proc[w].want
                           /\ c.pid = proc[w].pid /\ c.call = proc[w].call
  BY <1>1, <1>3, <1>4, Goer
<1>6. /\ rows' \in [Items -> RowT]
      /\ rows'[1].state = rows[1].state /\ rows'[1].pid = rows[1].pid
      /\ rows'[1].have = rows[1].have /\ rows'[1].want = rows[1].want
      /\ rows'[1].claim = rows[1].claim
      /\ "stall" \notin excused => ~rows'[1].lapsed
  <2>1. CASE rows' = [rows EXCEPT ![1].lapsed = FALSE]
    BY <1>1, <2>1, RenewedRow, Constants
  <2>2. CASE rows' = rows
    BY <1>1, <1>3, <2>2 DEF Typed
  <2>3. QED  BY <1>4, <2>1, <2>2
<1>7. c.pid <= Len(entries')
  BY <1>1, <1>3, <1>5, Fields
<1>8. c.pc \in {"renew", "call"} =>
           /\ c.call \in {"nothing", "delete", "find", "put", "update", "post"}
           /\ c.call \in {"delete", "put", "update"} => c.pid # 0
  BY <1>1, <1>2, <1>5 DEF Exports, OnTheWay
<1>9. entries' = entries /\ entries' \in Seq(Totalled) /\ Len(entries) <= Len(entries') /\ used' \in Budgets
  BY <1>1, Fields DEF Typed
<1>10. "stall" \notin excused => FitsLedger(c, entries')
  BY <1>1, <1>5, <1>9, ExportFits DEF FitsLedger
<1>11. Untroubled' => FitsRow(c, entries')
  <2>1. Untroubled' => Untroubled /\ FitsRow(proc[w], entries)
    BY <1>1, ExportFits DEF Untroubled
  <2>2. Untroubled' /\ next # "mark" => FitsRow(c, entries')
    BY <1>1, <1>4, <1>5, <1>9, <2>1 DEF FitsRow
  <2>3. Untroubled' /\ next = "mark" => FitsRow(c, entries')
    BY <1>1, <1>4, <1>5, <1>9, <2>1 DEF FitsRow, AgreesIn
  <2>4. QED  BY <2>2, <2>3
<1>12. /\ c.pc \in {"renew", "call", "mark", "fail"} /\ proc[w].pc \in {"renew", "call"}
       /\ Becomes(w, c) /\ c.item = 1 /\ c.want = proc[w].want
  BY <1>1, <1>5
<1>13. UNCHANGED <<kind, source, sends, job, asked>> /\ Remembers
  BY <1>1
<1>14. QED  BY <1>6, <1>7, <1>8, <1>9, <1>10, <1>11, <1>12, <1>13, ExportMoves

\* A provider's call: what has to hold of its effect and of the worker then.
LEMMA DeliverStep ==
  ASSUME Inv, Exporting, NEW w \in Workers, proc[w].pc = "call",
         NEW after \in Seq(Totalled), NEW next \in WorkerT, Deliver(w, after, next),
         Len(entries) <= Len(after),
         next.pc \in {"renew", "mark", "fail"}, next.item = 1, next.want = proc[w].want,
         next.pid <= Len(after),
         next.pc = "renew" =>
           /\ next.call \in {"find", "put", "update", "post"}
           /\ next.call \in {"put", "update"} => next.pid # 0,
         "stall" \notin excused => FitsLedger(next, after),
         Untroubled => FitsRow(next, after)
  PROVE  Inv' /\ Kept
<1>1. /\ Answers(w, after, next) /\ Typed /\ UNCHANGED <<kind, source, rows, sends, job, asked>>
  BY DEF Deliver, Inv, day
<1>2. Remembers /\ used' \in Budgets
  <2>1. used \in Budgets
    BY <1>1 DEF Typed
  <2>2. used' = used \/ Fault
    BY <1>1 DEF Answers
  <2>3. QED  BY <1>1, <2>1, <2>2, FaultFacts DEF Answers, Remembers
<1>3. /\ Working(w) /\ rows[1].state = "open" /\ proc[w].item = 1
      /\ proc[w].pid \in 0 .. Len(entries) /\ Len(entries) \in Nat
      /\ "stall" \notin excused => ~rows[1].lapsed
  BY AtExport, Fields DEF Working, Inv
<1>4. /\ rows' \in [Items -> RowT]
      /\ rows'[1].state = rows[1].state /\ rows'[1].pid = rows[1].pid
      /\ rows'[1].have = rows[1].have /\ rows'[1].want = rows[1].want
      /\ rows'[1].claim = rows[1].claim
      /\ "stall" \notin excused => ~rows'[1].lapsed
  BY <1>1, <1>3 DEF Typed
<1>5. CASE entries' = after /\ Becomes(w, next) /\ UNCHANGED excused
  <2>1. Untroubled' => FitsRow(next, entries')
    BY <1>5 DEF Untroubled
  <2>2. "stall" \notin excused => FitsLedger(next, entries')
    BY <1>5
  <2>3. next.pc \in {"renew", "call"} =>
           /\ next.call \in {"nothing", "delete", "find", "put", "update", "post"}
           /\ next.call \in {"delete", "put", "update"} => next.pid # 0
    <3>1. next.pc = "renew" =>
             /\ next.call \in {"find", "put", "update", "post"}
             /\ next.call \in {"put", "update"} => next.pid # 0
      OBVIOUS
    <3>2. QED  BY <3>1
  <2>4. next.pid <= Len(entries') /\ Len(entries) <= Len(entries') /\ entries' \in Seq(Totalled)
    BY <1>5
  <2>5. QED  BY <1>1, <1>2, <1>4, <1>5, <2>1, <2>2, <2>3, <2>4, ExportMoves
<1>6. CASE \/ Goes(w, "fail") /\ UNCHANGED <<entries, excused>>
           \/ Goes(w, "fail") /\ entries' = after /\ "lost" \in excused'
  <2>1. PICK c \in WorkerT : /\ Becomes(w, c) /\ c.pc = "fail" /\ c.item = 1 /\ c.want = proc[w].want
                             /\ c.pid = proc[w].pid
    BY <1>1, <1>3, <1>6, Goer
  <2>2. c.pid <= Len(entries')
    BY <1>3, <1>6, <2>1
  <2>3. "stall" \notin excused => FitsLedger(c, entries')
    BY <1>6, <2>1, ExportFits DEF FitsLedger
  <2>4. Untroubled' => FitsRow(c, entries')
    BY <1>6, <2>1, ExportFits DEF FitsRow, Untroubled
  <2>5. Len(entries) <= Len(entries') /\ entries' \in Seq(Totalled)
    BY <1>1, <1>3, <1>6 DEF Typed
  <2>6. QED  BY <1>1, <1>2, <1>4, <2>1, <2>2, <2>3, <2>4, <2>5, ExportMoves
<1>7. QED
  <2>1. CASE entries' = after /\ Becomes(w, next) /\ UNCHANGED <<excused, used>>
    BY <1>5, <2>1
  <2>2. CASE Goes(w, "fail") /\ UNCHANGED <<entries, excused>>
    BY <1>6, <2>2
  <2>3. CASE Goes(w, "fail") /\ entries' = after /\ excused' = excused \cup {"lost"}
    <3>1. "lost" \in excused'
      BY <2>3
    <3>2. QED  BY <1>6, <2>3, <3>1
  <2>4. QED  BY <1>1, <2>1, <2>2, <2>3 DEF Answers

\* A worker about to call, with what the invariants say of its call.
LEMMA AtCall ==
  ASSUME Inv, Exporting, NEW w \in Workers, proc[w].pc = "call"
  PROVE  /\ Typed /\ proc[w] \in WorkerT /\ proc[w].item = 1 /\ proc[w].want \in Totals \cap asked
         /\ proc[w].pid \in 0 .. Len(entries) /\ Len(entries) \in Nat
         /\ proc[w].call \in {"delete", "put", "update"} => proc[w].pid # 0
         /\ LiveIn(entries) = Live /\ entries \in Seq(Totalled)
         /\ "stall" \notin excused => FitsLedger(proc[w], entries)
         /\ Untroubled => FitsRow(proc[w], entries) /\ "stall" \notin excused
<1>1. Working(w) /\ Exports /\ Typed
  BY DEF Working, Inv, ExportInv
<1>2. proc[w].call \in {"delete", "put", "update"} => proc[w].pid # 0
  BY <1>1 DEF Exports, OnTheWay
<1>3. proc[w] \in WorkerT /\ proc[w].want \in Totals /\ Len(entries) \in Nat
  BY <1>1, Fields
<1>4. proc[w].item = 1 /\ proc[w].want \in asked /\ proc[w].pid \in 0 .. Len(entries)
  BY <1>1, AtExport
<1>5. /\ "stall" \notin excused => FitsLedger(proc[w], entries)
      /\ Untroubled => FitsRow(proc[w], entries)
  BY ExportFits
<1>6. LiveIn(entries) = Live /\ entries \in Seq(Totalled)
  BY <1>1 DEF LiveIn, Live, Typed
<1>7. QED  BY <1>1, <1>2, <1>3, <1>4, <1>5, <1>6 DEF Untroubled

\* What the callers' new states are.
LEMMA ThenFacts ==
  ASSUME NEW w \in Workers, proc[w] \in WorkerT, NEW call \in {"find", "update", "post"}
  PROVE  /\ Then(w, call) \in WorkerT /\ Then(w, call).pc = "renew" /\ Then(w, call).call = call
         /\ Then(w, call).item = proc[w].item /\ Then(w, call).want = proc[w].want
         /\ Then(w, call).pid = proc[w].pid
BY DEF Then, WorkerT

LEMMA RecordsFacts ==
  ASSUME NEW w \in Workers, proc[w] \in WorkerT, NEW pid \in Nat
  PROVE  /\ Records(w, pid) \in WorkerT /\ Records(w, pid).pc = "mark" /\ Records(w, pid).pid = pid
         /\ Records(w, pid).item = proc[w].item /\ Records(w, pid).want = proc[w].want
BY DEF Records, WorkerT

\* Overwriting an entry, or taking it away.
LEMMA OverwriteFacts ==
  ASSUME NEW s \in Seq(Totalled), NEW after \in Seq(Totalled), Len(after) = Len(s),
         NEW n \in 1 .. Len(s),
         \A m \in 1 .. Len(s) : m # n => after[m] = s[m]
  PROVE  /\ \A m \in LiveIn(after) : m # n => m \in LiveIn(s) /\ after[m] = s[m]
         /\ n \in LiveIn(after) <=> after[n] # Gone
BY DEF LiveIn

LEMMA DeleteStep ==
  ASSUME Inv, kind = "worklog", NEW w \in Workers, DeleteWorklog(w)
  PROVE  Inv' /\ Kept
<1>1. Exporting /\ proc[w].pc = "call" /\ proc[w].call = "delete"
  BY DEF Exporting, DeleteWorklog, Calling
<1>2. PICK n : n = proc[w].pid
  OBVIOUS
<1>3. /\ proc[w] \in WorkerT /\ proc[w].item = 1 /\ n \in 1 .. Len(entries)
      /\ entries \in Seq(Totalled) /\ Len(entries) \in Nat
      /\ "stall" \notin excused => FitsLedger(proc[w], entries)
      /\ Untroubled => FitsRow(proc[w], entries)
  BY <1>1, <1>2, AtCall
<1>4. PICK after : after = [entries EXCEPT ![n] = Gone]
  OBVIOUS
<1>5. /\ after \in Seq(Totalled) /\ Len(after) = Len(entries)
      /\ \A m \in LiveIn(after) : m # n /\ m \in LiveIn(entries) /\ after[m] = entries[m]
  <2>1. Gone \in Totalled
    BY DEF Totalled
  <2>2. /\ after \in Seq(Totalled) /\ Len(after) = Len(entries) /\ after[n] = Gone
        /\ \A m \in 1 .. Len(entries) : m # n => after[m] = entries[m]
    BY <1>3, <1>4, <2>1
  <2>3. QED  BY <1>3, <2>2, OverwriteFacts
<1>6. PICK next \in WorkerT : /\ next = Records(w, 0) /\ next.pc = "mark" /\ next.pid = 0
                              /\ next.item = 1 /\ next.want = proc[w].want
  BY <1>3, RecordsFacts
<1>7. "stall" \notin excused => FitsLedger(next, after)
  BY <1>3, <1>5, <1>6 DEF FitsLedger
<1>8. Untroubled => FitsRow(next, after)
  <2>. SUFFICES ASSUME Untroubled  PROVE  FitsRow(next, after)
    OBVIOUS
  <2>1. proc[w].want = 0 /\ rows[1].pid = n /\ n # 0 /\ LiveIn(entries) = {n}
    BY <1>1, <1>2, <1>3 DEF FitsRow, AgreesIn
  <2>2. LiveIn(after) = {}
    BY <1>5, <2>1
  <2>3. QED  BY <1>6, <2>1, <2>2 DEF FitsRow, AgreesIn
<1>9. Deliver(w, after, next)
  BY <1>2, <1>4, <1>6 DEF DeleteWorklog
<1>10. Len(entries) <= Len(after) /\ next.pid <= Len(after)
  BY <1>3, <1>5, <1>6
<1>11. QED  BY <1>1, <1>5, <1>6, <1>7, <1>8, <1>9, <1>10, DeliverStep

\* The entry n is written with the worker's total.
LEMMA WritesEntry ==
  ASSUME Inv, Exporting, NEW w \in Workers, proc[w].pc = "call",
         NEW n, n = proc[w].pid, n # 0, entries[n] # Gone,
         Untroubled => proc[w].call = "put",
         Deliver(w, [entries EXCEPT ![n] = proc[w].want], Records(w, n))
  PROVE  Inv' /\ Kept
<1>1. /\ proc[w] \in WorkerT /\ proc[w].item = 1 /\ n \in 1 .. Len(entries)
      /\ proc[w].want \in Totals \cap asked
      /\ entries \in Seq(Totalled) /\ Len(entries) \in Nat
      /\ "stall" \notin excused => FitsLedger(proc[w], entries)
      /\ Untroubled => FitsRow(proc[w], entries) /\ "stall" \notin excused
  BY AtCall
<1>2. PICK after : after = [entries EXCEPT ![n] = proc[w].want]
  OBVIOUS
<1>3. /\ after \in Seq(Totalled) /\ Len(after) = Len(entries) /\ after[n] = proc[w].want
      /\ \A m \in LiveIn(after) : m # n => m \in LiveIn(entries) /\ after[m] = entries[m]
      /\ n \in LiveIn(after) /\ n \in LiveIn(entries)
  <2>1. proc[w].want \in Totalled /\ proc[w].want # Gone
    BY <1>1, Constants DEF Totalled
  <2>2. n \in LiveIn(entries)
    BY <1>1 DEF LiveIn
  <2>3. /\ after \in Seq(Totalled) /\ Len(after) = Len(entries) /\ after[n] = proc[w].want
        /\ \A m \in 1 .. Len(entries) : m # n => after[m] = entries[m]
    BY <1>1, <1>2, <2>1
  <2>4. QED  BY <1>1, <2>1, <2>2, <2>3, OverwriteFacts
<1>4. PICK next \in WorkerT : /\ next = Records(w, n) /\ next.pc = "mark" /\ next.pid = n
                              /\ next.item = 1 /\ next.want = proc[w].want
  BY <1>1, RecordsFacts
<1>5. "stall" \notin excused => FitsLedger(next, after)
  BY <1>1, <1>3, <1>4 DEF FitsLedger
<1>6. Untroubled => FitsRow(next, after)
  <2>. SUFFICES ASSUME Untroubled  PROVE  FitsRow(next, after)
    OBVIOUS
  <2>1. kind = "worklog" => proc[w].want > 0
    BY <1>1 DEF FitsRow
  <2>2. LiveIn(after) = {n}
    BY <1>1, <1>3 DEF FitsLedger
  <2>3. QED  BY <1>3, <1>4, <2>1, <2>2 DEF FitsRow, AgreesIn
<1>7. Deliver(w, after, next)
  BY <1>2, <1>4
<1>8. Len(entries) <= Len(after) /\ next.pid <= Len(after)
  BY <1>1, <1>3, <1>4
<1>9. QED  BY <1>3, <1>4, <1>5, <1>6, <1>7, <1>8, DeliverStep

\* The provider is only asked, and the caller goes on to look or to write.
LEMMA OnlyAsks ==
  ASSUME Inv, Exporting, NEW w \in Workers, proc[w].pc = "call",
         NEW next \in WorkerT, Deliver(w, entries, next), next.pc \in {"renew", "mark", "fail"},
         next.item = 1, next.want = proc[w].want, next.pid \in 0 .. Len(entries),
         next.pc = "renew" =>
           /\ next.call \in {"find", "put", "update", "post"}
           /\ next.call \in {"put", "update"} => next.pid # 0
           /\ next.call = "post" => "stall" \in excused \/ Live = {}
           /\ next.call = "update" => Live \subseteq {next.pid},
         Untroubled => FitsRow(next, entries)
  PROVE  Inv' /\ Kept
<1>1. /\ entries \in Seq(Totalled) /\ Len(entries) \in Nat /\ LiveIn(entries) = Live
      /\ "stall" \notin excused => FitsLedger(proc[w], entries)
  BY AtCall
<1>2. "stall" \notin excused => FitsLedger(next, entries)
  BY <1>1 DEF FitsLedger
<1>3. Len(entries) <= Len(entries) /\ next.pid <= Len(entries)
  BY <1>1
<1>4. QED  BY <1>1, <1>2, <1>3, DeliverStep

LEMMA PutFirstStep ==
  ASSUME Inv, Exporting, NEW w \in Workers, PutFirst(w)
  PROVE  Inv' /\ Kept
<1>1. proc[w].pc = "call" /\ proc[w].call = "put"
  BY DEF PutFirst, Calling
<1>2. PICK n : n = proc[w].pid
  OBVIOUS
<1>3. /\ proc[w] \in WorkerT /\ proc[w].item = 1 /\ n \in 1 .. Len(entries)
      /\ Untroubled => FitsRow(proc[w], entries)
  BY <1>1, <1>2, AtCall
<1>4. CASE entries[n] = Gone
  <2>1. PICK next \in WorkerT :
          /\ next = Then(w, "find") /\ next.pc = "renew" /\ next.call = "find" /\ next.item = 1
          /\ next.want = proc[w].want /\ next.pid = n
    BY <1>2, <1>3, ThenFacts
  <2>2. Deliver(w, entries, next)
    BY <1>2, <1>4, <2>1 DEF PutFirst
  <2>3. ~Untroubled
    <3>1. Untroubled => n \in LiveIn(entries)
      BY <1>1, <1>2, <1>3 DEF FitsRow, AgreesIn
    <3>2. QED  BY <1>4, <3>1 DEF LiveIn
  <2>4. next.pid \in 0 .. Len(entries)
    BY <1>3, <2>1
  <2>5. QED  BY <1>1, <2>1, <2>2, <2>3, <2>4, OnlyAsks
<1>5. CASE entries[n] # Gone
  <2>1. Deliver(w, [entries EXCEPT ![n] = proc[w].want], Records(w, n)) /\ n # 0
    BY <1>2, <1>3, <1>5 DEF PutFirst
  <2>2. QED  BY <1>1, <1>2, <1>5, <2>1, WritesEntry
<1>6. QED  BY <1>4, <1>5

LEMMA NoneFoundStep ==
  ASSUME Inv, Exporting, NEW w \in Workers, proc[w].pc = "call", proc[w].call = "find", Live = {},
         \/ kind = "worklog" /\ Deliver(w, entries, NoneFound(w))
         \/ kind = "comment" /\ proc[w].want # 0 /\ Deliver(w, entries, NoneFound(w))
         \/ kind = "comment" /\ proc[w].want = 0 /\ Deliver(w, entries, Records(w, 0))
  PROVE  Inv' /\ Kept
<1>1. /\ proc[w] \in WorkerT /\ proc[w].item = 1 /\ proc[w].pid \in 0 .. Len(entries)
      /\ Len(entries) \in Nat /\ proc[w].want \in Nat /\ LiveIn(entries) = {}
      /\ Untroubled => FitsRow(proc[w], entries)
  BY AtCall, Constants
<1>2. CASE Deliver(w, entries, NoneFound(w)) /\ (kind = "worklog" \/ proc[w].want # 0)
  <2>1. PICK next \in WorkerT :
          /\ next = NoneFound(w) /\ next.pc = "renew" /\ next.call = "post" /\ next.item = 1
          /\ next.want = proc[w].want /\ next.pid = proc[w].pid
    BY <1>1, ThenFacts DEF NoneFound
  <2>2. Untroubled => FitsRow(next, entries)
    <3>1. Untroubled /\ kind = "worklog" => proc[w].want > 0
      BY <1>1 DEF FitsRow
    <3>2. Untroubled => proc[w].want > 0
      BY <1>1, <1>2, <3>1
    <3>3. QED  BY <1>1, <2>1, <3>2 DEF FitsRow
  <2>3. QED  BY <1>1, <1>2, <2>1, <2>2, OnlyAsks
<1>3. CASE Deliver(w, entries, Records(w, 0)) /\ kind = "comment" /\ proc[w].want = 0
  <2>1. PICK next \in WorkerT : /\ next = Records(w, 0) /\ next.pc = "mark" /\ next.pid = 0
                                /\ next.item = 1 /\ next.want = proc[w].want
    BY <1>1, RecordsFacts
  <2>2. FitsRow(next, entries)
    BY <1>1, <1>3, <2>1 DEF FitsRow, AgreesIn
  <2>3. next.pid \in 0 .. Len(entries)
    BY <1>1, <2>1
  <2>4. QED  BY <1>3, <2>1, <2>2, <2>3, OnlyAsks
<1>4. QED  BY <1>2, <1>3

LEMMA FindStep ==
  ASSUME Inv, Exporting, NEW w \in Workers, Find(w)
  PROVE  Inv' /\ Kept
<1>1. proc[w].pc = "call" /\ proc[w].call = "find"
  BY DEF Find, Calling
<1>2. /\ proc[w] \in WorkerT /\ proc[w].item = 1 /\ proc[w].pid \in 0 .. Len(entries) /\ Typed
      /\ LiveIn(entries) = Live
      /\ Untroubled => FitsRow(proc[w], entries)
  BY <1>1, AtCall
<1>3. CASE NoneFoundJira(w) \/ NoneFoundAsana(w)
  BY <1>1, <1>3, NoneFoundStep DEF NoneFoundJira, NoneFoundAsana
<1>4. CASE OneFound(w)
  <2>1. PICK n \in Live : Live = {n} /\ Deliver(w, entries, [Then(w, "update") EXCEPT !.pid = n])
    BY <1>4 DEF OneFound
  <2>2. n \in 1 .. Len(entries)
    BY <1>2, LiveFacts
  <2>3. PICK next \in WorkerT :
          /\ next = [Then(w, "update") EXCEPT !.pid = n] /\ next.pc = "renew"
          /\ next.call = "update" /\ next.item = 1 /\ next.want = proc[w].want /\ next.pid = n
    <3>1. PICK c \in WorkerT : /\ c = Then(w, "update") /\ c.pc = "renew" /\ c.call = "update"
                               /\ c.item = 1 /\ c.want = proc[w].want
      BY <1>2, ThenFacts
    <3>2. PICK next : next = [c EXCEPT !.pid = n]
      OBVIOUS
    <3>3. next \in WorkerT /\ next.pc = "renew" /\ next.call = "update" /\ next.item = 1
          /\ next.want = proc[w].want /\ next.pid = n
      BY <2>2, <3>1, <3>2 DEF WorkerT
    <3>4. QED  BY <3>1, <3>2, <3>3
  <2>4. ~Untroubled
    BY <1>1, <1>2, <2>1 DEF FitsRow, AgreesIn
  <2>5. next.pid \in 0 .. Len(entries) /\ next.pid # 0
    BY <1>2, <2>2, <2>3
  <2>6. QED  BY <1>1, <2>1, <2>3, <2>4, <2>5, OnlyAsks
<1>5. CASE SeveralFound(w)
  <2>1. PICK next \in WorkerT : /\ next = [proc[w] EXCEPT !.pc = "fail"] /\ next.pc = "fail"
                                /\ next.item = 1 /\ next.want = proc[w].want /\ next.pid = proc[w].pid
    <3>1. PICK next : next = [proc[w] EXCEPT !.pc = "fail"]
      OBVIOUS
    <3>2. /\ next \in WorkerT /\ next.pc = "fail" /\ next.item = 1 /\ next.want = proc[w].want
          /\ next.pid = proc[w].pid
      BY <1>2, <3>1 DEF WorkerT
    <3>3. QED  BY <3>1, <3>2
  <2>2. Untroubled => FitsRow(next, entries)
    BY <1>1, <1>2, <2>1 DEF FitsRow
  <2>3. QED  BY <1>1, <1>2, <1>5, <2>1, <2>2, OnlyAsks DEF SeveralFound
<1>6. QED  BY <1>3, <1>4, <1>5 DEF Find

LEMMA PutFoundStep ==
  ASSUME Inv, Exporting, NEW w \in Workers, PutFound(w)
  PROVE  Inv' /\ Kept
<1>1. proc[w].pc = "call" /\ proc[w].call = "update"
  BY DEF PutFound, Calling
<1>2. PICK n : n = proc[w].pid
  OBVIOUS
<1>3. /\ proc[w] \in WorkerT /\ proc[w].item = 1 /\ n \in 1 .. Len(entries)
      /\ LiveIn(entries) = Live
      /\ "stall" \notin excused => FitsLedger(proc[w], entries)
      /\ ~Untroubled
  <2>1. /\ "stall" \notin excused => FitsLedger(proc[w], entries)
        /\ Untroubled => FitsRow(proc[w], entries)
    BY <1>1, AtCall
  <2>2. proc[w] \in WorkerT /\ proc[w].item = 1 /\ n \in 1 .. Len(entries) /\ LiveIn(entries) = Live
    BY <1>1, <1>2, AtCall
  <2>3. QED  BY <1>1, <2>1, <2>2 DEF FitsRow
<1>4. CASE entries[n] = Gone
  <2>1. Deliver(w, entries, IF kind = "worklog" THEN Then(w, "post") ELSE [proc[w] EXCEPT !.pc = "fail"])
    BY <1>2, <1>4 DEF PutFound
  <2>2. PICK next \in WorkerT :
          /\ Deliver(w, entries, next) /\ next.item = 1 /\ next.want = proc[w].want /\ next.pid = n
          /\ (next.pc = "renew" /\ next.call = "post") \/ next.pc = "fail"
    <3>1. CASE kind = "worklog"
      BY <1>2, <1>3, <2>1, <3>1, ThenFacts
    <3>2. CASE kind # "worklog"
      <4>1. PICK next : next = [proc[w] EXCEPT !.pc = "fail"]
        OBVIOUS
      <4>2. next \in WorkerT /\ next.item = 1 /\ next.want = proc[w].want /\ next.pid = n /\ next.pc = "fail"
        BY <1>2, <1>3, <4>1 DEF WorkerT
      <4>3. QED  BY <2>1, <3>2, <4>1, <4>2
    <3>3. QED  BY <3>1, <3>2
  <2>3. "stall" \notin excused => Live = {}
    <3>1. "stall" \notin excused => LiveIn(entries) \subseteq {n}
      BY <1>1, <1>2, <1>3 DEF FitsLedger
    <3>2. n \notin LiveIn(entries)
      BY <1>4 DEF LiveIn
    <3>3. QED  BY <1>3, <3>1, <3>2
  <2>4. next.pid \in 0 .. Len(entries)
    BY <1>3, <2>2
  <2>5. QED  BY <1>1, <1>3, <2>2, <2>3, <2>4, OnlyAsks
<1>5. CASE entries[n] # Gone
  <2>1. Deliver(w, [entries EXCEPT ![n] = proc[w].want], Records(w, n)) /\ n # 0
    BY <1>2, <1>3, <1>5 DEF PutFound
  <2>2. QED  BY <1>1, <1>2, <1>3, <1>5, <2>1, WritesEntry
<1>6. QED  BY <1>4, <1>5

LEMMA CreateStep ==
  ASSUME Inv, NEW w \in Workers, CreateEntry(w)
  PROVE  Inv' /\ Kept
<1>1. Exporting /\ proc[w].pc = "call" /\ proc[w].call = "post"
  BY DEF CreateEntry, Calling
<1>2. /\ proc[w] \in WorkerT /\ proc[w].item = 1 /\ proc[w].want \in Totals \cap asked
      /\ entries \in Seq(Totalled) /\ Len(entries) \in Nat
      /\ "stall" \notin excused => FitsLedger(proc[w], entries)
      /\ Untroubled => FitsRow(proc[w], entries) /\ "stall" \notin excused
  BY <1>1, AtCall
<1>3. PICK n : n = Len(entries) + 1
  OBVIOUS
<1>4. PICK after : after = Append(entries, proc[w].want)
  OBVIOUS
<1>5. /\ after \in Seq(Totalled) /\ Len(after) = n /\ after[n] = proc[w].want /\ n \in Nat
      /\ \A m \in 1 .. Len(entries) : after[m] = entries[m]
  <2>1. proc[w].want \in Totalled
    BY <1>2 DEF Totalled
  <2>2. QED  BY <1>2, <1>3, <1>4, <2>1
<1>6. LiveIn(entries) = {} => LiveIn(after) = {n}
  <2>1. DOMAIN after = 1 .. n /\ DOMAIN entries = 1 .. Len(entries) /\ after[n] # Gone /\ n \in 1 .. n
    BY <1>2, <1>3, <1>5, Constants
  <2>2. \A m \in 1 .. n : m = n \/ m \in 1 .. Len(entries)
    BY <1>2, <1>3
  <2>3. QED  BY <1>5, <2>1, <2>2 DEF LiveIn
<1>7. PICK next \in WorkerT : /\ next = Records(w, n) /\ next.pc = "mark" /\ next.pid = n
                              /\ next.item = 1 /\ next.want = proc[w].want
  BY <1>2, <1>5, RecordsFacts
<1>8. "stall" \notin excused => LiveIn(after) = {n}
  BY <1>1, <1>2, <1>6 DEF FitsLedger
<1>9. "stall" \notin excused => FitsLedger(next, after)
  BY <1>2, <1>5, <1>7, <1>8 DEF FitsLedger
<1>10. Untroubled => FitsRow(next, after)
  <2>1. Untroubled => proc[w].want > 0 /\ n # 0
    BY <1>1, <1>2, <1>3 DEF FitsRow
  <2>2. QED  BY <1>2, <1>5, <1>7, <1>8, <2>1 DEF FitsRow, AgreesIn
<1>11. Deliver(w, after, next)
  BY <1>3, <1>4, <1>7 DEF CreateEntry
<1>12. Len(entries) <= Len(after) /\ next.pid <= Len(after)
  BY <1>2, <1>3, <1>5, <1>7
<1>13. QED  BY <1>1, <1>5, <1>7, <1>9, <1>10, <1>11, <1>12, DeliverStep

LEMMA CallSteps ==
  ASSUME Inv, NEW w \in Workers,
         \/ deliver_claimed_worklog(w) \/ deliver_claimed_comment(w)
         \/ find_export_worklog(w) \/ find_export_story(w)
  PROVE  Inv' /\ Kept
<1>1. kind \in {"worklog", "comment"} => Exporting
  BY DEF Exporting
<1>2. CASE deliver_claimed_worklog(w) \/ deliver_claimed_comment(w)
  BY <1>1, <1>2, DeleteStep, PutFirstStep, PutFoundStep, CreateStep
  DEF deliver_claimed_worklog, deliver_claimed_comment
<1>3. CASE find_export_worklog(w) \/ find_export_story(w)
  BY <1>1, <1>3, FindStep DEF find_export_worklog, find_export_story
<1>4. QED  BY <1>2, <1>3

-----------------------------------------------------------------------------
(***************************************************************************)
(* Mails and messages go out.                                              *)
(***************************************************************************)
LEMMA RenewMessage ==
  ASSUME Inv, kind \in {"message", "report"}, NEW w \in Workers, Renew(w)
  PROVE  Inv' /\ Kept
<1>. USE DEF Inv, MailInv, PostInv
<1>1. PICK i \in Items : i = proc[w].item
  BY Fields
<1>2. /\ proc[w].pc = "renew" /\ Typed /\ Row(w) = rows[i]
      /\ UNCHANGED <<kind, source, entries, sends, job, asked, excused, used>>
  BY <1>1, Fields DEF Renew, day
<1>3. kind = "message" /\ Posted
  BY <1>2 DEF Mailed, Working
<1>4. PICK next \in {"mark", "call", "fail"} :
        /\ Goes(w, next)
        /\ \/ rows' = [rows EXCEPT ![i].lapsed = FALSE] /\ next # "fail"
           \/ rows' = rows /\ next = "fail" /\ ~(rows[i].claim = w /\ rows[i].state = "open")
  <2>1. CASE renew_slack_message_claim(w)
    <3>1. /\ rows' = [rows EXCEPT ![i].lapsed = FALSE]
          /\ Goes(w, IF proc[w].call = "nothing" THEN "mark" ELSE "call")
      BY <1>1, <2>1 DEF Renew
    <3>2. QED  BY <3>1
  <2>2. CASE ~renew_slack_message_claim(w)
    <3>1. UNCHANGED rows /\ Goes(w, "fail")
      BY <1>3, <2>2
      DEF Renew, renew_jira_worklog_export_claim, renew_asana_comment_export_claim
    <3>2. ~(rows[i].claim = w /\ rows[i].state = "open")
      BY <1>2, <1>3, <2>2 DEF renew_slack_message_claim
    <3>3. QED  BY <3>1, <3>2
  <2>3. QED  BY <2>1, <2>2
<1>5. PICK c \in WorkerT : Becomes(w, c) /\ c.pc = next /\ c.item = i
  BY <1>1, <1>2, <1>4, Goer
<1>6. /\ proc' \in [Workers -> WorkerT] /\ proc'[w] = c
      /\ \A v \in Workers : v # w => proc'[v] = proc[v]
  BY <1>2, <1>5, OneMoves
<1>7. /\ rows' \in [Items -> RowT]
      /\ \A j \in Items :
           /\ rows'[j].state = rows[j].state /\ rows'[j].claim = rows[j].claim
           /\ ~rows[j].lapsed => ~rows'[j].lapsed
  <2>1. CASE rows' = rows
    BY <1>2, <2>1 DEF Typed
  <2>2. CASE rows' = [rows EXCEPT ![i].lapsed = FALSE]
    BY <1>2, <2>2, RenewedRow
  <2>3. QED  BY <1>4, <2>1, <2>2
<1>8. Typed' /\ JobHeld'
  BY <1>2, <1>6, <1>7, JobStays DEF Typed
<1>9. Posted'
  <2>1. used.queued >= i
    BY <1>1, <1>2, <1>3 DEF Posted, Working
  <2>2. ASSUME excused \cap {"lost", "stall", "overrun"} = {}
        PROVE  /\ \A v \in Workers : v # w => proc'[v].pc = "idle"
               /\ \A j \in Items : rows[j].state = "open" => sends[j] = 0
               /\ sends[i] = 0
               /\ \/ rows[i].state = "none"
                  \/ rows[i].claim = w /\ ~rows[i].lapsed /\ rows[i].state = "open"
    <3>1. \A v \in Workers : v # w => proc[v].pc = "idle"
      BY <1>2, <2>2, OneRuns
    <3>2. \A j \in Items : rows[j].state = "open" => sends[j] = 0
      BY <1>2, <1>3, <2>2, <3>1 DEF Posted
    <3>3. /\ sends[i] = 0
          /\ \/ rows[i].state = "none"
             \/ rows[i].claim = w /\ ~rows[i].lapsed /\ rows[i].state = "open"
      BY <1>1, <1>2, <1>3, <2>2 DEF Posted, Working, OnTheWay
    <3>4. QED  BY <1>6, <3>1, <3>2, <3>3
  <2>3. QED  BY <1>2, <1>3, <1>4, <1>5, <1>6, <1>7, <2>1, <2>2 DEF Posted, Working, OnTheWay
<1>10. Kept
  BY <1>2 DEF Kept, Ledger!ledger, Live
<1>11. QED  BY <1>2, <1>3, <1>8, <1>9, <1>10 DEF Exporting, ExportInv

LEMMA RenewStep ==
  ASSUME Inv, NEW w \in Workers, Renew(w)
  PROVE  Inv' /\ Kept
<1>1. Exporting \/ kind \in {"message", "report"}
  BY DEF Inv, Typed, Exporting
<1>2. QED  BY <1>1, RenewExport, RenewMessage

\* A worker that calls and finds nothing to call with.
LEMMA GivesUp ==
  ASSUME Inv, kind \in {"message", "report"}, NEW w \in Workers, proc[w].pc = "call",
         Goes(w, "fail"), used' \in Budgets, used'.queued = used.queued,
         UNCHANGED <<kind, source, rows, entries, sends, job, asked, excused>>
  PROVE  Inv' /\ Kept
<1>. USE DEF Inv, MailInv, PostInv
<1>1. PICK c \in WorkerT : Becomes(w, c) /\ c.pc = "fail" /\ c.item = proc[w].item
  BY Goer
<1>2. /\ proc' \in [Workers -> WorkerT] /\ proc'[w] = c
      /\ \A v \in Workers : v # w => proc'[v] = proc[v]
  BY <1>1, OneMoves
<1>3. Typed' /\ JobHeld'
  BY <1>2, JobStays DEF Typed
<1>4. kind = "report" => Mailed'
  BY <1>1, <1>2 DEF Mailed, Working
<1>5. kind = "message" => Posted'
  BY <1>1, <1>2, Fields DEF Posted, Working, OnTheWay
<1>6. Kept
  BY DEF Kept, Ledger!ledger, Live
<1>7. QED  BY <1>3, <1>4, <1>5, <1>6 DEF Exporting, ExportInv

\* One more went out; the worker is about to record it, or its answer is lost.
LEMMA Sent ==
  ASSUME Inv, kind \in {"message", "report"}, NEW w \in Workers, proc[w].pc = "call",
         sends' = [sends EXCEPT ![proc[w].item] = @ + 1],
         NEW next \in {"mark", "fail"}, Goes(w, next),
         used' \in Budgets, used'.queued = used.queued, Remembers,
         next = "fail" => "lost" \in excused',
         UNCHANGED <<kind, source, rows, entries, job, asked>>
  PROVE  Inv' /\ Kept
<1>. USE DEF Inv, MailInv, PostInv
<1>1. PICK i \in Items : i = proc[w].item
  BY Fields
<1>2. PICK c \in WorkerT : Becomes(w, c) /\ c.pc = next /\ c.item = i
  BY <1>1, Goer
<1>3. /\ proc' \in [Workers -> WorkerT] /\ proc'[w] = c
      /\ \A v \in Workers : v # w => proc'[v] = proc[v]
  BY <1>2, OneMoves
<1>4. /\ sends' \in [Items -> Nat] /\ sends'[i] = sends[i] + 1 /\ sends[i] \in Nat
      /\ \A j \in Items : j # i => sends'[j] = sends[j]
  BY <1>1 DEF Typed
<1>5. Typed'
  BY <1>3, <1>4 DEF Typed
<1>6. JobHeld'
  BY <1>2, <1>3, JobStays DEF Remembers
<1>7. ASSUME kind = "report"
      PROVE  Mailed'
  <2>1. Mailed /\ Working(w) /\ i = 1
    BY <1>1, <1>7 DEF Mailed, Working
  <2>2. sends'[2] = 0
    BY <1>4, <2>1, Constants DEF Mailed
  <2>3. ASSUME "lost" \notin excused', "stall" \notin excused'
        PROVE  /\ next = "mark" /\ sends'[1] = 1
               /\ \A v \in Workers : v # w => ~Working(v)
               /\ rows[1].state = "none" \/ (rows[1].claim = w /\ ~rows[1].lapsed)
    <3>1. excused \cap {"lost", "stall"} = {}
      BY <2>3 DEF Remembers
    <3>2. QED  BY <1>4, <2>1, <2>3, <3>1 DEF Mailed
  <2>4. QED  BY <1>2, <1>3, <2>1, <2>2, <2>3 DEF Mailed, Working
<1>8. ASSUME kind = "message"
      PROVE  Posted'
  <2>1. Posted /\ used.queued >= i
    BY <1>1, <1>8 DEF Posted, Working
  <2>2. \A j \in Items : used'.queued < j => sends'[j] = 0
    BY <1>4, <2>1, Fields DEF Posted, Items
  <2>3. ASSUME excused' \cap {"lost", "stall", "overrun"} = {}
        PROVE  /\ next = "mark"
               /\ \A v \in Workers : v # w => proc'[v].pc = "idle"
               /\ \A j \in Items : sends'[j] <= 1
               /\ \/ rows[i].state = "none"
                  \/ rows[i].claim = w /\ ~rows[i].lapsed /\ rows[i].state = "open"
               /\ \A j \in Items : j # i /\ rows[j].state = "open" => sends'[j] = 0
    <3>1. excused \cap {"lost", "stall", "overrun"} = {}
      BY <2>3 DEF Remembers
    <3>2. \A v \in Workers : v # w => proc[v].pc = "idle"
      BY <3>1, OneRuns
    <3>3. \A j \in Items : rows[j].state = "open" => sends[j] = 0
      BY <2>1, <3>1, <3>2 DEF Posted
    <3>4. /\ sends[i] = 0
          /\ \/ rows[i].state = "none"
             \/ rows[i].claim = w /\ ~rows[i].lapsed /\ rows[i].state = "open"
      BY <1>1, <2>1, <3>1 DEF Posted, Working, OnTheWay
    <3>5. \A j \in Items : sends'[j] <= 1
      <4>1. \A j \in Items : sends[j] <= 1
        BY <2>1, <3>1 DEF Posted
      <4>2. QED  BY <1>4, <3>4, <4>1
    <3>6. QED  BY <1>3, <1>4, <2>3, <3>2, <3>3, <3>4, <3>5
  <2>4. QED  BY <1>2, <1>3, <2>1, <2>2, <2>3 DEF Posted, Working, OnTheWay
<1>9. Kept
  BY DEF Kept, Ledger!ledger, Live, Remembers
<1>10. QED  BY <1>5, <1>6, <1>7, <1>8, <1>9 DEF Exporting, ExportInv

LEMMA GoesOutStep ==
  ASSUME Inv, kind \in {"message", "report"}, NEW w \in Workers, proc[w].pc = "call", GoesOut(w)
  PROVE  Inv' /\ Kept
<1>1. UNCHANGED <<kind, source, rows, entries, job, asked>> /\ Typed
  BY DEF GoesOut, Inv, day
<1>2. CASE /\ sends' = [sends EXCEPT ![proc[w].item] = @ + 1] /\ Goes(w, "mark")
           /\ UNCHANGED <<excused, used>>
  <2>1. Remembers /\ used' \in Budgets /\ used'.queued = used.queued
    BY <1>1, <1>2 DEF Remembers, Typed
  <2>2. QED  BY <1>1, <1>2, <2>1, Sent
<1>3. CASE /\ Fault /\ Goes(w, "fail")
           /\ sends' = [sends EXCEPT ![proc[w].item] = @ + 1] /\ excused' = excused \cup {"lost"}
  <2>1. Remembers /\ used' \in Budgets /\ used'.queued = used.queued /\ "lost" \in excused'
    BY <1>1, <1>3, FaultFacts DEF Remembers
  <2>2. QED  BY <1>1, <1>3, <2>1, Sent
<1>4. CASE Fault /\ Goes(w, "fail") /\ UNCHANGED <<sends, excused>>
  BY <1>1, <1>4, FaultFacts, GivesUp
<1>5. QED  BY <1>2, <1>3, <1>4 DEF GoesOut

LEMMA SendSteps ==
  ASSUME Inv, NEW w \in Workers, PostMessage(w) \/ SendReport(w)
  PROVE  Inv' /\ Kept
<1>1. kind \in {"message", "report"} /\ proc[w].pc = "call" /\ Typed
  BY DEF PostMessage, SendReport, Calling, Inv
<1>2. CASE GoesOut(w)
  BY <1>1, <1>2, GoesOutStep
<1>3. CASE Goes(w, "fail") /\ UNCHANGED <<kind, link, mode, day, rows, entries, sends, job, asked, excused, used>>
  <2>1. UNCHANGED <<kind, source, rows, entries, sends, job, asked, excused, used>> /\ used' \in Budgets
    BY <1>1, <1>3 DEF day, Typed
  <2>2. QED  BY <1>1, <1>3, <2>1, GivesUp
<1>4. QED  BY <1>2, <1>3 DEF PostMessage, SendReport

-----------------------------------------------------------------------------
(***************************************************************************)
(* The outcome is recorded, if the claim is still the worker's.            *)
(***************************************************************************)
LEMMA AfterFacts ==
  ASSUME Typed, NEW w \in Workers, After(w)
  PROVE  /\ proc' \in [Workers -> WorkerT] /\ proc'[w].pc \in {"idle", "claim"}
         /\ \A v \in Workers : v # w => proc'[v] = proc[v]
<1>1. PICK c \in WorkerT : c.pc \in {"idle", "claim"} /\ Becomes(w, c)
  BY IdleFacts DEF After
<1>2. QED  BY <1>1, OneMoves

LEMMA ExportDone ==
  ASSUME Inv, Exporting, NEW w \in Workers, proc[w].pc \in {"mark", "fail"}, After(w),
         rows' \in [Items -> RowT], rows'[1].state = "open", rows'[1].want = rows[1].want,
         rows'[1].pid \in 0 .. Len(entries),
         Untroubled => Agrees(rows'[1].pid, rows'[1].have),
         UNCHANGED <<kind, source, entries, sends, job, asked, excused, used>>
  PROVE  Inv' /\ Kept
<1>. USE DEF Inv, ExportInv
<1>1. /\ proc' \in [Workers -> WorkerT] /\ proc'[w].pc \in {"idle", "claim"}
      /\ \A v \in Workers : v # w => proc'[v] = proc[v]
  BY AfterFacts
<1>2. /\ rows[1].state = "open"
      /\ "stall" \notin excused => \A v \in Workers : v # w => ~Working(v)
  BY AtExport DEF Working
<1>3. Typed' /\ JobHeld'
  BY <1>1, JobStays DEF Typed
<1>4. Exports'
  BY <1>1, <1>2 DEF Exports, Working, OnTheWay
<1>5. Exclusive'
  BY <1>1, <1>2 DEF Exclusive, Working
<1>6. Single'
  BY <1>1, <1>2 DEF Single, OnTheWay, Live, Working
<1>7. Delivered'
  <2>1. \A p, t : Agrees(p, t)' <=> Agrees(p, t)
    BY DEF Agrees, Live
  <2>2. Untroubled' => Untroubled /\ "stall" \notin excused
    BY DEF Untroubled
  <2>3. QED  BY <1>1, <1>2, <2>1, <2>2 DEF Delivered, Working, OnTheWay
<1>8. Kept
  BY DEF Kept, Ledger!ledger, Live
<1>9. QED  BY <1>3, <1>4, <1>5, <1>6, <1>7, <1>8 DEF Exporting, MailInv, PostInv

LEMMA MarkExport ==
  ASSUME Inv, Exporting, NEW w \in Workers, MarkSucceeded(w)
  PROVE  Inv' /\ Kept
<1>1. /\ proc[w].pc = "mark" /\ Typed
      /\ UNCHANGED <<kind, source, entries, job, asked, excused, used>>
  BY DEF MarkSucceeded, Inv, day
<1>2. /\ Working(w) /\ rows[1].state = "open" /\ Row(w) = rows[1] /\ proc[w].pid \in 0 .. Len(entries)
      /\ rows[1] \in RowT /\ rows[1].pid \in 0 .. Len(entries) /\ rows \in [Items -> RowT]
      /\ proc[w].want \in Totals
      /\ "stall" \notin excused => rows[1].claim = w
  <2>1. Working(w) /\ Exports
    BY <1>1 DEF Working, Inv, ExportInv
  <2>2. rows[1] \in RowT /\ rows[1].pid \in 0 .. Len(entries) /\ proc[w].want \in Totals
    BY <1>1, <2>1, Fields, Constants DEF Exports
  <2>3. QED  BY <1>1, <2>1, <2>2, AtExport DEF Typed
<1>3. Untroubled => Agrees(proc[w].pid, proc[w].want) /\ "stall" \notin excused
  BY <1>1 DEF Inv, ExportInv, Delivered, Untroubled
<1>4. CASE rows' = [rows EXCEPT ![1] = Synced(w)] /\ After(w) /\ UNCHANGED sends
  <2>1. PICK r : r = Synced(w)
    OBVIOUS
  <2>2. /\ r \in RowT /\ r.state = "open" /\ r.want = rows[1].want /\ r.pid = proc[w].pid
        /\ r.have = proc[w].want
    <3>1. proc[w].pid \in Nat
      BY <1>1, Fields
    <3>2. r = [[rows[1] EXCEPT !.claim = Nobody, !.lapsed = FALSE]
                 EXCEPT !.pid = proc[w].pid, !.have = proc[w].want, !.tries = 0, !.wait = FALSE]
      BY <1>2, <2>1 DEF Synced, Unclaimed
    <3>3. PICK q \in RowT : /\ q = [rows[1] EXCEPT !.claim = Nobody, !.lapsed = FALSE]
                            /\ q.state = "open" /\ q.want = rows[1].want
      <4>1. PICK q : q = [rows[1] EXCEPT !.claim = Nobody, !.lapsed = FALSE]
        OBVIOUS
      <4>2. q \in RowT /\ q.state = "open" /\ q.want = rows[1].want
        BY <1>2, <4>1 DEF RowT
      <4>3. QED  BY <4>1, <4>2
    <3>4. r = [q EXCEPT !.pid = proc[w].pid, !.have = proc[w].want, !.tries = 0, !.wait = FALSE]
      BY <3>2, <3>3
    <3>5. QED  BY <1>2, <3>1, <3>3, <3>4 DEF RowT
  <2>3. rows' \in [Items -> RowT] /\ rows'[1] = r
    BY <1>2, <1>4, <2>1, <2>2, Constants
  <2>4. QED  BY <1>1, <1>2, <1>3, <1>4, <2>2, <2>3, ExportDone
<1>5. CASE Row(w).claim # w /\ UNCHANGED <<rows, sends>> /\ After(w)
  BY <1>1, <1>2, <1>3, <1>5, ExportDone
<1>6. QED
  BY <1>4, <1>5
  DEF MarkSucceeded, Exporting, mark_slack_message_succeeded, mark_scheduled_report_sent

\* Giving a row back, for later, or for good.
LEMMA PostponedFacts ==
  ASSUME NEW r \in RowT
  PROVE  /\ Postponed(r) \in RowT /\ Postponed(r).state = r.state /\ Postponed(r).want = r.want
         /\ Postponed(r).pid = r.pid /\ Postponed(r).have = r.have
         /\ Postponed(r).claim = Nobody /\ ~Postponed(r).lapsed /\ Postponed(r).tries = r.tries
<1>1. PICK q : q = [r EXCEPT !.claim = Nobody, !.lapsed = FALSE]
  OBVIOUS
<1>2. /\ q \in RowT /\ q.state = r.state /\ q.want = r.want /\ q.pid = r.pid /\ q.have = r.have
      /\ q.claim = Nobody /\ ~q.lapsed /\ q.tries = r.tries
  BY <1>1 DEF RowT
<1>3. Postponed(r) = [q EXCEPT !.wait = TRUE]
  BY <1>1 DEF Postponed, Unclaimed
<1>4. QED  BY <1>2, <1>3 DEF RowT

LEMMA FailExport ==
  ASSUME Inv, Exporting, NEW w \in Workers, MarkFailed(w)
  PROVE  Inv' /\ Kept
<1>1. /\ proc[w].pc = "fail" /\ After(w) /\ Typed
      /\ UNCHANGED <<kind, source, entries, sends, job, asked, excused, used>>
  BY DEF MarkFailed, Inv, day
<1>2. /\ Working(w) /\ rows[1].state = "open" /\ rows[1] \in RowT
      /\ rows[1].pid \in 0 .. Len(entries) /\ rows \in [Items -> RowT]
      /\ "stall" \notin excused => \A v \in Workers : v # w => ~Working(v)
  <2>1. Working(w) /\ Exports
    BY <1>1 DEF Working, Inv, ExportInv
  <2>2. rows[1] \in RowT /\ rows[1].pid \in 0 .. Len(entries)
    BY <1>1, <2>1, Fields, Constants DEF Exports
  <2>3. QED  BY <1>1, <2>1, <2>2, AtExport DEF Typed
<1>3. Untroubled => Agrees(rows[1].pid, rows[1].have)
  BY <1>1, <1>2 DEF Inv, ExportInv, Delivered, Untroubled, Working
<1>4. CASE rows' = [rows EXCEPT ![1] = Postponed(@)]
  <2>1. rows' \in [Items -> RowT] /\ rows'[1] = Postponed(rows[1])
    <3>1. Postponed(rows[1]) \in RowT
      BY <1>2, PostponedFacts
    <3>2. QED  BY <1>2, <1>4, <3>1, Constants
  <2>2. /\ rows'[1].state = "open" /\ rows'[1].want = rows[1].want /\ rows'[1].pid = rows[1].pid
        /\ rows'[1].have = rows[1].have
    BY <1>2, <2>1, PostponedFacts
  <2>3. QED  BY <1>1, <1>2, <1>3, <2>1, <2>2, ExportDone
<1>5. CASE UNCHANGED rows
  BY <1>1, <1>2, <1>3, <1>5, ExportDone
<1>6. QED  BY <1>4, <1>5 DEF MarkFailed, Exporting, mark_slack_message_failed

\* A report's delivery is over: the row is given back and nothing is unrecorded.
LEMMA ReportDone ==
  ASSUME Inv, kind = "report", NEW w \in Workers, proc[w].pc \in {"mark", "fail"}, After(w),
         rows' \in [Items -> RowT], rows'[1].state = rows[1].state,
         sends' \in [Items -> Nat], sends'[2] = sends[2],
         sends'[1] = 0 \/ (sends'[1] = sends[1] /\ proc[w].pc = "fail"),
         UNCHANGED <<kind, source, entries, job, asked, excused, used>>
  PROVE  Inv' /\ Kept
<1>. USE DEF Inv, MailInv
<1>1. /\ proc' \in [Workers -> WorkerT] /\ proc'[w].pc \in {"idle", "claim"}
      /\ \A v \in Workers : v # w => proc'[v] = proc[v]
  BY AfterFacts
<1>2. Typed' /\ JobHeld'
  BY <1>1, JobStays DEF Typed
<1>3. Mailed'
  <2>1. Mailed /\ Working(w)
    BY DEF Working
  <2>2. ASSUME excused \cap {"lost", "stall"} = {}
        PROVE  /\ \A v \in Workers : v # w => ~Working(v)
               /\ sends'[1] <= 1 /\ (rows[1].state # "none" => sends'[1] = 0)
    <3>1. \A v \in Workers : v # w => ~Working(v)
      BY <2>1, <2>2 DEF Mailed
    <3>2. proc[w].pc = "fail" /\ rows[1].state # "none" => sends[1] = 0
      BY <2>1, <2>2, <3>1 DEF Mailed, Working
    <3>3. QED  BY <2>1, <2>2, <3>1, <3>2 DEF Mailed
  <2>3. QED  BY <1>1, <2>1, <2>2 DEF Mailed, Working
<1>4. Kept
  BY DEF Kept, Ledger!ledger, Live
<1>5. QED  BY <1>2, <1>3, <1>4 DEF Exporting, ExportInv, PostInv

LEMMA MarkReport ==
  ASSUME Inv, kind = "report", NEW w \in Workers, MarkSucceeded(w)
  PROVE  Inv' /\ Kept
<1>. USE DEF Inv, MailInv
<1>1. /\ proc[w].pc = "mark" /\ Typed /\ rows \in [Items -> RowT] /\ sends \in [Items -> Nat]
      /\ UNCHANGED <<kind, source, entries, job, asked, excused, used>>
  BY DEF MarkSucceeded, day, Typed
<1>2. proc[w].item = 1 /\ Row(w) = rows[1] /\ Mailed /\ rows[1] \in RowT
  BY <1>1, Constants DEF Mailed, Working, Row
<1>3. CASE /\ After(w) /\ sends' = [sends EXCEPT ![1] = 0]
           /\ rows' = [rows EXCEPT ![1] = [Unclaimed(@) EXCEPT !.wait = TRUE, !.tries = 0]]
  <2>1. PICK r \in RowT : /\ r = [Unclaimed(rows[1]) EXCEPT !.wait = TRUE, !.tries = 0]
                          /\ r.state = rows[1].state
    <3>1. PICK q : q = [rows[1] EXCEPT !.claim = Nobody, !.lapsed = FALSE]
      OBVIOUS
    <3>2. q \in RowT /\ q.state = rows[1].state
      BY <1>2, <3>1 DEF RowT
    <3>3. PICK r : r = [q EXCEPT !.wait = TRUE, !.tries = 0]
      OBVIOUS
    <3>4. r \in RowT /\ r.state = rows[1].state
      BY <3>2, <3>3 DEF RowT
    <3>5. QED  BY <3>1, <3>3, <3>4 DEF Unclaimed
  <2>2. rows' \in [Items -> RowT] /\ rows'[1] = r
    BY <1>1, <1>3, <2>1, Constants
  <2>3. sends' \in [Items -> Nat] /\ sends'[2] = sends[2] /\ sends'[1] = 0
    BY <1>1, <1>3, Constants
  <2>4. QED  BY <1>1, <1>3, <2>1, <2>2, <2>3, ReportDone
<1>4. CASE Row(w).claim # w /\ Goes(w, "fail") /\ UNCHANGED <<rows, sends>>
  <2>1. PICK c \in WorkerT : Becomes(w, c) /\ c.pc = "fail" /\ c.item = 1
    BY <1>1, <1>2, <1>4, Goer
  <2>2. /\ proc' \in [Workers -> WorkerT] /\ proc'[w] = c
        /\ \A v \in Workers : v # w => proc'[v] = proc[v]
    BY <1>1, <2>1, OneMoves
  <2>3. Typed' /\ JobHeld'
    BY <1>1, <1>4, <2>2, JobStays DEF Typed
  <2>4. Mailed'
    <3>1. excused \cap {"lost", "stall"} = {} => rows[1].state = "none"
      BY <1>1, <1>2, <1>4 DEF Mailed, Working
    <3>2. QED  BY <1>1, <1>2, <1>4, <2>1, <2>2, <3>1 DEF Mailed, Working
  <2>5. Kept
    BY <1>1 DEF Kept, Ledger!ledger, Live
  <2>6. QED  BY <1>1, <2>3, <2>4, <2>5 DEF Exporting, ExportInv, PostInv
<1>5. QED
  BY <1>3, <1>4
  DEF MarkSucceeded, mark_slack_message_succeeded, mark_scheduled_report_sent,
      mark_jira_worklog_export_succeeded, mark_asana_comment_export_succeeded

LEMMA FailReport ==
  ASSUME Inv, kind = "report", NEW w \in Workers, MarkFailed(w)
  PROVE  Inv' /\ Kept
<1>1. /\ proc[w].pc = "fail" /\ After(w) /\ rows \in [Items -> RowT] /\ sends \in [Items -> Nat]
      /\ UNCHANGED <<kind, source, entries, sends, job, asked, excused, used>>
  BY DEF MarkFailed, day, Typed, Inv
<1>2. CASE rows' = [rows EXCEPT ![1] = Postponed(@)]
  <2>1. rows[1] \in RowT /\ Postponed(rows[1]) \in RowT /\ Postponed(rows[1]).state = rows[1].state
    BY <1>1, PostponedFacts, Constants
  <2>2. rows' \in [Items -> RowT] /\ rows'[1].state = rows[1].state
    BY <1>1, <1>2, <2>1, Constants
  <2>3. QED  BY <1>1, <2>2, ReportDone
<1>3. CASE UNCHANGED rows
  BY <1>1, <1>3, ReportDone
<1>4. QED  BY <1>2, <1>3 DEF MarkFailed, mark_slack_message_failed

\* A message's delivery is over: what went out is no longer open.
LEMMA MessageDone ==
  ASSUME Inv, kind = "message", NEW w \in Workers, proc[w].pc \in {"mark", "fail"}, After(w),
         rows' \in [Items -> RowT],
         \A j \in Items : j # proc[w].item => rows'[j] = rows[j],
         rows'[proc[w].item].state = "none" <=> rows[proc[w].item].state = "none",
         rows'[proc[w].item].state = "open" => rows[proc[w].item].state = "open",
         excused \cap {"lost", "stall", "overrun"} = {} /\ proc[w].pc = "mark"
           => rows'[proc[w].item].state # "open",
         UNCHANGED <<kind, source, entries, sends, job, asked, excused, used>>
  PROVE  Inv' /\ Kept
<1>. USE DEF Inv, PostInv
<1>1. /\ proc' \in [Workers -> WorkerT] /\ proc'[w].pc \in {"idle", "claim"}
      /\ \A v \in Workers : v # w => proc'[v] = proc[v]
  BY AfterFacts
<1>2. Typed' /\ JobHeld'
  BY <1>1, JobStays DEF Typed
<1>3. Posted'
  <2>1. PICK i \in Items : i = proc[w].item
    BY Fields
  <2>2. \A j \in Items : rows'[j].state # "none" => used.queued >= j
    BY <2>1 DEF Posted
  <2>3. ASSUME excused \cap {"lost", "stall", "overrun"} = {}
        PROVE  /\ \A v \in Workers : v # w => proc'[v].pc = "idle"
               /\ \A j \in Items : rows'[j].state = "open" => sends[j] = 0
    <3>1. \A v \in Workers : v # w => proc[v].pc = "idle"
      BY <2>3, OneRuns
    <3>2. \A j \in Items : rows[j].state = "open" /\ sends[j] # 0 => proc[w].pc = "mark" /\ i = j
      BY <2>1, <2>3, <3>1 DEF Posted
    <3>3. QED  BY <1>1, <2>1, <2>3, <3>1, <3>2
  <2>4. QED  BY <1>1, <2>2, <2>3 DEF Posted, Working, OnTheWay
<1>4. Kept
  BY DEF Kept, Ledger!ledger, Live
<1>5. QED  BY <1>2, <1>3, <1>4 DEF Exporting, ExportInv, MailInv

LEMMA MarkMessage ==
  ASSUME Inv, kind = "message", NEW w \in Workers, MarkSucceeded(w)
  PROVE  Inv' /\ Kept
<1>. USE DEF Inv, PostInv
<1>1. PICK i \in Items : i = proc[w].item
  BY Fields
<1>2. /\ proc[w].pc = "mark" /\ Typed /\ rows \in [Items -> RowT] /\ rows[i] \in RowT /\ Row(w) = rows[i]
      /\ UNCHANGED <<kind, source, entries, job, asked, excused, used>>
  BY <1>1, Fields DEF MarkSucceeded, day, Typed
<1>3. CASE /\ Row(w).state = "open" /\ After(w) /\ UNCHANGED sends
           /\ rows' = [rows EXCEPT ![proc[w].item] = [Unclaimed(@) EXCEPT !.state = "sent"]]
  <2>1. PICK r \in RowT : r = [Unclaimed(rows[i]) EXCEPT !.state = "sent"] /\ r.state = "sent"
    <3>1. PICK q : q = [rows[i] EXCEPT !.claim = Nobody, !.lapsed = FALSE]
      OBVIOUS
    <3>2. q \in RowT
      BY <1>2, <3>1 DEF RowT
    <3>3. PICK r : r = [q EXCEPT !.state = "sent"]
      OBVIOUS
    <3>4. r \in RowT /\ r.state = "sent"
      BY <3>2, <3>3 DEF RowT
    <3>5. QED  BY <3>1, <3>3, <3>4 DEF Unclaimed
  <2>2. /\ rows' \in [Items -> RowT] /\ rows'[i] = r
        /\ \A j \in Items : j # i => rows'[j] = rows[j]
    BY <1>1, <1>2, <1>3, <2>1
  <2>3. QED  BY <1>1, <1>2, <1>3, <2>1, <2>2, MessageDone
<1>4. CASE /\ Row(w).claim # w \/ Row(w).state # "open"
           /\ UNCHANGED <<rows, sends>> /\ After(w)
  <2>1. excused \cap {"lost", "stall", "overrun"} = {} => rows'[i].state # "open"
    BY <1>1, <1>2, <1>4 DEF Posted, Working
  <2>2. QED  BY <1>1, <1>2, <1>4, <2>1, MessageDone
<1>5. QED
  BY <1>3, <1>4
  DEF MarkSucceeded, mark_slack_message_succeeded, mark_scheduled_report_sent,
      mark_jira_worklog_export_succeeded, mark_asana_comment_export_succeeded

LEMMA FailMessage ==
  ASSUME Inv, kind = "message", NEW w \in Workers, MarkFailed(w)
  PROVE  Inv' /\ Kept
<1>1. PICK i \in Items : i = proc[w].item
  BY Fields DEF Inv
<1>2. /\ proc[w].pc = "fail" /\ After(w) /\ rows \in [Items -> RowT] /\ rows[i] \in RowT
      /\ Row(w) = rows[i]
      /\ UNCHANGED <<kind, source, entries, sends, job, asked, excused, used>>
  BY <1>1, Fields DEF MarkFailed, day, Typed, Inv
<1>3. CASE Row(w).state = "open" /\ rows' = [rows EXCEPT ![proc[w].item] = Discarded(@)]
  <2>1. PICK p \in RowT : p = Postponed(rows[i]) /\ p.state = "open"
    BY <1>2, <1>3, PostponedFacts
  <2>2. PICK r : r = Discarded(rows[i])
    OBVIOUS
  <2>3. r \in RowT /\ r.state \in {"open", "discarded"}
    <3>1. PICK s : s = IF rows[i].tries + 1 >= DiscardAfter THEN "discarded" ELSE p.state
      OBVIOUS
    <3>2. PICK n : n = p.tries + 1
      OBVIOUS
    <3>3. r = [p EXCEPT !.tries = n, !.state = s]
      BY <2>1, <2>2, <3>1, <3>2 DEF Discarded
    <3>4. s \in {"open", "discarded"} /\ n \in Nat
      BY <2>1, <3>1, <3>2 DEF RowT
    <3>5. QED  BY <2>1, <3>3, <3>4 DEF RowT
  <2>4. /\ rows' \in [Items -> RowT] /\ rows'[i] = r
        /\ \A j \in Items : j # i => rows'[j] = rows[j]
    BY <1>1, <1>2, <1>3, <2>2, <2>3
  <2>5. QED  BY <1>1, <1>2, <1>3, <2>3, <2>4, MessageDone
<1>4. CASE UNCHANGED rows
  BY <1>1, <1>2, <1>4, MessageDone
<1>5. QED
  BY <1>3, <1>4
  DEF MarkFailed, mark_slack_message_failed, mark_jira_worklog_export_failed,
      mark_asana_comment_export_failed, mark_scheduled_report_failed

LEMMA RecordingSteps ==
  ASSUME Inv, NEW w \in Workers, MarkSucceeded(w) \/ MarkFailed(w)
  PROVE  Inv' /\ Kept
<1>1. Exporting \/ kind = "report" \/ kind = "message"
  BY DEF Inv, Typed, Exporting
<1>2. QED  BY <1>1, MarkExport, FailExport, MarkReport, FailReport, MarkMessage, FailMessage

-----------------------------------------------------------------------------
(***************************************************************************)
(* Members, administrators and time.                                       *)
(***************************************************************************)
LEMMA EnqueueStep ==
  ASSUME Inv, Enqueue
  PROVE  Inv' /\ Kept
<1>. USE DEF Inv, PostInv
<1>1. /\ kind = "message" /\ Typed /\ Posted
      /\ UNCHANGED <<kind, source, entries, sends, job, proc, asked, excused>>
  BY DEF Enqueue, day
<1>2. PICK i \in Items : /\ rows[i].state = "none" /\ used.queued < i
                         /\ used' = [used EXCEPT !.queued = i] /\ rows' = [rows EXCEPT ![i] = Queued]
  BY DEF Enqueue
<1>3. /\ rows' \in [Items -> RowT] /\ rows'[i] = Queued /\ \A j \in Items : j # i => rows'[j] = rows[j]
  BY <1>1, <1>2, NoRowFacts DEF Typed
<1>4. used' \in Budgets /\ used'.queued = i /\ used.queued \in Nat /\ Items \subseteq Nat
  BY <1>1, <1>2 DEF Typed, Budgets, Items
<1>5. Typed' /\ JobHeld'
  BY <1>1, <1>3, <1>4, JobStays, ProcStays DEF Typed
<1>6. Posted'
  <2>1. \A w \in Workers : Working(w) \/ proc[w].pc = "taking" =>
          /\ proc[w].item # i /\ proc[w].item \in Items /\ i >= proc[w].item
    BY <1>1, <1>2, <1>4, Fields DEF Posted
  <2>2. \A j \in Items : rows'[j].state # "none" => i >= j
    BY <1>1, <1>2, <1>3, <1>4 DEF Posted
  <2>3. sends[i] = 0 /\ \A j \in Items : i < j => sends[j] = 0
    BY <1>1, <1>2, <1>4 DEF Posted
  <2>4. ASSUME excused \cap {"lost", "stall", "overrun"} = {}
        PROVE  /\ \A j \in Items : sends[j] <= 1
               /\ \A w \in Workers : Working(w) =>
                    \/ rows'[proc[w].item].state = "none"
                    \/ /\ rows'[proc[w].item].claim = w /\ ~rows'[proc[w].item].lapsed
                       /\ rows'[proc[w].item].state = "open"
               /\ \A w \in Workers : proc[w].pc = "taking" => rows'[proc[w].item].state \in {"none", "open"}
               /\ \A w \in Workers : OnTheWay(w) => sends[proc[w].item] = 0
               /\ \A j \in Items : rows'[j].state = "open" /\ sends[j] # 0 =>
                    \E w \in Workers : proc[w].pc = "mark" /\ proc[w].item = j
    <3>1. \A w \in Workers : Working(w) \/ proc[w].pc = "taking" =>
            rows'[proc[w].item] = rows[proc[w].item]
      BY <1>3, <2>1
    <3>2. \A j \in Items : sends[j] # 0 => rows'[j] = rows[j]
      BY <1>3, <2>3
    <3>3. QED  BY <1>1, <2>4, <3>1, <3>2 DEF Posted
  <2>5. QED  BY <1>1, <1>3, <1>4, <2>1, <2>2, <2>3, <2>4 DEF Posted, Working, OnTheWay
<1>7. Kept
  BY <1>1 DEF Kept, Ledger!ledger, Live
<1>8. QED  BY <1>1, <1>5, <1>6, <1>7 DEF Exporting, ExportInv, MailInv

\* Rows are taken away under whoever works on them.
LEMMA RowsGo ==
  ASSUME Inv, kind \in {"message", "report"},
         rows' \in [Items -> RowT],
         \A i \in Items : rows'[i] = rows[i] \/ rows'[i].state = "none",
         used' \in Budgets, used'.queued = used.queued,
         UNCHANGED <<kind, source, entries, sends, job, proc, asked, excused>>
  PROVE  Inv' /\ Kept
<1>. USE DEF Inv, MailInv, PostInv
<1>1. Typed' /\ JobHeld'
  BY JobStays, ProcStays DEF Typed
<1>2. kind = "report" => Mailed'
  BY Constants DEF Mailed, Working
<1>3. kind = "message" => Posted'
  <2>1. \A w \in Workers : proc[w].item \in Items
    BY Fields
  <2>2. QED  BY <2>1 DEF Posted, Working, OnTheWay
<1>4. Kept
  BY DEF Kept, Ledger!ledger, Live
<1>5. QED  BY <1>1, <1>2, <1>3, <1>4 DEF Exporting, ExportInv

LEMMA RemovalSteps ==
  ASSUME Inv,
         \/ remove_slack_destination \/ disconnect_slack_integration \/ purge_slack_outbox
         \/ delete_scheduled_report
  PROVE  Inv' /\ Kept
<1>1. Typed /\ rows \in [Items -> RowT]
  BY DEF Inv, Typed
<1>2. CASE purge_slack_outbox
  <2>1. /\ kind \in {"message", "report"}
        /\ UNCHANGED <<kind, source, entries, sends, job, proc, asked, excused, used>>
    BY <1>2 DEF purge_slack_outbox, day
  <2>2. PICK i \in Items : rows' = [rows EXCEPT ![i] = NoRow]
    BY <1>2 DEF purge_slack_outbox
  <2>3. rows' \in [Items -> RowT] /\ \A j \in Items : rows'[j] = rows[j] \/ rows'[j].state = "none"
    BY <1>1, <2>2, NoRowFacts
  <2>4. used' \in Budgets
    BY <1>1, <2>1 DEF Typed
  <2>5. QED  BY <2>1, <2>3, <2>4, RowsGo
<1>3. CASE remove_slack_destination \/ disconnect_slack_integration \/ delete_scheduled_report
  <2>1. /\ kind \in {"message", "report"} /\ Spend("switches")
        /\ UNCHANGED <<kind, source, entries, sends, job, proc, asked, excused>>
    BY <1>3
    DEF remove_slack_destination, disconnect_slack_integration, delete_scheduled_report, Switch, SwitchTo
  <2>2. rows' \in [Items -> RowT] /\ \A j \in Items : rows'[j] = rows[j] \/ rows'[j].state = "none"
    <3>1. CASE remove_slack_destination
      BY <3>1, NoRowFacts DEF remove_slack_destination
    <3>2. CASE disconnect_slack_integration
      BY <1>1, <3>2, NoRowFacts DEF disconnect_slack_integration
    <3>3. CASE delete_scheduled_report
      BY <1>1, <3>3, NoRowFacts, Constants DEF delete_scheduled_report
    <3>4. QED  BY <1>3, <3>1, <3>2, <3>3
  <2>3. used' \in Budgets /\ used'.queued = used.queued
    BY <1>1, <2>1, SpendFacts
  <2>4. QED  BY <2>1, <2>2, <2>3, RowsGo
<1>4. QED  BY <1>2, <1>3

LEMMA EnableStep ==
  ASSUME Inv, set_scheduled_report_enabled
  PROVE  Inv' /\ Kept
<1>. USE DEF Inv, MailInv
<1>1. /\ kind = "report" /\ Typed /\ Mailed /\ Spend("switches") /\ sends' = [sends EXCEPT ![1] = 0]
      /\ excused' = excused \cup (IF \E w \in Workers : Working(w) THEN {"lost"} ELSE {})
      /\ UNCHANGED <<kind, source, entries, job, proc, asked>>
  BY DEF set_scheduled_report_enabled, SwitchTo
<1>2. PICK to : rows' = [rows EXCEPT ![1] = Rescheduled(rows[1], to)]
  BY DEF set_scheduled_report_enabled
<1>3. rows' \in [Items -> RowT]
  <2>1. rows[1] \in RowT /\ rows \in [Items -> RowT]
    BY <1>1, Fields, Constants DEF Typed
  <2>2. PICK q : q = [rows[1] EXCEPT !.claim = Nobody, !.lapsed = FALSE]
    OBVIOUS
  <2>3. q \in RowT
    BY <2>1, <2>2 DEF RowT
  <2>4. PICK b \in BOOLEAN : b = (q.wait \/ to = "on")
    OBVIOUS
  <2>5. Rescheduled(rows[1], to) = [q EXCEPT !.wait = b]
    BY <2>2, <2>4, Zenon DEF Rescheduled, Unclaimed
  <2>6. [q EXCEPT !.wait = b] \in RowT
    BY <2>3, <2>4, Zenon DEF RowT
  <2>7. QED  BY <1>2, <2>1, <2>5, <2>6
<1>4. sends' \in [Items -> Nat] /\ sends'[1] = 0 /\ sends'[2] = sends[2]
  BY <1>1, Constants DEF Typed
<1>5. used' \in Budgets
  BY <1>1, SpendFacts
<1>6. Typed' /\ JobHeld'
  BY <1>1, <1>3, <1>4, <1>5, JobStays, ProcStays DEF Typed
<1>7. Mailed'
  <2>1. excused' \cap {"lost", "stall"} = {} => \A w \in Workers : ~Working(w)
    BY <1>1
  <2>2. QED  BY <1>1, <1>4, <2>1 DEF Mailed, Working
<1>8. Kept
  BY <1>1 DEF Kept, Ledger!ledger, Live
<1>9. QED  BY <1>1, <1>6, <1>7, <1>8 DEF Exporting, ExportInv, PostInv

\* A claim that lapses under its worker excuses what may come of it.
LEMMA ClaimLapsesStep ==
  ASSUME Inv, ClaimLapses
  PROVE  Inv' /\ Kept
<1>. USE DEF Inv
<1>1. Typed /\ UNCHANGED <<kind, source, entries, sends, job, proc, asked>>
  BY DEF ClaimLapses, day
<1>2. PICK i \in Items :
        /\ rows[i].claim # Nobody /\ rows' = [rows EXCEPT ![i].lapsed = TRUE]
        /\ IF Holds(rows[i].claim, i) THEN Outlives("stall") ELSE UNCHANGED <<used, excused>>
  BY DEF ClaimLapses
<1>3. /\ rows' \in [Items -> RowT]
      /\ \A j \in Items :
           /\ j # i => rows'[j] = rows[j]
           /\ rows'[j].state = rows[j].state /\ rows'[j].pid = rows[j].pid
           /\ rows'[j].have = rows[j].have /\ rows'[j].want = rows[j].want
           /\ rows'[j].claim = rows[j].claim
  <2>1. rows[i] \in RowT /\ rows \in [Items -> RowT]
    BY <1>1, Fields DEF Typed
  <2>2. PICK r : r = [rows[i] EXCEPT !.lapsed = TRUE]
    OBVIOUS
  <2>3. /\ r \in RowT /\ r.state = rows[i].state /\ r.pid = rows[i].pid
        /\ r.have = rows[i].have /\ r.want = rows[i].want /\ r.claim = rows[i].claim
    BY <2>1, <2>2 DEF RowT
  <2>4. rows' = [rows EXCEPT ![i] = r]
    BY <1>2, <2>2
  <2>5. QED  BY <2>1, <2>3, <2>4
<1>4. /\ used' \in Budgets /\ used'.queued = used.queued
      /\ "overrun" \in excused => "overrun" \in excused'
      /\ excused \subseteq excused'
      /\ \A x \in excused' : x \in excused \/ x = "stall"
  <2>1. \/ used' = used /\ excused' = excused
        \/ Fault /\ excused' = excused \cup {"stall"}
    BY <1>2 DEF Outlives
  <2>2. used' \in Budgets /\ used'.queued = used.queued
    BY <1>1, <2>1, FaultFacts DEF Typed
  <2>3. QED  BY <2>1, <2>2
<1>5. ASSUME "stall" \notin excused'
      PROVE  excused' = excused /\ \A w \in Workers : Working(w) => ~(rows[i].claim = w /\ proc[w].item = i)
  <2>1. ~Outlives("stall")
    BY <1>5 DEF Outlives
  <2>2. QED  BY <1>2, <2>1, Constants DEF Holds
<1>6. Typed' /\ JobHeld'
  BY <1>1, <1>3, <1>4, JobStays, ProcStays DEF Typed
<1>7. ASSUME Exporting
      PROVE  Exports' /\ Exclusive' /\ Single' /\ Delivered'
  <2>. USE DEF ExportInv
  <2>1. /\ rows'[1].state = rows[1].state /\ rows'[1].pid = rows[1].pid
        /\ rows'[1].have = rows[1].have /\ rows'[1].want = rows[1].want
        /\ rows'[1].claim = rows[1].claim
    BY <1>3, Constants
  <2>2. Exports'
    BY <1>1, <1>7, <2>1 DEF Exports, Working, OnTheWay
  <2>3. Exclusive'
    <3>1. ASSUME "stall" \notin excused', NEW w \in Workers, Working(w)
          PROVE  rows'[1].claim = w /\ ~rows'[1].lapsed
      <4>1. rows[1].claim = w /\ ~rows[1].lapsed /\ proc[w].item = 1
        BY <1>5, <1>7, <3>1 DEF Exclusive, Exports
      <4>2. i # 1
        BY <1>5, <3>1, <4>1
      <4>3. QED  BY <1>3, <2>1, <4>1, <4>2, Constants
    <3>2. QED  BY <1>1, <3>1 DEF Exclusive, Working
  <2>4. Single'
    BY <1>1, <1>5, <1>7 DEF Single, OnTheWay, Live
  <2>5. Delivered'
    <3>1. Untroubled' => Untroubled
      BY <1>5 DEF Untroubled
    <3>2. \A p, t : Agrees(p, t)' <=> Agrees(p, t)
      BY <1>1 DEF Agrees, Live
    <3>3. QED  BY <1>1, <1>7, <2>1, <3>1, <3>2 DEF Delivered, OnTheWay
  <2>6. QED  BY <2>2, <2>3, <2>4, <2>5
<1>8. ASSUME kind = "report"
      PROVE  Mailed'
  <2>1. Mailed /\ rows'[1].state = rows[1].state /\ rows'[1].claim = rows[1].claim
    BY <1>3, <1>8, Constants DEF MailInv
  <2>2. ASSUME "stall" \notin excused', "lost" \notin excused', NEW w \in Workers, Working(w)
        PROVE  rows'[1].state = "none" \/ (rows'[1].claim = w /\ ~rows'[1].lapsed)
    <3>1. excused' = excused /\ ~(rows[i].claim = w /\ proc[w].item = i)
      BY <1>5, <2>2
    <3>2. proc[w].item = 1 /\ (rows[1].state = "none" \/ (rows[1].claim = w /\ ~rows[1].lapsed))
      BY <2>1, <2>2, <3>1 DEF Mailed
    <3>3. QED  BY <1>3, <2>1, <3>1, <3>2, Constants
  <2>3. excused' \cap {"lost", "stall"} = {} => excused' = excused
    BY <1>5
  <2>4. QED  BY <1>1, <2>1, <2>2, <2>3 DEF Mailed, Working
<1>9. ASSUME kind = "message"
      PROVE  Posted'
  <2>1. Posted /\ \A w \in Workers : proc[w].item \in Items
    BY <1>1, <1>9, Fields DEF PostInv
  <2>2. ASSUME excused' \cap {"lost", "stall", "overrun"} = {}, NEW w \in Workers, Working(w)
        PROVE  \/ rows'[proc[w].item].state = "none"
               \/ /\ rows'[proc[w].item].claim = w /\ ~rows'[proc[w].item].lapsed
                  /\ rows'[proc[w].item].state = "open"
    <3>1. excused' = excused /\ ~(rows[i].claim = w /\ proc[w].item = i)
      BY <1>5, <2>2
    <3>2. \/ rows[proc[w].item].state = "none"
          \/ /\ rows[proc[w].item].claim = w /\ ~rows[proc[w].item].lapsed
             /\ rows[proc[w].item].state = "open"
      BY <2>1, <2>2, <3>1 DEF Posted
    <3>3. QED  BY <1>3, <2>1, <3>1, <3>2
  <2>3. excused' \cap {"lost", "stall", "overrun"} = {} => excused' = excused
    BY <1>5
  <2>4. QED  BY <1>1, <1>3, <1>4, <2>1, <2>2, <2>3 DEF Posted, Working, OnTheWay
<1>10. Kept
  <2>1. CASE "stall" \in excused'
    <3>1. ("stall" \in excused)' = TRUE
      BY <2>1
    <3>2. QED  BY <1>1, <3>1 DEF Kept, Ledger!Next, Ledger!Loosen
  <2>2. CASE "stall" \notin excused'
    BY <1>1, <1>5, <2>2 DEF Kept, Ledger!ledger, Live
  <2>3. QED  BY <2>1, <2>2
<1>11. QED  BY <1>1, <1>6, <1>7, <1>8, <1>9, <1>10 DEF ExportInv, MailInv, PostInv, Exporting

LEMMA RemovedThereStep ==
  ASSUME Inv, RemovedThere
  PROVE  Inv' /\ Kept
<1>. USE DEF Inv, ExportInv
<1>1. /\ Typed /\ Fault /\ excused' = excused \cup {"removed"}
      /\ UNCHANGED <<kind, source, rows, sends, job, proc, asked>>
  BY DEF RemovedThere, day
<1>2. PICK n \in Live : entries' = [entries EXCEPT ![n] = Gone]
  BY DEF RemovedThere
<1>3. Exporting
  BY <1>1, <1>2 DEF Typed, MailInv, PostInv, Mailed, Posted, Exporting, Live
<1>4. /\ n \in 1 .. Len(entries) /\ entries \in Seq(Totalled) /\ LiveIn(entries) = Live
      /\ Live' = LiveIn(entries')
  BY <1>1, <1>2, LiveFacts DEF Live, LiveIn, Typed
<1>5. /\ entries' \in Seq(Totalled) /\ Len(entries') = Len(entries)
      /\ \A m \in Live' : m # n /\ m \in Live /\ entries'[m] = entries[m]
  <2>1. /\ entries' \in Seq(Totalled) /\ Len(entries') = Len(entries) /\ entries'[n] = Gone
        /\ \A m \in 1 .. Len(entries) : m # n => entries'[m] = entries[m]
    BY <1>2, <1>4 DEF Totalled
  <2>2. QED  BY <1>4, <2>1, OverwriteFacts
<1>6. Remembers /\ used' \in Budgets
  BY <1>1, FaultFacts DEF Remembers
<1>7. Typed' /\ JobHeld'
  BY <1>1, <1>5, <1>6, JobStays, ProcStays DEF Typed, Remembers
<1>8. Exports'
  BY <1>1, <1>3, <1>5 DEF Exports, Working, OnTheWay
<1>9. Exclusive'
  BY <1>1, <1>3, <1>6 DEF Exclusive, Working, Remembers
<1>10. Single'
  BY <1>1, <1>3, <1>5, <1>6 DEF Single, OnTheWay, Remembers
<1>11. Delivered'
  BY <1>1 DEF Delivered, Untroubled
<1>12. Kept
  BY <1>1, <1>3, <1>4, <1>5, <1>6, <1>10, LedgerStep DEF Single, Remembers
<1>13. QED
  BY <1>1, <1>3, <1>7, <1>8, <1>9, <1>10, <1>11, <1>12 DEF Exporting, MailInv, PostInv

-----------------------------------------------------------------------------
(***************************************************************************)
(* The invariant, and what follows.                                        *)
(***************************************************************************)
LEMMA InitInv == Init => Inv /\ Ledger!Init
<1>. SUFFICES ASSUME Init  PROVE  Inv /\ Ledger!Init
  OBVIOUS
<1>1. /\ kind \in {"worklog", "comment", "message", "report"} /\ entries = << >> /\ excused = {}
      /\ asked = {} /\ sends = [i \in Items |-> 0] /\ proc = [w \in Workers |-> Idle]
      /\ source = 0 /\ job = [owner |-> Nobody, lapsed |-> FALSE]
      /\ used = [changes |-> 0, switches |-> 0, faults |-> 0, queued |-> 0]
      /\ rows = [i \in Items |-> IF kind = "report" /\ i = 1
                                 THEN [Queued EXCEPT !.wait = TRUE] ELSE NoRow]
  BY OutboxAssumption DEF Init
<1>2. [Queued EXCEPT !.wait = TRUE] \in RowT /\ [Queued EXCEPT !.wait = TRUE].state = "open"
  BY Constants DEF Queued, NoRow, RowT
<1>3. rows \in [Items -> RowT] /\ \A w \in Workers : proc[w].pc = "idle"
  BY <1>1, <1>2, NoRowFacts, IdleFacts
<1>4. Typed
  <2>1. proc \in [Workers -> WorkerT] /\ sends \in [Items -> Nat] /\ \A i \in Items : sends[i] = 0
    BY <1>1, IdleFacts
  <2>2. job \in Leases /\ used \in Budgets /\ used.queued = 0
    BY <1>1 DEF Leases, Budgets
  <2>3. entries \in Seq(Totalled)
    BY <1>1
  <2>4. QED  BY <1>1, <1>3, <2>1, <2>2, <2>3, Constants DEF Typed
<1>5. Live = {} /\ Len(entries) = 0
  BY <1>1 DEF Live
<1>6. JobHeld
  BY <1>3 DEF JobHeld
<1>7. ASSUME Exporting
      PROVE  Exports /\ Exclusive /\ Single /\ Delivered
  <2>1. rows[1] = NoRow
    BY <1>1, <1>7, Constants DEF Exporting
  <2>2. QED
    BY <1>3, <1>5, <2>1, NoRowFacts
    DEF Exports, Exclusive, Single, Delivered, Agrees, Working, OnTheWay
<1>8. Mailed
  BY <1>1, <1>3, Constants DEF Mailed, Working
<1>9. ASSUME kind = "message"
      PROVE  Posted
  <2>1. \A i \in Items : rows[i] = NoRow
    BY <1>1, <1>9
  <2>2. \A i \in Items : rows[i].state = "none" /\ sends[i] = 0
    BY <1>1, <2>1, NoRowFacts
  <2>3. QED  BY <1>1, <1>3, <2>2 DEF Posted, Working, OnTheWay
<1>10. Ledger!Init
  BY <1>1, <1>5 DEF Ledger!Init
<1>11. QED  BY <1>4, <1>6, <1>7, <1>8, <1>9, <1>10 DEF Inv, ExportInv, MailInv, PostInv

LEMMA NextInv ==
  ASSUME Inv, [Next]_vars
  PROVE  Inv' /\ Kept
<1>1. CASE UNCHANGED vars
  <2>1. UNCHANGED <<kind, source, rows, entries, sends, job, proc, asked, excused, used>> /\ Remembers
    BY <1>1 DEF vars, day, Remembers
  <2>2. Typed' /\ JobHeld'
    BY <2>1, JobStays, ProcStays DEF Inv, Typed
  <2>3. QED  BY <2>1, <2>2, RowsStay, ProcStays, QuietStep
<1>2. ASSUME NEW w \in Workers, Step(w) \/ RunJob(w) \/ release_background_jobs(w) \/ Crash(w)
      PROVE  Inv' /\ Kept
  <2>1. CASE Step(w)
    BY <2>1, StagingSteps, ClaimStep, TakeStep, RenewStep, CallSteps, SendSteps, RecordingSteps DEF Step
  <2>2. QED  BY <1>2, <2>1, RunJobStep, ReleaseStep, CrashStep
<1>3. CASE People
  <2>1. CASE MarkJiraDay \/ MarkAsanaDay
    BY <2>1, MarksStep DEF MarkJiraDay, MarkAsanaDay
  <2>2. QED
    BY <1>3, <2>1, PassingSteps, SettingSteps, EnqueueStep, RemovalSteps, EnableStep, RemovedThereStep
    DEF People
<1>4. CASE \/ purge_slack_outbox \/ Midnight \/ (\E i \in Items : RowComesDue(i))
           \/ SyncComesDue \/ ClaimLapses \/ JobLeaseLapses
  BY <1>4, RemovalSteps, PassingSteps, RowComesDueStep, ClaimLapsesStep, JobLeaseLapsesStep
<1>5. QED  BY <1>1, <1>2, <1>3, <1>4 DEF Next

\* The invariants of the job's lease and of each kind of outbox.
THEOREM InvHolds == Spec => []Inv
BY InitInv, NextInv, PTL DEF Spec

\* Whatever is lost and whoever crashes, every step of an export is a step of the
\* ledger: one entry a day, showing a total that was asked for
\* (_deliver_claimed_worklog and _deliver_claimed_comment).
THEOREM KeepsLedger == Spec => KeepsTheLedger
<1>1. Init => Ledger!Init
  BY InitInv
<1>2. Inv /\ [Next]_vars => [Ledger!Next]_(Ledger!ledger)
  BY NextInv DEF Kept
<1>3. QED  BY <1>1, <1>2, InvHolds, PTL DEF Spec, KeepsTheLedger, Ledger!Spec

\* A row that says it is delivered shows its total at the provider
\* (mark_jira_worklog_export_succeeded and mark_asana_comment_export_succeeded).
THEOREM DeliveredShown == Spec => []DeliveredIsShown
<1>1. Inv => DeliveredIsShown
  <2>. SUFFICES ASSUME Inv, Exporting, Resting(1), excused \subseteq {"raced", "overrun"}
                PROVE  Shown \in Expected(rows[1].want)
    BY DEF DeliveredIsShown
  <2>1. /\ rows[1].claim = Nobody /\ rows[1].have = rows[1].want /\ rows[1].want \in Totals
        /\ Exclusive /\ Delivered /\ Untroubled /\ "stall" \notin excused
    BY Fields, Constants DEF Resting, Inv, ExportInv, Untroubled
  <2>2. \A w \in Workers : ~Working(w)
    BY <2>1, Constants DEF Exclusive
  <2>3. Agrees(rows[1].pid, rows[1].want)
    BY <2>1, <2>2 DEF Delivered, Working
  <2>4. CASE rows[1].pid = 0
    <3>1. Live = {} /\ rows[1].want = 0
      BY <2>1, <2>3, <2>4, Constants DEF Agrees
    <3>2. Shown = {}
      BY <3>1 DEF Shown
    <3>3. QED  BY <3>1, <3>2 DEF Expected
  <2>5. CASE rows[1].pid # 0
    <3>1. (kind = "worklog" => rows[1].want > 0) /\ rows[1].want \in Nat
      BY <2>1, <2>3, <2>5, Constants DEF Agrees
    <3>2. rows[1].want > 0 \/ (rows[1].want = 0 /\ kind = "comment")
      BY <3>1 DEF Exporting
    <3>3. Shown = {rows[1].want}
      BY <2>3, <2>5 DEF Agrees, Shown
    <3>4. QED  BY <3>2, <3>3 DEF Expected
  <2>6. QED  BY <2>4, <2>5
<1>2. QED  BY <1>1, InvHolds, PTL

\* Nothing goes out twice without a lost answer, a death or a claim that ran out
\* (_deliver_claimed_message with the job's lease, _send_report).
THEOREM SentOnceAlways == Spec => []SentOnce
<1>1. Inv => SentOnce
  <2>. SUFFICES ASSUME Inv, kind \in {"message", "report"}, excused \subseteq {"overrun"},
                       kind = "message" => excused = {}, NEW i \in Items
                PROVE  sends[i] <= 1
    BY DEF SentOnce
  <2>1. CASE kind = "report"
    <3>1. Mailed /\ excused \cap {"lost", "stall"} = {}
      BY <2>1 DEF Inv, MailInv
    <3>2. QED  BY <3>1, Constants DEF Mailed
  <2>2. CASE kind = "message"
    BY <2>2 DEF Inv, PostInv, Posted
  <2>3. QED  BY <2>1, <2>2
<1>2. QED  BY <1>1, InvHolds, PTL

\* What the ledger's promise comes to.
OneEntry == \A m, n \in Live : m = n
ShowsWhatWasAsked == \A n \in Live : entries[n] \in asked

\* While no deliverer has outlived its claim the provider carries at most one
\* entry of the day, and it shows a total the tracker asked for, whatever answers
\* were lost (_deliver_claimed_worklog, find_export_worklog and its Asana twin).
THEOREM OneEntryADay == Spec => []("stall" \notin excused => OneEntry /\ ShowsWhatWasAsked)
<1>1. Inv => ("stall" \notin excused => OneEntry /\ ShowsWhatWasAsked)
  <2>. SUFFICES ASSUME Inv, "stall" \notin excused  PROVE  OneEntry /\ ShowsWhatWasAsked
    OBVIOUS
  <2>1. CASE Exporting
    BY <2>1 DEF Inv, ExportInv, Single, OneEntry, ShowsWhatWasAsked
  <2>2. CASE ~Exporting
    BY <2>2 DEF Inv, Typed, Exporting, MailInv, PostInv, Mailed, Posted, Live, OneEntry, ShowsWhatWasAsked
  <2>3. QED  BY <2>1, <2>2
<1>2. QED  BY <1>1, InvHolds, PTL

=============================================================================
