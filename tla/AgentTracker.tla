---------------------------- MODULE AgentTracker ----------------------------
(***************************************************************************)
(* The desktop tracker's timer and its journal (agent/main.py with the     *)
(* state and usage tables of agent/queue.py), against a server that it may *)
(* or may not reach.                                                       *)
(*                                                                         *)
(* Three threads meet here.  The employee's buttons (window, tray, browser *)
(* extension) change the timer and raise a flag.  The worker thread reads  *)
(* the timer, journals what it read and uploads the journal.  The main     *)
(* thread closes the agent, waiting for the worker only so long.  The      *)
(* journal is durable, everything else dies with the process.              *)
(*                                                                         *)
(* Journal entries are numbered in the order of their commits, and the     *)
(* number stands for observed_at: here the clock moves forward (module     *)
(* WorkSessions lets it step back).  Of the lengths of time only those are *)
(* kept that the server asks for: since which entry the desk was idle, and *)
(* whether more than a lease passed.  Screenshots are in OfflineQueue.     *)
(***************************************************************************)
EXTENDS Integers, FiniteSets, Sequences, SequencesExt

CONSTANTS
  Projects,     \* projects the employee may choose
  Configured,   \* the project of the agent's configuration
  Scopes        \* the bounds a behaviour may keep to

\* The bounds: the employee's actions, switches between idle and busy,
\* heartbeats no transition asks for, usage samples, crashes, launches, events
\* the server refuses for good (4xx), requests refused with 401, journal writes
\* that fail, and gaps between states that are longer than the lease.  outlives: the
\* worker may outlive the 8 seconds that stop() waits for it.
Bounds == {"actions", "changes", "beats", "samples", "crashes", "launches",
           "refusals", "unknown", "failures", "gaps"}

ASSUME TrackerAssumption ==
  /\ Configured \in Projects
  /\ \A s \in Scopes : /\ \A b \in Bounds : s[b] \in Nat
                       /\ s.outlives \in BOOLEAN /\ s.projects \subseteq Projects

MAX_REJECTIONS == 3
Threads == {"worker", "main"}
NoProject == "none"
NoEvent == 0
Open == 0       \* end of a span that is still open

Status == {"active", "paused", "stopped"}
\* idle: the first entry of the stretch to deduct, 0 if there is none.  gap: more
\* than a lease has passed since the state before.
Event == [id : Nat \ {0}, status : Status, project : Projects \cup {NoProject},
          idle : Nat, transition : BOOLEAN, gap : BOOLEAN]
Span == [from : Nat, to : Nat]

VARIABLES
  timer,      \* _timer_state
  idle,       \* _auto_idle
  deduct,     \* _idle_deduction_seconds: the first entry of the stretch, or 0
  selected,   \* _selected_project_id
  beat,       \* _heartbeat_event
  raising,    \* a button changed the timer and is about to raise the flag
  stop,       \* stop_event
  rejections, \* _rejections
  pc,         \* what each thread does next
  mark,       \* the worker's local transition
  state,      \* the status each thread is about to journal
  sending,    \* id of the entry each thread has sent
  states,     \* table state_events, in commit order
  usage,      \* table usage_events, in commit order: ids
  aside,      \* ids in quarantine
  log,        \* every state event ever journalled
  samples,    \* ids of all samples ever journalled
  applied,    \* ids of the state events the server applied, in that order
  server,     \* status and project of the device's session on the server
  spans,      \* its tracked segments
  scope,      \* the scope of this behaviour
  left        \* what is left of each bound

memory == <<timer, idle, deduct, selected, beat, raising, stop, rejections>>
threads == <<pc, mark, state, sending>>
journal == <<states, usage, aside, log, samples>>
remote == <<applied, server, spans>>
bounds == <<scope, left>>
vars == <<memory, threads, journal, remote, bounds>>

WorkerSteps == {"down", "loop", "idle", "observe", "flag", "clear", "read",
                "journal", "send", "wait", "upload", "waitState", "waitUsage"}
MainSteps == {"down", "start", "run", "join", "journal", "send", "wait"}

TypeOK ==
  /\ timer \in Status /\ idle \in BOOLEAN /\ deduct \in Nat
  /\ selected \in Projects /\ beat \in BOOLEAN /\ raising \in BOOLEAN
  /\ stop \in BOOLEAN /\ rejections \in Nat
  /\ pc \in [Threads -> WorkerSteps \cup MainSteps]
  /\ pc["worker"] \in WorkerSteps /\ pc["main"] \in MainSteps
  /\ mark \in BOOLEAN /\ state \in [Threads -> Status]
  /\ sending \in [Threads -> Nat]
  /\ states \in Seq(Event) /\ log \in Seq(Event)
  /\ usage \in Seq(Nat) /\ aside \subseteq Nat /\ samples \subseteq Nat
  /\ applied \in Seq(Nat) /\ spans \subseteq Span
  /\ server \in [status : Status, project : Projects \cup {NoProject}]
  /\ scope \in Scopes /\ left \in [Bounds -> Nat]

Init ==
  /\ timer = "stopped" /\ idle = FALSE /\ deduct = 0
  /\ selected = Configured
  /\ beat = FALSE /\ raising = FALSE /\ stop = FALSE /\ rejections = 0
  /\ pc = [t \in Threads |-> "down"] /\ mark = FALSE
  /\ state = [t \in Threads |-> "stopped"]
  /\ sending = [t \in Threads |-> NoEvent]
  /\ states = << >> /\ usage = << >> /\ aside = {} /\ log = << >> /\ samples = {}
  /\ applied = << >> /\ spans = {}
  /\ server = [status |-> "stopped", project |-> NoProject]
  /\ scope \in Scopes /\ left = [b \in Bounds |-> scope[b]]

Spend(bound) ==
  left[bound] > 0 /\ left' = [left EXCEPT ![bound] = @ - 1] /\ UNCHANGED scope
Goto(t, step) == pc' = [pc EXCEPT ![t] = step]
Up == pc["main"] # "down"

-----------------------------------------------------------------------------
(***************************************************************************)
(* The employee.  Each button changes the timer under the lock and raises  *)
(* the flag after releasing it.                                            *)
(***************************************************************************)

Press == /\ pc["main"] = "run" /\ ~raising /\ raising' = TRUE
         /\ Spend("actions")
         /\ UNCHANGED <<deduct, beat, stop, rejections, threads, journal, remote>>

StartTracking ==
  /\ Press /\ timer = "stopped"
  /\ timer' = "active" /\ idle' = FALSE /\ UNCHANGED selected

PauseTracking ==
  /\ Press /\ timer = "active"
  /\ timer' = "paused" /\ UNCHANGED <<idle, selected>>

ResumeTracking ==
  /\ Press /\ timer = "paused"
  /\ timer' = "active" /\ idle' = FALSE /\ UNCHANGED selected

StopTracking ==
  /\ Press /\ timer # "stopped"
  /\ timer' = "stopped" /\ idle' = FALSE /\ UNCHANGED selected

SelectWork(p) ==
  /\ Press /\ p # selected
  /\ selected' = p /\ UNCHANGED <<timer, idle>>

RaiseFlag ==
  /\ Up /\ raising /\ raising' = FALSE /\ beat' = TRUE
  /\ UNCHANGED <<timer, idle, deduct, selected, stop, rejections, threads,
                 journal, remote, bounds>>

-----------------------------------------------------------------------------
(***************************************************************************)
(* The worker's loop.                                                      *)
(***************************************************************************)

Loop ==
  /\ pc["worker"] = "loop"
  /\ Goto("worker", IF stop THEN "down" ELSE "idle")
  /\ UNCHANGED <<memory, mark, state, sending, journal, remote, bounds>>

\* _update_idle_state: the input of the desk decides.  The policy refresh that
\* precedes it in the loop may block here for the length of a network timeout.
StaysAsItWas ==
  /\ pc["worker"] = "idle" /\ Goto("worker", "observe")
  /\ UNCHANGED <<memory, mark, state, sending, journal, remote, bounds>>

NextId == Len(log) + Cardinality(samples) + 1

\* No input for longer than the timeout.  What was journalled since the last input,
\* if anything, is to be deducted.
BecomesIdle ==
  /\ pc["worker"] = "idle" /\ Goto("worker", "observe")
  /\ timer = "active" /\ ~idle
  /\ idle' = TRUE /\ beat' = TRUE /\ deduct' \in 1 .. NextId
  /\ Spend("changes")
  /\ UNCHANGED <<timer, selected, raising, stop, rejections, mark, state,
                 sending, journal, remote>>

ComesBack ==
  /\ pc["worker"] = "idle" /\ Goto("worker", "observe")
  /\ timer = "active" /\ idle
  /\ idle' = FALSE /\ beat' = TRUE
  /\ Spend("changes")
  /\ UNCHANGED <<timer, deduct, selected, raising, stop, rejections, mark, state,
                 sending, journal, remote>>

tracking_active == timer = "active" /\ ~idle

\* An observation is due: a usage sample is journalled.
Observe ==
  /\ pc["worker"] = "observe" /\ Goto("worker", "flag")
  /\ tracking_active /\ Spend("samples")
  /\ usage' = Append(usage, NextId) /\ samples' = samples \cup {NextId}
  /\ UNCHANGED <<memory, mark, state, sending, states, aside, log, remote>>

ObserveFails ==
  /\ pc["worker"] = "observe" /\ Goto("worker", "flag")
  /\ tracking_active /\ Spend("failures")
  /\ UNCHANGED <<memory, mark, state, sending, journal, remote>>

NotObserved ==
  /\ pc["worker"] = "observe" /\ Goto("worker", "flag")
  /\ UNCHANGED <<memory, mark, state, sending, journal, remote, bounds>>

\* The flag is read, then cleared, and the timer is read only after that.
ReadFlag ==
  /\ pc["worker"] = "flag" /\ mark' = beat
  /\ \/ beat /\ Goto("worker", "clear") /\ UNCHANGED bounds
     \/ ~beat /\ timer # "stopped" /\ Goto("worker", "clear") /\ Spend("beats")
     \/ ~beat /\ Goto("worker", "upload") /\ UNCHANGED bounds
  /\ UNCHANGED <<memory, state, sending, journal, remote>>

ClearFlag ==
  /\ pc["worker"] = "clear" /\ Goto("worker", "read")
  /\ beat' = FALSE
  /\ UNCHANGED <<timer, idle, deduct, selected, raising, stop, rejections, mark,
                 state, sending, journal, remote, bounds>>

\* The status _send_heartbeat journals unless it is given one.
Suspended == IF tracking_active THEN "active" ELSE "paused"
Observed == IF timer = "stopped" THEN "stopped" ELSE Suspended

ReadState ==
  /\ pc["worker"] = "read" /\ Goto("worker", "journal")
  /\ state' = [state EXCEPT !["worker"] = Observed]
  /\ UNCHANGED <<memory, mark, sending, journal, remote, bounds>>

-----------------------------------------------------------------------------
(***************************************************************************)
(* _send_heartbeat, in either thread: add_state commits the event, then    *)
(* _upload_state_one sends the oldest one.                                 *)
(***************************************************************************)

NewEvent(t, gap) ==
  [id |-> NextId, status |-> state[t],
   project |-> IF state[t] = "stopped" THEN NoProject ELSE selected,
   idle |-> IF state[t] = "paused" THEN deduct ELSE 0,
   transition |-> t = "main" \/ mark, gap |-> gap]
Journals(t) ==
  \E gap \in {FALSE} \cup (IF log = << >> THEN {} ELSE {TRUE}) :
    /\ states' = Append(states, NewEvent(t, gap)) /\ log' = Append(log, NewEvent(t, gap))
    /\ IF gap THEN Spend("gaps") ELSE UNCHANGED bounds

AddStateThenClear(t) ==
  /\ pc[t] = "journal" /\ Goto(t, "send")
  /\ Journals(t)
  /\ deduct' = 0 /\ mark' = FALSE /\ state' = [state EXCEPT ![t] = "stopped"]
  /\ beat' = FALSE
  /\ UNCHANGED <<timer, idle, selected, raising, stop, rejections,
                 sending, usage, aside, samples, remote>>
AddState(t) ==
  /\ pc[t] = "journal" /\ Goto(t, "send")
  /\ Journals(t)
  /\ deduct' = 0 /\ mark' = FALSE /\ state' = [state EXCEPT ![t] = "stopped"]
  /\ UNCHANGED <<timer, idle, selected, beat, raising, stop, rejections,
                 sending, usage, aside, samples, remote>>

\* The exception is logged; the flag is not raised again.
AddStateFails(t) ==
  /\ pc[t] = "journal" /\ Spend("failures")
  /\ Goto(t, IF t = "worker" THEN "upload" ELSE "down")
  /\ mark' = FALSE /\ state' = [state EXCEPT ![t] = "stopped"]
  /\ UNCHANGED <<memory, sending, journal, remote>>

SendNewest(t) ==
  /\ pc[t] = "send" /\ states # << >>
  /\ Goto(t, "wait")
  /\ sending' = [sending EXCEPT ![t] = Last(states).id]
  /\ UNCHANGED <<memory, mark, state, journal, remote, bounds>>
SendState(t) ==
  /\ pc[t] = "send" /\ states # << >>
  /\ Goto(t, "wait")
  /\ sending' = [sending EXCEPT ![t] = Head(states).id]
  /\ UNCHANGED <<memory, mark, state, journal, remote, bounds>>

NothingToSend(t) ==
  /\ pc[t] = "send" /\ states = << >>
  /\ Goto(t, IF t = "worker" THEN "upload" ELSE "down")
  /\ UNCHANGED <<memory, mark, state, sending, journal, remote, bounds>>

\* The upload section: states first, then usage.  It is skipped until due.
UploadUsageFirst ==
  /\ pc["worker"] = "upload"
  /\ \/ usage # << >> /\ Goto("worker", "waitUsage")
        /\ sending' = [sending EXCEPT !["worker"] = Head(usage)]
     \/ usage = << >> /\ states # << >> /\ Goto("worker", "waitState")
        /\ sending' = [sending EXCEPT !["worker"] = Head(states).id]
     \/ Goto("worker", "loop") /\ UNCHANGED sending
  /\ UNCHANGED <<memory, mark, state, journal, remote, bounds>>
Upload ==
  /\ pc["worker"] = "upload"
  /\ \/ states # << >> /\ Goto("worker", "waitState")
        /\ sending' = [sending EXCEPT !["worker"] = Head(states).id]
     \/ states = << >> /\ usage # << >> /\ Goto("worker", "waitUsage")
        /\ sending' = [sending EXCEPT !["worker"] = Head(usage)]
     \/ Goto("worker", "loop") /\ UNCHANGED sending
  /\ UNCHANGED <<memory, mark, state, journal, remote, bounds>>

-----------------------------------------------------------------------------
(***************************************************************************)
(* The server's side of a state event, in outline (module WorkSessions has *)
(* it in full): an event it has a receipt of is answered and not applied   *)
(* again.                                                                  *)
(***************************************************************************)

EventOf(id) == CHOOSE e \in ToSet(log) : e.id = id

\* _close_segment never ends a segment before its start.
Close(at) ==
  {IF s.to = Open THEN [s EXCEPT !.to = IF at < s.from THEN s.from ELSE at] ELSE s :
   s \in spans}

\* A late copy of an event counts from the newest one the server has, and is then
\* as new as that one.
Newest ==
  LET tops == {n \in ToSet(applied) : \A m \in ToSet(applied) : m <= n}
  IN  IF tops = {} THEN NoEvent ELSE CHOOSE n \in tops : TRUE
CountsFrom(e) == IF e.id < Newest THEN Newest ELSE e.id
NewestReceipts == {applied[i] : i \in {j \in DOMAIN applied : Newest \in {applied[h] : h \in 1 .. j}}}

\* More than a lease passed before e, or may have passed because the states in
\* between were refused.
Slept(n, e) == \E x \in ToSet(log) : n < x.id /\ x.id <= e.id /\ x.gap
Skipped(n, e) == \E x \in ToSet(log) : n < x.id /\ x.id < e.id /\ x.id \in aside
MayLapse(e) ==
  /\ server.status # "stopped" /\ (Slept(Newest, e) \/ Skipped(Newest, e))
  /\ \E p \in NewestReceipts : EventOf(p).status = "active"
MustLapse(e) ==
  /\ server.status # "stopped" /\ Slept(Newest, e)
  /\ \A p \in NewestReceipts : EventOf(p).status = "active"

\* A gap stops the session one heartbeat after its last sign of life.  Otherwise a
\* pause ends the segment where the idle stretch began, or somewhat later if the
\* pause was journalled later; and any other change of state or project ends it.
Opened(e) == IF e.status = "active" THEN {[from |-> CountsFrom(e), to |-> Open]} ELSE {}
GoesOn(e) == e.status = "active" /\ server = [status |-> "active", project |-> e.project]
Deducts(e) == /\ e.status = "paused" /\ e.idle # 0
              /\ server = [status |-> "active", project |-> e.project]
Apply(e) ==
  IF e.id \in ToSet(applied) THEN UNCHANGED remote
  ELSE /\ applied' = Append(applied, e.id)
       /\ server' = [status |-> e.status, project |-> e.project]
       /\ \/ /\ MayLapse(e)
             /\ \E at \in Newest .. e.id - 1 : spans' = Close(at) \cup Opened(e)
          \/ ~MustLapse(e) /\ GoesOn(e) /\ UNCHANGED spans
          \/ /\ ~MustLapse(e) /\ Deducts(e)
             /\ \E at \in e.idle - 1 .. CountsFrom(e) : spans' = Close(at)
          \/ /\ ~MustLapse(e) /\ ~GoesOn(e) /\ ~Deducts(e)
             /\ spans' = Close(CountsFrom(e)) \cup Opened(e)

Covered(at) == \E s \in spans : s.from <= at /\ (s.to = Open \/ s.to >= at)

-----------------------------------------------------------------------------
(***************************************************************************)
(* The answer to a request under way, by the thread that waits for it.     *)
(***************************************************************************)

Waiting(t) == pc[t] \in {"wait", "waitState"}
Done(t) ==
  /\ Goto(t, IF t = "main" THEN "down"
             ELSE IF pc[t] = "wait" THEN "upload" ELSE "loop")
  /\ sending' = [sending EXCEPT ![t] = NoEvent]

\* DELETE by id: ids are unique, so there is one row to remove or none.
RemoveIn(s, I) == IF I = {} THEN s ELSE RemoveAt(s, CHOOSE i \in I : TRUE)
Without(s, id) == RemoveIn(s, {i \in DOMAIN s : s[i].id = id})
UsageWithout(id) == RemoveIn(usage, {i \in DOMAIN usage : usage[i] = id})

\* Applied, answered, acknowledged.
StateAccepted(t) ==
  /\ Waiting(t) /\ Done(t)
  /\ Apply(EventOf(sending[t]))
  /\ states' = Without(states, sending[t])
  /\ rejections' = 0
  /\ UNCHANGED <<timer, idle, deduct, selected, beat, raising, stop, mark, state,
                 usage, aside, log, samples, bounds>>

\* Applied, but the answer is lost: the event stays queued.
StateAnswerLost(t) ==
  /\ Waiting(t) /\ Done(t)
  /\ Apply(EventOf(sending[t]))
  /\ UNCHANGED <<memory, mark, state, journal, bounds>>

\* Unreachable, or a failure of the server.
Offline(t) ==
  /\ Waiting(t) \/ pc[t] = "waitUsage"
  /\ Done(t)
  /\ UNCHANGED <<memory, mark, state, journal, remote, bounds>>

\* Refused for good (the server checks the work of active and paused events, and
\* does so before it looks for a receipt).  If the event is the latest word on
\* the current work, the timer stops.
CurrentRejected(e, rest) ==
  e.status # "stopped" /\ e.project = selected /\ rest = << >> /\ timer # "stopped"

StateRefused(t) ==
  LET e == EventOf(sending[t])
      rest == Without(states, sending[t])
  IN  /\ Waiting(t) /\ Done(t) /\ Spend("refusals")
      /\ e.status # "stopped"
      /\ aside' = aside \cup {e.id}
      /\ states' = rest
      /\ IF CurrentRejected(e, rest)
         THEN timer' = "stopped" /\ idle' = FALSE /\ beat' = TRUE
         ELSE UNCHANGED <<timer, idle, beat>>
      /\ UNCHANGED <<deduct, selected, raising, stop, rejections, mark, state,
                     usage, log, samples, remote>>

\* _note_rejection: the third 401 ends the agent.
TokenRetried(t) ==
  /\ Waiting(t) \/ pc[t] = "waitUsage"
  /\ Done(t) /\ Spend("unknown")
  /\ rejections' = rejections + 1
  /\ UNCHANGED <<timer, idle, deduct, selected, beat, raising, stop, mark, state,
                 journal, remote>>
TokenRefused(t) ==
  /\ Waiting(t) \/ pc[t] = "waitUsage"
  /\ Done(t) /\ Spend("unknown")
  /\ rejections' = rejections + 1
  /\ stop' = (stop \/ rejections' >= MAX_REJECTIONS)
  /\ UNCHANGED <<timer, idle, deduct, selected, beat, raising, mark, state,
                 journal, remote>>

\* A sample is stored when a tracked segment covers it, else it is refused with
\* 409 and set aside.
UsageAnswered ==
  /\ pc["worker"] = "waitUsage" /\ Done("worker")
  /\ usage' = UsageWithout(sending["worker"])
  /\ IF Covered(sending["worker"])
     THEN rejections' = 0 /\ UNCHANGED aside
     ELSE aside' = aside \cup {sending["worker"]} /\ UNCHANGED rejections
  /\ UNCHANGED <<timer, idle, deduct, selected, beat, raising, stop, mark, state,
                 states, log, samples, remote, bounds>>

-----------------------------------------------------------------------------
(***************************************************************************)
(* Launch, orderly exit and crash.                                         *)
(***************************************************************************)

\* What a new process begins with; what a dead one held does not matter.
Fresh ==
  /\ timer' = "stopped" /\ idle' = FALSE /\ deduct' = 0
  /\ beat' = FALSE /\ raising' = FALSE /\ stop' = FALSE /\ rejections' = 0
  /\ mark' = FALSE /\ state' = [t \in Threads |-> "stopped"]
  /\ sending' = [t \in Threads |-> NoEvent]
  /\ selected' = Configured

\* __init__ and start(): the timer is stopped, the worker starts, and then the
\* flag is raised so that a session a crash left open is closed.
Launch ==
  /\ pc = [t \in Threads |-> "down"] /\ Spend("launches")
  /\ pc' = [pc EXCEPT !["worker"] = "loop", !["main"] = "start"]
  /\ Fresh /\ UNCHANGED <<journal, remote>>

StartedQuietly ==
  /\ pc["main"] = "start" /\ Goto("main", "run")
  /\ UNCHANGED <<memory, mark, state, sending, journal, remote, bounds>>
Started ==
  /\ pc["main"] = "start" /\ Goto("main", "run")
  /\ beat' = TRUE
  /\ UNCHANGED <<timer, idle, deduct, selected, raising, stop, rejections, mark,
                 state, sending, journal, remote, bounds>>

\* stop(), from the tray, a signal or after stop_event.
Quit ==
  /\ pc["main"] = "run" /\ Goto("main", "join")
  /\ stop' = TRUE
  /\ UNCHANGED <<timer, idle, deduct, selected, beat, raising, rejections, mark,
                 state, sending, journal, remote, bounds>>

\* The worker ended, or 8 seconds are over; a request may take 30.
JoinedAtOnce ==
  /\ pc["main"] = "join" /\ Goto("main", "journal")
  /\ state' = [state EXCEPT !["main"] = "stopped"]
  /\ UNCHANGED <<memory, mark, sending, journal, remote, bounds>>
Joined ==
  /\ pc["main"] = "join" /\ Goto("main", "journal")
  /\ pc["worker"] = "down" \/ scope.outlives
  /\ state' = [state EXCEPT !["main"] = "stopped"]
  /\ UNCHANGED <<memory, mark, sending, journal, remote, bounds>>

\* The process ends, and the worker with it if it still runs.
Exit ==
  /\ pc["main"] = "down" /\ pc["worker"] # "down" /\ Goto("worker", "down")
  /\ Fresh /\ UNCHANGED <<journal, remote, bounds>>

Crash ==
  /\ Up /\ Spend("crashes")
  /\ pc' = [t \in Threads |-> "down"]
  /\ Fresh /\ UNCHANGED <<journal, remote>>

-----------------------------------------------------------------------------
Employee ==
  \/ StartTracking \/ PauseTracking \/ ResumeTracking \/ StopTracking
  \/ \E p \in scope.projects : SelectWork(p)

Answer(t) == StateAccepted(t) \/ StateAnswerLost(t) \/ Offline(t) \/ StateRefused(t)
             \/ TokenRefused(t)

Worker ==
  \/ Loop \/ StaysAsItWas \/ BecomesIdle \/ ComesBack
  \/ Observe \/ ObserveFails \/ NotObserved
  \/ ReadFlag \/ ClearFlag \/ ReadState \/ Upload \/ UsageAnswered

Heartbeat(t) == \/ AddState(t) \/ AddStateFails(t) \/ SendState(t)
                \/ NothingToSend(t) \/ Answer(t)

Main == Started \/ Joined \/ Exit

Next == \/ Employee \/ RaiseFlag \/ Worker \/ Main \/ Launch \/ Quit \/ Crash
        \/ \E t \in Threads : Heartbeat(t)

\* The threads run, an upload comes due again and again, and a server that is
\* not gone for good answers now and then.  The employee owes nothing.
Fairness ==
  /\ WF_vars(Worker) /\ WF_vars(RaiseFlag) /\ WF_vars(Main)
  /\ WF_vars(stop /\ Quit)
  /\ \A t \in Threads : WF_vars(Heartbeat(t)) /\ SF_vars(StateAccepted(t))
  /\ SF_vars(Upload /\ pc'["worker"] = "waitState")

Spec == Init /\ [][Next]_vars /\ Fairness

-----------------------------------------------------------------------------
(***************************************************************************)
(* Properties.                                                             *)
(***************************************************************************)

Ids(events) == {e.id : e \in ToSet(events)}
Failed == left.failures < scope.failures
Crashed == left.crashes < scope.crashes

\* A journalled event is applied, still queued or in quarantine, whatever
\* crashes, lost answers and two uploading threads do (README.md: every
\* transition is committed before network access).
NoEventLost == Ids(log) \subseteq ToSet(applied) \cup Ids(states) \cup aside

\* No button press falls between the flag and the journal: when no flag is
\* raised and the worker is not about to journal, the last journalled event
\* says what the timer shows.
Describes(e) == /\ e.status = Observed
                /\ e.project = IF timer = "stopped" THEN NoProject ELSE selected
TimerIsJournalled ==
  /\ pc["main"] = "run" /\ ~stop /\ ~beat /\ ~raising /\ ~Failed
  /\ pc["worker"] \notin {"clear", "read", "journal"}
  => log # << >> /\ Describes(Last(log))

\* The server applies the events in the order they were journalled, each once,
\* although two threads may send the same one (pending_states sends the oldest).
\* Only an event that the server has refused to one thread may come late, when
\* the other thread's copy of it is accepted after all.
AppliedInOrder ==
  \A i, j \in DOMAIN applied : i < j =>
     /\ applied[i] # applied[j]
     /\ applied[i] < applied[j] \/ applied[j] \in aside

\* The journal is replayed whole and in order (add_state, pending_states and the
\* worker's uploads beside the final flush).
JournalIsReplayed == NoEventLost /\ AppliedInOrder

\* After an orderly exit the last word of the journal is a stop, so replaying it
\* closes the session (comment in run: the session must be closed).
ExitClosesTheSession ==
  pc = [t \in Threads |-> "down"] /\ ~Crashed /\ ~Failed
  => log = << >> \/ Last(log).status = "stopped"
TimelyExitClosesTheSession == ~scope.outlives => ExitClosesTheSession

\* A usage sample taken while the journal said active is not refused for want of a
\* segment: the states are uploaded first (comment in _work_loop).  It may be if the
\* server refused that state itself, if more than a lease passed until the next
\* state the server took, or if the pause that ended this work, on the same
\* project all along, deducts the time at which the sample was taken.  (A refused
\* event that comes late may close a segment it should not.)
NothingCameLate == \A i, j \in DOMAIN applied : i < j => applied[i] < applied[j]
Precedes(e, id) == e.id < id /\ \A f \in ToSet(log) : f.id < id => f.id <= e.id
AppliedAfter(id) == {f \in ToSet(log) : f.id > id /\ f.id \in ToSet(applied)}
LapseBehind(e, id) ==
  \E f \in AppliedAfter(id) : /\ (\A x \in AppliedAfter(id) : f.id <= x.id)
                             /\ (Slept(e.id, f) \/ Skipped(e.id, f))
IdleBehind(e, id) ==
  \E p \in AppliedAfter(id) :
     /\ p.idle \in 1 .. id /\ p.project = e.project
     /\ \A x \in AppliedAfter(id) :
          x.id < p.id => x.status = "active" /\ x.project = e.project
SampleFindsItsSession ==
  NothingCameLate =>
  \A id \in aside \cap samples, e \in ToSet(log) :
     Precedes(e, id) => \/ e.status # "active" \/ e.id \in aside
                        \/ LapseBehind(e, id) \/ IdleBehind(e, id)

\* An agent that is told to stop, or whose token was refused three times, ends:
\* no thread waits for another for ever.
EndsOnceStopped ==
  stop \/ rejections >= MAX_REJECTIONS ~> pc = [t \in Threads |-> "down"]

\* Once the employee and the refusals pause, the server comes to show what the
\* timer shows, for as long as the agent runs, unless a journal write failed.
Shown == /\ server.status = Observed
         /\ server.project = IF timer = "stopped" THEN NoProject ELSE selected
ServerConverges == <>[](Up /\ ~stop /\ ~Failed => Shown)
=============================================================================
