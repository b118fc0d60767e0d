------------------------------ MODULE PaidTime ------------------------------
(***************************************************************************)
(* One member's time on its way to the payroll: pay periods with their     *)
(* timesheets, manual time and its review, and the payroll run.            *)
(*                                                                         *)
(* Transactions run at READ COMMITTED, so a request that reads, decides    *)
(* and writes is two steps of a thread; a row read FOR UPDATE and written  *)
(* in the next statement is one step.  Time is counted in half days: slot  *)
(* t lies in day t \div 2 of the database, which dates a piece of time by  *)
(* its start, and in day (t + zone) \div 2 of the organisation, by whose   *)
(* days the payroll cuts.  The owner may change the zone at any time.      *)
(***************************************************************************)
EXTENDS Integers, Sequences, FiniteSets, FiniteSetsExt

CONSTANTS
  LastDay,        \* bound on the calendar: days 0 .. LastDay
  Periods,        \* the pay periods in use, pairs of a first and a last day
  EntryIds,       \* manual time entries
  Spans,          \* what an entry may span, pairs of slots
  LateSpans,      \* what a device that was away may report
  Threads,        \* requests at work
  Zones,          \* time zones: half days the organisation may be ahead of the database
  NeedsApproval   \* require_timesheet_approval of the member

ASSUME CalendarAssumption ==
  /\ LastDay \in Nat /\ Zones \subseteq -1 .. 1 /\ NeedsApproval \in BOOLEAN
  /\ \A p \in Periods : /\ p \in (0 .. LastDay) \X (0 .. LastDay)
                        /\ p[1] <= p[2]
  /\ \A s \in Spans \cup LateSpans : s \in Nat \X Nat /\ s[1] < s[2]

VARIABLES
  now,       \* the present slot
  zone,      \* organization_settings.timezone
  sheets,    \* timesheets: the status of each period's row, or "none"
  working,   \* the start of the open segment, or NoSlot
  tracked,   \* the closed segments
  entries,   \* manual_time_entries
  payrolls,  \* payroll_payments in the order of their insertion
  threads    \* what each request is about to write

timeVars == <<now, zone, sheets, working, tracked, entries, payrolls, threads>>

NoSlot == -1
End == 2 * (LastDay + 1)
Day(t) == t \div 2
LocalDay(t, z) == (t + z) \div 2
Within(day, p) == p[1] <= day /\ day <= p[2]
Meet(p, q) == p[1] <= q[2] /\ q[1] <= p[2]

NoEntry == [span |-> <<0, 0>>, status |-> "none", overtaken |-> FALSE]
Segment == [span : (0 .. End) \X (0 .. End), late : BOOLEAN]
\* overtaken: the last review read the timesheets before one was approved, and
\* wrote after it.  Kept for the properties.
Entry == [span : Spans, status : {"pending", "approved", "rejected"},
          overtaken : BOOLEAN] \cup {NoEntry}
\* A piece of time as the payroll run reads it: a segment, or an entry.
Piece == ({"segment"} \X ((0 .. End) \X (0 .. End)) \X BOOLEAN)
         \cup ({"manual"} \X Spans \X EntryIds)
\* paid holds the half days a run adds up, each with the piece it is paid for.
\* The zone it cut its days by and the entries it counted are kept for the
\* properties.
Payroll == [period : Periods, zone : Zones, sheet : BOOLEAN,
            paid : SUBSET (Piece \X (0 .. End)), counted : SUBSET EntryIds]

Idle == [pc |-> "idle", period |-> <<0, 0>>, entry |-> NoSlot, span |-> <<0, 0>>,
         zone |-> 0, status |-> "none", overtaken |-> FALSE]
Thread == [pc : {"idle", "submit", "add", "decide", "pay"},
           period : Periods \cup {<<0, 0>>}, entry : EntryIds \cup {NoSlot},
           span : Spans \cup {<<0, 0>>}, zone : Zones \cup {0}, status : {"none", "approved", "rejected"},
           overtaken : BOOLEAN]

TimeTypeOK ==
  /\ now \in 0 .. End /\ zone \in Zones
  /\ sheets \in [Periods -> {"none", "open", "submitted", "approved", "rejected"}]
  /\ working \in {NoSlot} \cup (0 .. End)
  /\ tracked \subseteq Segment
  /\ entries \in [EntryIds -> Entry]
  /\ payrolls \in Seq(Payroll)
  /\ threads \in [Threads -> Thread]

TimeInit ==
  /\ now = 0 /\ zone \in Zones /\ sheets = [p \in Periods |-> "none"]
  /\ working = NoSlot /\ tracked = {} /\ payrolls = <<>>
  /\ entries = [i \in EntryIds |-> NoEntry]
  /\ threads = [w \in Threads |-> Idle]

Becomes(w, t) == threads' = [threads EXCEPT ![w] = t]
Ends(w) == Becomes(w, Idle)

------------------------------------------------------------------------------
(***************************************************************************)
(* Tracked time, as the work session engine leaves it.  A device may track *)
(* while no approved period covers the day, and a device that was away     *)
(* replays what it saw, beside what another device tracked meanwhile.      *)
(***************************************************************************)

is_period_locked(day) == \E p \in Periods : sheets[p] = "approved" /\ Within(day, p)

StartWork ==
  /\ working = NoSlot /\ now < End /\ ~is_period_locked(Day(now))
  /\ working' = now
  /\ UNCHANGED <<now, zone, sheets, tracked, entries, payrolls, threads>>

\* A stop is accepted in a locked period too; a lease may end the segment earlier.
StopWork ==
  /\ working # NoSlot
  /\ working' = NoSlot
  /\ \E to \in working .. now :
       tracked' = IF to = working THEN tracked
                  ELSE tracked \cup {[span |-> <<working, to>>, late |-> FALSE]}
  /\ UNCHANGED <<now, zone, sheets, entries, payrolls, threads>>

ReplayWork(span) ==
  /\ span[2] <= now /\ \A s \in tracked : ~s.late
  /\ \A t \in span[1] .. span[2] - 1 : ~is_period_locked(Day(t))
  /\ tracked' = tracked \cup {[span |-> span, late |-> TRUE]}
  /\ UNCHANGED <<now, zone, sheets, working, entries, payrolls, threads>>

Tick ==
  /\ now < End
  /\ now' = now + 1
  /\ UNCHANGED <<zone, sheets, working, tracked, entries, payrolls, threads>>

------------------------------------------------------------------------------
(***************************************************************************)
(* Timesheets.                                                             *)
(***************************************************************************)

\* The daily job inserts the current period's row; which period that is
\* follows from a setting the owner may change.
GenerateOpen ==
  /\ NeedsApproval
  /\ \E p \in Periods : /\ Within(Day(now), p) /\ sheets[p] = "none"
                        /\ sheets' = [sheets EXCEPT ![p] = "open"]
  /\ UNCHANGED <<now, zone, working, tracked, entries, payrolls, threads>>

Starts(span, p) == Within(Day(span[1]), p)

SubmitChecks(w, p) ==
  /\ threads[w].pc = "idle" /\ working = NoSlot
  /\ \A i \in EntryIds : ~(entries[i].status = "pending" /\ Starts(entries[i].span, p))
  /\ Becomes(w, [Idle EXCEPT !.pc = "submit", !.period = p])
  /\ UNCHANGED <<now, zone, sheets, working, tracked, entries, payrolls>>

SubmitWritesAlways(w) ==
  /\ threads[w].pc = "submit"
  /\ sheets' = [sheets EXCEPT ![threads[w].period] = "submitted"]
  /\ Ends(w)
  /\ UNCHANGED <<now, zone, working, tracked, entries, payrolls>>

SubmitWrites(w) ==
  /\ threads[w].pc = "submit"
  /\ sheets' = IF sheets[threads[w].period] = "approved" THEN sheets
               ELSE [sheets EXCEPT ![threads[w].period] = "submitted"]
  /\ Ends(w)
  /\ UNCHANGED <<now, zone, working, tracked, entries, payrolls>>

\* A review.  An approval overtakes the reviews of manual time in the period that
\* have passed their check of the timesheets.
ReviewSheet(p, decision) ==
  /\ sheets[p] = "submitted"
  /\ sheets' = [sheets EXCEPT ![p] = decision]
  /\ threads' = [w \in Threads |->
       [threads[w] EXCEPT !.overtaken =
          @ \/ /\ decision = "approved" /\ threads[w].pc = "decide"
               /\ Starts(entries[threads[w].entry].span, p)]]
  /\ UNCHANGED <<now, zone, working, tracked, entries, payrolls>>

------------------------------------------------------------------------------
(***************************************************************************)
(* Manual time: added by the member, or for the member by a manager, whose *)
(* entries are approved at once; reviewed, and reviewed again.             *)
(***************************************************************************)

\* The whole span is checked when an entry is added ...
AddChecks(w, i, span) ==
  /\ threads[w].pc = "idle" /\ entries[i] = NoEntry
  /\ \A v \in Threads : ~(threads[v].pc = "add" /\ threads[v].entry = i)
  /\ \A p \in Periods : sheets[p] = "approved" =>
       ~Meet(p, <<Day(span[1]), Day(span[2])>>)
  /\ Becomes(w, [Idle EXCEPT !.pc = "add", !.entry = i, !.span = span])
  /\ UNCHANGED <<now, zone, sheets, working, tracked, entries, payrolls>>

AddWrites(w) ==
  /\ threads[w].pc = "add"
  /\ \E status \in {"pending", "approved"} :
       entries' = [entries EXCEPT ![threads[w].entry] =
                     [NoEntry EXCEPT !.span = threads[w].span, !.status = status]]
  /\ Ends(w)
  /\ UNCHANGED <<now, zone, sheets, working, tracked, payrolls>>

\* ... and its first day when it is reviewed, under a lock on its row.
ReviewChecks(w, i, status) ==
  /\ threads[w].pc = "idle" /\ entries[i] # NoEntry
  /\ \A v \in Threads : ~(threads[v].pc = "decide" /\ threads[v].entry = i)
  /\ ~is_period_locked(Day(entries[i].span[1]))
  /\ Becomes(w, [Idle EXCEPT !.pc = "decide", !.entry = i, !.status = status])
  /\ UNCHANGED <<now, zone, sheets, working, tracked, entries, payrolls>>

ReviewWrites(w) ==
  /\ threads[w].pc = "decide"
  /\ entries' = [entries EXCEPT ![threads[w].entry].status = threads[w].status,
                                ![threads[w].entry].overtaken = @ \/ threads[w].overtaken]
  /\ Ends(w)
  /\ UNCHANGED <<now, zone, sheets, working, tracked, payrolls>>

------------------------------------------------------------------------------
(***************************************************************************)
(* The payroll run, one at a time for a member.                            *)
(***************************************************************************)

\* The owner sets another time zone: no lock, no look at the payroll runs so far.
update_organization_settings ==
  /\ zone' \in Zones
  /\ UNCHANGED <<now, sheets, working, tracked, entries, payrolls, threads>>

\* The half days of a span that a period covers, by the days of a zone.
Slots(span, p, z) == {t \in span[1] .. span[2] - 1 : Within(LocalDay(t, z), p)}

\* The rows the run reads: closed segments and approved entries.
Counted == {i \in EntryIds : entries[i].status = "approved"}
Payable(p, z) ==
  {r \in {<<"segment", s.span, s.late>> : s \in tracked}
         \cup {<<"manual", entries[i].span, i>> : i \in Counted} : Slots(r[2], p, z) # {}}
Overlapping(p, z) ==
  \E r, q \in Payable(p, z) : r # q /\ Slots(r[2], p, z) \cap Slots(q[2], p, z) # {}

PayrollLockNotTaken == FALSE
PayrollIsRunning == \E v \in Threads : threads[v].pc = "pay"

\* The run compares its dates with those of the earlier runs, and reads the zone.
PayrollChecks(w, p) ==
  /\ threads[w].pc = "idle" /\ ~PayrollIsRunning
  /\ \A k \in 1 .. Len(payrolls) : ~Meet(p, payrolls[k].period)
  /\ NeedsApproval => sheets[p] = "approved"
  /\ p[2] < LocalDay(now, zone)
  /\ Becomes(w, [Idle EXCEPT !.pc = "pay", !.period = p, !.zone = zone])
  /\ UNCHANGED <<now, zone, sheets, working, tracked, entries, payrolls>>

\* Then it reads the rows.  Overlapping time and an empty period are refused.
PayrollInserts(w) ==
  LET p == threads[w].period
      z == threads[w].zone
  IN
  /\ threads[w].pc = "pay"
  /\ payrolls' =
       IF Overlapping(p, z) \/ Payable(p, z) = {} THEN payrolls
       ELSE Append(payrolls,
              [period |-> p, zone |-> z, sheet |-> NeedsApproval,
               paid |-> UNION {{r} \X Slots(r[2], p, z) : r \in Payable(p, z)},
               counted |-> {i \in Counted : Slots(entries[i].span, p, z) # {}}])
  /\ Ends(w)
  /\ UNCHANGED <<now, zone, sheets, working, tracked, entries>>

\* A request is cut off: its transaction is rolled back.
Abandon(w) ==
  /\ threads[w].pc # "idle"
  /\ Ends(w)
  /\ UNCHANGED <<now, zone, sheets, working, tracked, entries, payrolls>>

------------------------------------------------------------------------------
Request(w) ==
  \/ \E p \in Periods : SubmitChecks(w, p) \/ PayrollChecks(w, p)
  \/ \E i \in EntryIds : \/ \E s \in Spans : AddChecks(w, i, s)
                         \/ \E d \in {"approved", "rejected"} : ReviewChecks(w, i, d)
  \/ SubmitWrites(w) \/ AddWrites(w) \/ ReviewWrites(w) \/ PayrollInserts(w)
  \/ Abandon(w)

TimeNext ==
  \/ StartWork \/ StopWork \/ Tick \/ GenerateOpen \/ update_organization_settings
  \/ \E s \in LateSpans : ReplayWork(s)
  \/ \E p \in Periods, d \in {"approved", "rejected"} : ReviewSheet(p, d)
  \/ \E w \in Threads : Request(w)

TimeSpec == TimeInit /\ [][TimeNext]_timeVars

------------------------------------------------------------------------------
\* No instant is paid twice, neither by one run that adds up overlapping rows nor
\* by two runs under the same time zone.  Runs under different zones may share the
\* instants that the days of both cover: only dates are compared (create_payroll's
\* lock, its check for an overlapping run and its refusal of overlapping time).
NoInstantPaidTwice ==
  \A k, j \in 1 .. Len(payrolls) : \A x \in payrolls[k].paid, y \in payrolls[j].paid :
    x[2] = y[2] /\ payrolls[k].zone = payrolls[j].zone => k = j /\ x[1] = y[1]

\* Manual time that an approved timesheet covers and the payroll has paid stays
\* approved, unless a review read the timesheets before the approval and wrote
\* after it (review_item, review_timesheet and submit_timesheet together).
PaidEntriesStand ==
  \A k \in 1 .. Len(payrolls) : \A i \in payrolls[k].counted :
    /\ payrolls[k].sheet
    /\ Starts(entries[i].span, payrolls[k].period)
    /\ ~entries[i].overtaken
    => entries[i].status = "approved"

\* What submit_timesheet asks for: nothing in an approved timesheet is still
\* waiting for its review.
NothingPendingInApproved ==
  \A p \in Periods, i \in EntryIds :
    sheets[p] = "approved" /\ Starts(entries[i].span, p)
      => entries[i].status # "pending"
=============================================================================
