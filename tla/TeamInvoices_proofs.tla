------------------------ MODULE TeamInvoices_proofs ------------------------
(***************************************************************************)
(* For any periods, entries, invoices and requests: no instant is paid     *)
(* twice, paid entries stay approved, no time is billed twice, and a       *)
(* document that counts as sealed shows its invoice unless seals raced.    *)
(***************************************************************************)
EXTENDS TeamInvoices, TLAPS

(***************************************************************************)
(* Time and payroll.  A request acts on what it read: a payroll run holds  *)
(* the member's lock, so the rows it was compared with are still all rows  *)
(* when it inserts; a review of manual time does not, so an approval that  *)
(* comes between its check and its write must be told apart.               *)
(***************************************************************************)
Paying(w) == threads[w].pc = "pay"
Known(i) == entries[i].status # "none"

\* What a request carries is what it asked about.
Asked ==
  \A w \in Threads :
    /\ threads[w].pc \in {"submit", "pay"} => threads[w].period \in Periods
    /\ threads[w].pc = "pay" => threads[w].zone \in Zones
    /\ threads[w].pc \in {"add", "decide"} => threads[w].entry \in EntryIds
    /\ threads[w].pc = "add" => threads[w].span \in Spans
    /\ threads[w].pc = "decide" => threads[w].status \in {"approved", "rejected"}

\* One run at a time, for a period that meets that of no earlier run.
Alone == \A v, w \in Threads : Paying(v) /\ Paying(w) => v = w
Compared ==
  \A w \in Threads : Paying(w) =>
    /\ \A k \in 1 .. Len(payrolls) : ~Meet(threads[w].period, payrolls[k].period)
    /\ NeedsApproval => sheets[threads[w].period] = "approved"
\* What a run has paid lies in its period, and no piece of it overlaps another.
PaysOnce ==
  \A k \in 1 .. Len(payrolls) : \A x \in payrolls[k].paid :
    /\ Within(LocalDay(x[2], payrolls[k].zone), payrolls[k].period)
    /\ \A y \in payrolls[k].paid : x[2] = y[2] => x[1] = y[1]
PeriodsApart ==
  \A k \in 1 .. Len(payrolls) : \A j \in 1 .. k - 1 :
    ~Meet(payrolls[k].period, payrolls[j].period)

\* An entry is written by the one request that adds it ...
Adding ==
  \A w \in Threads : threads[w].pc = "add" =>
    /\ entries[threads[w].entry] = NoEntry
    /\ \A v \in Threads :
         threads[v].pc = "add" /\ threads[v].entry = threads[w].entry => v = w
\* ... and a review of an entry that an approved timesheet covers was overtaken.
Deciding ==
  \A w \in Threads : threads[w].pc = "decide" =>
    /\ Known(threads[w].entry)
    /\ \A p \in Periods :
         sheets[p] = "approved" /\ Starts(entries[threads[w].entry].span, p)
           => threads[w].overtaken
\* A timesheet that a run went by stays approved, and the entries stay.
Settled ==
  \A k \in 1 .. Len(payrolls) :
    /\ payrolls[k].sheet => sheets[payrolls[k].period] = "approved"
    /\ \A i \in payrolls[k].counted : Known(i)

PayInv == Alone /\ Compared /\ PaysOnce /\ PeriodsApart
EntryInv == Adding /\ Deciding /\ Settled /\ PaidEntriesStand
TimeInv == TimeTypeOK /\ Asked /\ PayInv /\ EntryInv

------------------------------------------------------------------------------
LEMMA PeriodsAreDays ==
  \A p \in Periods : p[1] \in Int /\ p[2] \in Int /\ p[2] <= LastDay
  BY CalendarAssumption DEF CalendarAssumption

LEMMA LocalDayIsADay == \A t \in Int, z \in Zones : LocalDay(t, z) \in Int
  BY CalendarAssumption DEF CalendarAssumption, LocalDay

LEMMA ZoneHasType == TimeInv => zone \in Zones
  BY DEF TimeInv, TimeTypeOK

LEMMA IdleIsAThread == Idle \in Thread /\ Idle.pc = "idle"
  BY DEF Idle, Thread

LEMMA NoEntryIsNone == NoEntry \in Entry /\ NoEntry.status = "none" /\ NoEntry.overtaken = FALSE
  BY DEF NoEntry, Entry

LEMMA KnownEntries ==
  ASSUME TimeTypeOK, NEW i \in EntryIds
  PROVE  /\ entries[i] \in Entry
         /\ Known(i) <=> entries[i] # NoEntry
BY NoEntryIsNone DEF TimeTypeOK, Entry, Known

LEMMA PayrollsAreASequence ==
  TimeTypeOK => /\ Len(payrolls) \in Nat
                /\ \A k \in 1 .. Len(payrolls) : payrolls[k] \in Payroll
  BY DEF TimeTypeOK

\* What Becomes does to the requests.
LEMMA Becoming ==
  ASSUME TimeTypeOK, NEW w \in Threads, NEW t, Becomes(w, t)
  PROVE  /\ threads'[w] = t
         /\ \A v \in Threads : v # w => threads'[v] = threads[v]
BY DEF TimeTypeOK, Becomes

\* Two runs in one time zone over periods that do not meet pay for no time both.
LEMMA PayInvIsEnough == TimeTypeOK /\ PayInv => NoInstantPaidTwice
<1> SUFFICES ASSUME TimeTypeOK, PayInv,
                    NEW k \in 1 .. Len(payrolls), NEW j \in 1 .. Len(payrolls),
                    NEW x \in payrolls[k].paid, NEW y \in payrolls[j].paid, x[2] = y[2],
                    payrolls[k].zone = payrolls[j].zone
             PROVE  k = j /\ x[1] = y[1]
  BY DEF NoInstantPaidTwice
<1>1. payrolls[k] \in Payroll /\ payrolls[j] \in Payroll /\ Len(payrolls) \in Nat
  BY PayrollsAreASequence
<1>2. x[2] \in Int
  BY <1>1, CalendarAssumption DEF Payroll, End, CalendarAssumption
<1> DEFINE p == payrolls[k].period
           q == payrolls[j].period
           z == payrolls[k].zone
<1>3. Within(LocalDay(x[2], z), p) /\ Within(LocalDay(x[2], z), q)
  BY DEF PayInv, PaysOnce
<1>4. /\ p[1] \in Int /\ p[2] \in Int /\ q[1] \in Int /\ q[2] \in Int
      /\ LocalDay(x[2], z) \in Int
  BY <1>1, <1>2, PeriodsAreDays, LocalDayIsADay DEF Payroll
<1>5. Meet(p, q) /\ Meet(q, p)
  <2> HIDE DEF p, q, z
  <2> QED
    BY <1>3, <1>4 DEF Within, Meet
<1>6. k = j
  BY <1>1, <1>5 DEF PayInv, PeriodsApart
<1> QED
  BY <1>6 DEF PayInv, PaysOnce

LEMMA TimeInitHasInv == TimeInit => TimeInv
<1> SUFFICES ASSUME TimeInit PROVE TimeInv
  OBVIOUS
<1>1. threads \in [Threads -> Thread] /\ \A w \in Threads : threads[w].pc = "idle"
  BY IdleIsAThread DEF TimeInit
<1>2. payrolls = <<>> /\ Len(payrolls) = 0
  BY DEF TimeInit
<1>3. TimeTypeOK
  BY <1>1, NoEntryIsNone, CalendarAssumption
  DEF TimeInit, TimeTypeOK, End, CalendarAssumption, NoSlot
<1>4. Asked /\ Alone /\ Compared /\ Adding /\ Deciding
  BY <1>1 DEF Asked, Alone, Compared, Adding, Deciding, Paying
<1>5. PaysOnce /\ PeriodsApart /\ Settled /\ PaidEntriesStand
  BY <1>2 DEF PaysOnce, PeriodsApart, Settled, PaidEntriesStand
<1> QED
  BY <1>3, <1>4, <1>5 DEF TimeInv, PayInv, EntryInv

------------------------------------------------------------------------------
(***************************************************************************)
(* Types.                                                                  *)
(***************************************************************************)

\* What a request turns into when it is asked for.
SubmitOf(p) == [Idle EXCEPT !.pc = "submit", !.period = p]
PayOf(p, z) == [Idle EXCEPT !.pc = "pay", !.period = p, !.zone = z]
AddOf(i, s) == [Idle EXCEPT !.pc = "add", !.entry = i, !.span = s]
ReviewOf(i, d) == [Idle EXCEPT !.pc = "decide", !.entry = i, !.status = d]

LEMMA RequestFields ==
  /\ \A p \in Periods :
       /\ SubmitOf(p) \in Thread /\ SubmitOf(p).pc = "submit" /\ SubmitOf(p).period = p
       /\ \A z \in Zones :
            /\ PayOf(p, z) \in Thread /\ PayOf(p, z).pc = "pay"
            /\ PayOf(p, z).period = p /\ PayOf(p, z).zone = z
  /\ \A i \in EntryIds, s \in Spans :
       /\ AddOf(i, s) \in Thread /\ AddOf(i, s).pc = "add"
       /\ AddOf(i, s).entry = i /\ AddOf(i, s).span = s
  /\ \A i \in EntryIds, d \in {"approved", "rejected"} :
       /\ ReviewOf(i, d) \in Thread /\ ReviewOf(i, d).pc = "decide"
       /\ ReviewOf(i, d).entry = i /\ ReviewOf(i, d).status = d
  BY DEF SubmitOf, PayOf, AddOf, ReviewOf, Idle, Thread

LEMMA BecomesKeepsTypes ==
  ASSUME TimeTypeOK, NEW w \in Threads, NEW t \in Thread, Becomes(w, t),
         UNCHANGED <<now, zone, sheets, working, tracked, entries, payrolls>>
  PROVE  TimeTypeOK'
BY DEF TimeTypeOK, Becomes

\* A half day that falls in a period is on the calendar.
LEMMA SlotsAreOnCalendar ==
  ASSUME NEW p \in Periods, NEW z \in Zones, NEW s \in Nat \X Nat
  PROVE  Slots(s, p, z) \subseteq 0 .. End
<1> SUFFICES ASSUME NEW t \in Slots(s, p, z) PROVE t \in 0 .. End
  OBVIOUS
<1>1. t \in Int /\ t >= 0 /\ LocalDay(t, z) <= p[2]
  BY DEF Slots, Within
<1>2. p[2] <= LastDay /\ p[2] \in Int
  BY PeriodsAreDays
<1>3. LastDay \in Nat /\ z \in -1 .. 1
  BY CalendarAssumption DEF CalendarAssumption
<1> QED
  BY <1>1, <1>2, <1>3 DEF LocalDay, End

LEMMA PiecesHaveType ==
  ASSUME TimeTypeOK, NEW p \in Periods, NEW z \in Zones, NEW r \in Payable(p, z)
  PROVE  r \in Piece /\ r[2] \in Nat \X Nat
<1>1. (0 .. End) \X (0 .. End) \subseteq Nat \X Nat /\ Spans \subseteq Nat \X Nat
  BY CalendarAssumption DEF CalendarAssumption, End
<1>2. ASSUME NEW s \in tracked, r = <<"segment", s.span, s.late>>
      PROVE  r \in Piece /\ r[2] \in Nat \X Nat
  <2>1. s.span \in (0 .. End) \X (0 .. End) /\ s.late \in BOOLEAN
    BY DEF TimeTypeOK, Segment
  <2> QED
    BY <1>1, <1>2, <2>1 DEF Piece
<1>3. ASSUME NEW i \in Counted, r = <<"manual", entries[i].span, i>>
      PROVE  r \in Piece /\ r[2] \in Nat \X Nat
  <2>1. i \in EntryIds /\ entries[i].span \in Spans
    BY NoEntryIsNone, KnownEntries DEF Counted, Entry
  <2> QED
    BY <1>1, <1>3, <2>1 DEF Piece
<1> QED
  BY <1>2, <1>3 DEF Payable

\* The row a payroll run inserts.
PayRow(p, z) == [period |-> p, zone |-> z, sheet |-> NeedsApproval,
           paid |-> UNION {{r} \X Slots(r[2], p, z) : r \in Payable(p, z)},
           counted |-> {i \in Counted : Slots(entries[i].span, p, z) # {}}]

LEMMA RowHasType ==
  ASSUME TimeTypeOK, NEW p \in Periods, NEW z \in Zones
  PROVE  /\ PayRow(p, z) \in Payroll
         /\ PayRow(p, z).period = p /\ PayRow(p, z).zone = z
         /\ PayRow(p, z).sheet = NeedsApproval
         /\ \A x \in PayRow(p, z).paid : /\ x[1] \in Payable(p, z)
                                         /\ x[2] \in Slots(x[1][2], p, z)
         /\ PayRow(p, z).counted \subseteq Counted
<1>1. \A r \in Payable(p, z) : r \in Piece /\ Slots(r[2], p, z) \subseteq 0 .. End
  BY PiecesHaveType, SlotsAreOnCalendar
<1>2. UNION {{r} \X Slots(r[2], p, z) : r \in Payable(p, z)} \subseteq Piece \X (0 .. End)
  BY <1>1
<1>3. NeedsApproval \in BOOLEAN
  BY CalendarAssumption DEF CalendarAssumption
<1> QED
  BY <1>2, <1>3 DEF PayRow, Payroll, Counted

LEMMA PayrollInsertsRow ==
  ASSUME NEW w \in Threads, PayrollInserts(w)
  PROVE  /\ Paying(w) /\ Ends(w)
         /\ UNCHANGED <<now, zone, sheets, working, tracked, entries>>
         /\ \/ payrolls' = payrolls
            \/ /\ ~Overlapping(threads[w].period, threads[w].zone)
               /\ payrolls' = Append(payrolls, PayRow(threads[w].period, threads[w].zone))
BY DEF PayrollInserts, PayRow, Paying

\* What a step of a thread writes has its type.
LEMMA RequestKeepsTypes ==
  ASSUME TimeInv, NEW w \in Threads, Request(w)
  PROVE  TimeTypeOK'
<1> USE DEF TimeInv
<1>1. ASSUME NEW p \in Periods, SubmitChecks(w, p) PROVE TimeTypeOK'
  BY <1>1, RequestFields, BecomesKeepsTypes DEF SubmitChecks, SubmitOf
<1>2. ASSUME NEW p \in Periods, PayrollChecks(w, p) PROVE TimeTypeOK'
  <2>1. zone \in Zones
    BY DEF TimeTypeOK
  <2> QED
    BY <1>2, <2>1, RequestFields, BecomesKeepsTypes DEF PayrollChecks, PayOf
<1>3. ASSUME NEW i \in EntryIds, NEW s \in Spans, AddChecks(w, i, s) PROVE TimeTypeOK'
  BY <1>3, RequestFields, BecomesKeepsTypes DEF AddChecks, AddOf
<1>4. ASSUME NEW i \in EntryIds, NEW d \in {"approved", "rejected"}, ReviewChecks(w, i, d)
      PROVE  TimeTypeOK'
  BY <1>4, RequestFields, BecomesKeepsTypes DEF ReviewChecks, ReviewOf
<1>5. ASSUME Ends(w) PROVE threads' \in [Threads -> Thread]
  BY <1>5, IdleIsAThread DEF TimeTypeOK, Ends, Becomes
<1>6. CASE SubmitWrites(w)
  BY <1>5, <1>6 DEF SubmitWrites, TimeTypeOK
<1>7. CASE AddWrites(w)
  <2> DEFINE e == threads[w].entry
  <2>1. PICK status \in {"pending", "approved"} :
          entries' = [entries EXCEPT ![e] =
                        [NoEntry EXCEPT !.span = threads[w].span, !.status = status]]
    BY <1>7 DEF AddWrites
  <2>2. threads[w].span \in Spans
    BY <1>7 DEF AddWrites, Asked
  <2>3. [NoEntry EXCEPT !.span = threads[w].span, !.status = status] \in Entry
    BY <2>2 DEF NoEntry, Entry
  <2>4. entries' \in [EntryIds -> Entry]
    BY <2>1, <2>3 DEF TimeTypeOK
  <2> QED
    BY <1>5, <1>7, <2>4 DEF AddWrites, TimeTypeOK
<1>8. CASE ReviewWrites(w)
  <2> DEFINE e == threads[w].entry
             old == entries[e]
             new == [old EXCEPT !.status = threads[w].status,
                                !.overtaken = @ \/ threads[w].overtaken]
  <2>1. e \in EntryIds /\ threads[w].status \in {"approved", "rejected"}
        /\ threads[w].overtaken \in BOOLEAN
    BY <1>8 DEF ReviewWrites, Asked, TimeTypeOK, Thread
  <2>2. entries' = [entries EXCEPT ![e] = new]
    BY <1>8 DEF ReviewWrites
  <2>3. old \in [span : Spans, status : {"pending", "approved", "rejected"},
                 overtaken : BOOLEAN]
    BY <1>8, <2>1, KnownEntries DEF ReviewWrites, EntryInv, Deciding, Entry
  <2>4. new \in Entry
    BY <2>1, <2>3 DEF Entry
  <2> HIDE DEF new
  <2> QED
    BY <1>5, <1>8, <2>2, <2>4 DEF ReviewWrites, TimeTypeOK
<1>9. CASE PayrollInserts(w)
  <2> DEFINE p == threads[w].period
             z == threads[w].zone
  <2>1. p \in Periods /\ z \in Zones
    BY <1>9, PayrollInsertsRow DEF Asked, Paying
  <2>2. PayRow(p, z) \in Payroll
    BY <2>1, RowHasType
  <2>3. payrolls' \in Seq(Payroll)
    BY <1>9, <2>2, PayrollInsertsRow DEF TimeTypeOK
  <2> QED
    BY <1>5, <1>9, <2>3, PayrollInsertsRow DEF TimeTypeOK
<1>10. CASE Abandon(w)
  BY <1>5, <1>10 DEF Abandon, TimeTypeOK
<1> QED
  BY <1>1, <1>2, <1>3, <1>4, <1>6, <1>7, <1>8, <1>9, <1>10 DEF Request

LEMMA TypesKept == TimeInv /\ [TimeNext]_timeVars => TimeTypeOK'
<1> SUFFICES ASSUME TimeInv, [TimeNext]_timeVars PROVE TimeTypeOK'
  OBVIOUS
<1>0. TimeTypeOK /\ End \in Nat
  BY CalendarAssumption DEF TimeInv, End, CalendarAssumption
<1>1. CASE StartWork
  BY <1>0, <1>1 DEF TimeTypeOK, StartWork
<1>2. CASE StopWork
  <2>1. PICK to \in working .. now :
          tracked' = IF to = working THEN tracked
                     ELSE tracked \cup {[span |-> <<working, to>>, late |-> FALSE]}
    BY <1>2 DEF StopWork
  <2>2. working \in 0 .. End /\ to \in 0 .. End
    BY <1>0, <1>2 DEF TimeTypeOK, StopWork
  <2>3. [span |-> <<working, to>>, late |-> FALSE] \in Segment
    BY <2>2 DEF Segment
  <2>4. tracked' \subseteq Segment
    BY <1>0, <2>1, <2>3 DEF TimeTypeOK
  <2> QED
    BY <1>0, <1>2, <2>4 DEF TimeTypeOK, StopWork
<1>3. CASE Tick
  BY <1>0, <1>3 DEF TimeTypeOK, Tick
<1>4. CASE GenerateOpen
  BY <1>0, <1>4 DEF TimeTypeOK, GenerateOpen
<1>5. ASSUME NEW s \in LateSpans, ReplayWork(s) PROVE TimeTypeOK'
  <2>1. s \in Nat \X Nat /\ s[1] < s[2] /\ s[2] <= now
    BY <1>5, CalendarAssumption DEF CalendarAssumption, ReplayWork
  <2>2. s \in (0 .. End) \X (0 .. End)
    BY <1>0, <2>1 DEF TimeTypeOK
  <2>3. [span |-> s, late |-> TRUE] \in Segment
    BY <2>2 DEF Segment
  <2>4. tracked' \subseteq Segment
    BY <1>0, <1>5, <2>3 DEF TimeTypeOK, ReplayWork
  <2> QED
    BY <1>0, <1>5, <2>4 DEF TimeTypeOK, ReplayWork
<1>6. ASSUME NEW p \in Periods, NEW d \in {"approved", "rejected"}, ReviewSheet(p, d)
      PROVE  TimeTypeOK'
  <2>1. threads' \in [Threads -> Thread]
    <3> DEFINE over(w) == threads[w].overtaken \/ /\ d = "approved" /\ threads[w].pc = "decide"
                                                  /\ Starts(entries[threads[w].entry].span, p)
    <3>1. threads' = [w \in Threads |-> [threads[w] EXCEPT !.overtaken = over(w)]]
      BY <1>6 DEF ReviewSheet
    <3>2. \A w \in Threads : over(w) \in BOOLEAN
      BY <1>0 DEF TimeTypeOK, Thread
    <3>3. threads \in [Threads -> Thread]
      BY <1>0 DEF TimeTypeOK
    <3> HIDE DEF over
    <3> QED
      BY <3>1, <3>2, <3>3 DEF Thread
  <2> QED
    BY <1>0, <1>6, <2>1 DEF TimeTypeOK, ReviewSheet
<1>7. CASE \E w \in Threads : Request(w)
  BY <1>7, RequestKeepsTypes
<1>8. CASE UNCHANGED timeVars
  BY <1>0, <1>8 DEF timeVars, TimeTypeOK
<1>9. CASE update_organization_settings
  BY <1>0, <1>9 DEF update_organization_settings, TimeTypeOK
<1> QED
  BY <1>1, <1>2, <1>3, <1>4, <1>5, <1>6, <1>7, <1>8, <1>9 DEF TimeNext

------------------------------------------------------------------------------
(***************************************************************************)
(* What every step leaves as it is.                                        *)
(***************************************************************************)

\* A review of a timesheet changes what no request is about.
LEMMA ReviewSheetMarks ==
  ASSUME TimeTypeOK, NEW p \in Periods, NEW d \in {"approved", "rejected"}, ReviewSheet(p, d)
  PROVE  \A w \in Threads :
           /\ threads'[w].pc = threads[w].pc /\ threads'[w].period = threads[w].period
           /\ threads'[w].entry = threads[w].entry /\ threads'[w].span = threads[w].span
           /\ threads'[w].status = threads[w].status /\ threads'[w].zone = threads[w].zone
           /\ threads[w].overtaken => threads'[w].overtaken
           /\ /\ d = "approved" /\ threads[w].pc = "decide"
              /\ Starts(entries[threads[w].entry].span, p)
              => threads'[w].overtaken
<1> SUFFICES ASSUME NEW w \in Threads
             PROVE  /\ threads'[w].pc = threads[w].pc /\ threads'[w].period = threads[w].period
                    /\ threads'[w].entry = threads[w].entry /\ threads'[w].span = threads[w].span
                    /\ threads'[w].status = threads[w].status /\ threads'[w].zone = threads[w].zone
                    /\ threads[w].overtaken => threads'[w].overtaken
                    /\ /\ d = "approved" /\ threads[w].pc = "decide"
                       /\ Starts(entries[threads[w].entry].span, p)
                       => threads'[w].overtaken
  OBVIOUS
<1> DEFINE over == threads[w].overtaken \/ /\ d = "approved" /\ threads[w].pc = "decide"
                                           /\ Starts(entries[threads[w].entry].span, p)
<1>1. threads'[w] = [threads[w] EXCEPT !.overtaken = over]
  BY DEF ReviewSheet
<1>2. threads[w] \in Thread
  BY DEF TimeTypeOK
<1>3. \A b \in BOOLEAN : LET new == [threads[w] EXCEPT !.overtaken = b] IN
        /\ new.pc = threads[w].pc /\ new.period = threads[w].period
        /\ new.entry = threads[w].entry /\ new.span = threads[w].span
        /\ new.status = threads[w].status /\ new.zone = threads[w].zone
        /\ new.overtaken = b
  BY <1>2 DEF Thread
<1>4. over \in BOOLEAN /\ threads[w].overtaken \in BOOLEAN
  BY <1>2 DEF Thread
<1>5. threads'[w].overtaken = over
  BY <1>1, <1>3, <1>4
<1>6. /\ threads'[w].pc = threads[w].pc /\ threads'[w].period = threads[w].period
      /\ threads'[w].entry = threads[w].entry /\ threads'[w].span = threads[w].span
      /\ threads'[w].status = threads[w].status /\ threads'[w].zone = threads[w].zone
  BY <1>1, <1>3, <1>4
<1> QED
  BY <1>4, <1>5, <1>6, Zenon

\* An approved timesheet stays approved: it is submitted again only unless it is.
LEMMA ApprovalsStand ==
  ASSUME TimeInv, [TimeNext]_timeVars, NEW p \in Periods
  PROVE  /\ sheets[p] = "approved" => sheets'[p] = "approved"
         /\ sheets'[p] = "approved" => sheets[p] = "approved" \/ ReviewSheet(p, "approved")
<1>0. sheets \in [Periods -> {"none", "open", "submitted", "approved", "rejected"}]
  BY DEF TimeInv, TimeTypeOK
<1>1. CASE sheets' = sheets
  BY <1>1
<1>2. CASE GenerateOpen
  BY <1>0, <1>2 DEF GenerateOpen
<1>3. ASSUME NEW w \in Threads, SubmitWrites(w)
      PROVE  /\ sheets[p] = "approved" => sheets'[p] = "approved"
             /\ sheets'[p] = "approved" => sheets[p] = "approved"
  BY <1>0, <1>3 DEF SubmitWrites
<1>4. ASSUME NEW q \in Periods, NEW d \in {"approved", "rejected"}, ReviewSheet(q, d)
      PROVE  /\ sheets[p] = "approved" => sheets'[p] = "approved"
             /\ sheets'[p] = "approved" => sheets[p] = "approved" \/ ReviewSheet(p, "approved")
  BY <1>0, <1>4 DEF ReviewSheet
<1>5. \/ sheets' = sheets \/ GenerateOpen \/ \E w \in Threads : SubmitWrites(w)
      \/ \E q \in Periods, d \in {"approved", "rejected"} : ReviewSheet(q, d)
  BY DEF TimeNext, timeVars, StartWork, StopWork, update_organization_settings, Tick,
         ReplayWork, Request, SubmitChecks,
         PayrollChecks, AddChecks, ReviewChecks, AddWrites, ReviewWrites, PayrollInserts, Abandon
<1> QED
  BY <1>1, <1>2, <1>3, <1>4, <1>5

\* Only two steps write manual time: one adds it, one reviews it.
LEMMA EntriesStand ==
  ASSUME TimeInv, [TimeNext]_timeVars, NEW i \in EntryIds
  PROVE  \/ entries'[i] = entries[i]
         \/ ~Known(i)
         \/ \E w \in Threads :
              /\ ReviewWrites(w) /\ threads[w].entry = i
              /\ entries'[i].span = entries[i].span
              /\ entries'[i].status = threads[w].status
              /\ entries'[i].status \in {"approved", "rejected"}
              /\ entries'[i].overtaken = (entries[i].overtaken \/ threads[w].overtaken)
<1>0. TimeTypeOK
  BY DEF TimeInv
<1>1. CASE entries' = entries
  BY <1>1
<1>2. ASSUME NEW w \in Threads, AddWrites(w)
      PROVE  entries'[i] = entries[i] \/ ~Known(i)
  <2>1. threads[w].entry # i => entries'[i] = entries[i]
    BY <1>0, <1>2 DEF AddWrites, TimeTypeOK
  <2>2. threads[w].entry = i => ~Known(i)
    BY <1>2, NoEntryIsNone DEF AddWrites, TimeInv, EntryInv, Adding, Known
  <2> QED
    BY <2>1, <2>2
<1>3. ASSUME NEW w \in Threads, ReviewWrites(w), threads[w].entry = i, Known(i)
      PROVE  /\ entries'[i].span = entries[i].span
             /\ entries'[i].status = threads[w].status
             /\ entries'[i].status \in {"approved", "rejected"}
             /\ entries'[i].overtaken = (entries[i].overtaken \/ threads[w].overtaken)
  <2>1. entries[i] \in [span : Spans, status : {"pending", "approved", "rejected"},
                        overtaken : BOOLEAN]
    BY <1>0, <1>3, KnownEntries DEF Entry
  <2>2. threads[w].status \in {"approved", "rejected"}
    BY <1>3 DEF TimeInv, Asked, ReviewWrites
  <2>3. entries'[i] = [entries[i] EXCEPT !.status = threads[w].status,
                                         !.overtaken = @ \/ threads[w].overtaken]
    BY <1>0, <1>3 DEF ReviewWrites, TimeTypeOK
  <2> QED
    BY <2>1, <2>2, <2>3
<1>4. ASSUME NEW w \in Threads, ReviewWrites(w), threads[w].entry # i
      PROVE  entries'[i] = entries[i]
  BY <1>0, <1>4 DEF ReviewWrites, TimeTypeOK
<1>5. \/ entries' = entries
      \/ \E w \in Threads : AddWrites(w) \/ ReviewWrites(w)
  BY DEF TimeNext, timeVars, StartWork, StopWork,
         update_organization_settings, Tick, ReplayWork, GenerateOpen, ReviewSheet,
         Request, SubmitChecks, PayrollChecks, AddChecks, ReviewChecks, SubmitWrites,
         PayrollInserts, Abandon
<1> QED
  BY <1>1, <1>2, <1>3, <1>4, <1>5

LEMMA KnownStaysKnown ==
  ASSUME TimeInv, [TimeNext]_timeVars, NEW i \in EntryIds, Known(i)
  PROVE  entries'[i].status # "none" /\ entries'[i].span = entries[i].span
BY EntriesStand DEF Known

\* What a request may be about after a step: what it was about, or what it has just
\* been asked for.
LEMMA RequestsMove ==
  ASSUME TimeInv, [TimeNext]_timeVars, NEW w \in Threads
  PROVE  \/ /\ threads'[w].pc = threads[w].pc /\ threads'[w].period = threads[w].period
            /\ threads'[w].entry = threads[w].entry /\ threads'[w].span = threads[w].span
            /\ threads'[w].status = threads[w].status /\ threads'[w].zone = threads[w].zone
            /\ threads[w].overtaken => threads'[w].overtaken
         \/ threads'[w] = Idle
         \/ \E p \in Periods : \/ /\ SubmitChecks(w, p)
                                  /\ threads'[w] = SubmitOf(p)
                               \/ /\ PayrollChecks(w, p)
                                  /\ threads'[w] = PayOf(p, zone)
         \/ \E i \in EntryIds, s \in Spans :
              /\ AddChecks(w, i, s)
              /\ threads'[w] = AddOf(i, s)
         \/ \E i \in EntryIds, d \in {"approved", "rejected"} :
              /\ ReviewChecks(w, i, d)
              /\ threads'[w] = ReviewOf(i, d)
<1>0. TimeTypeOK
  BY DEF TimeInv
<1>1. CASE \E p \in Periods, d \in {"approved", "rejected"} : ReviewSheet(p, d)
  BY <1>0, <1>1, ReviewSheetMarks
<1>2. CASE \E v \in Threads : v # w /\ Request(v)
  <2>1. PICK v \in Threads : v # w /\ Request(v)
    BY <1>2
  <2>2. \E t : Becomes(v, t)
    BY <2>1 DEF Request, SubmitChecks, PayrollChecks, AddChecks, ReviewChecks, SubmitWrites,
                AddWrites, ReviewWrites, PayrollInserts, Abandon, Ends
  <2> QED
    BY <1>0, <2>1, <2>2, Becoming
<1>3. CASE Request(w)
  <2>1. ASSUME NEW p \in Periods, SubmitChecks(w, p)
        PROVE  threads'[w] = SubmitOf(p)
    BY <1>0, <2>1, Becoming DEF SubmitChecks, SubmitOf
  <2>2. ASSUME NEW p \in Periods, PayrollChecks(w, p)
        PROVE  threads'[w] = PayOf(p, zone)
    BY <1>0, <2>2, Becoming DEF PayrollChecks, PayOf
  <2>3. ASSUME NEW i \in EntryIds, NEW s \in Spans, AddChecks(w, i, s)
        PROVE  threads'[w] = AddOf(i, s)
    BY <1>0, <2>3, Becoming DEF AddChecks, AddOf
  <2>4. ASSUME NEW i \in EntryIds, NEW d \in {"approved", "rejected"}, ReviewChecks(w, i, d)
        PROVE  threads'[w] = ReviewOf(i, d)
    BY <1>0, <2>4, Becoming DEF ReviewChecks, ReviewOf
  <2>5. CASE SubmitWrites(w) \/ AddWrites(w) \/ ReviewWrites(w) \/ PayrollInserts(w) \/ Abandon(w)
    BY <1>0, <2>5, Becoming
    DEF SubmitWrites, AddWrites, ReviewWrites, PayrollInserts, Abandon, Ends
  <2>6. CASE \E p \in Periods : SubmitChecks(w, p) \/ PayrollChecks(w, p)
    BY <2>1, <2>2, <2>6
  <2>7. CASE \E i \in EntryIds : \/ \E s \in Spans : AddChecks(w, i, s)
                                 \/ \E d \in {"approved", "rejected"} : ReviewChecks(w, i, d)
    BY <2>3, <2>4, <2>7
  <2> QED
    BY <1>3, <2>5, <2>6, <2>7 DEF Request
<1>4. CASE threads' = threads
  BY <1>4
<1> QED
  BY <1>1, <1>2, <1>3, <1>4
  DEF TimeNext, timeVars, StartWork, StopWork,
      update_organization_settings, Tick, GenerateOpen, ReplayWork

LEMMA AskedKept == TimeInv /\ [TimeNext]_timeVars => Asked'
<1> SUFFICES ASSUME TimeInv, [TimeNext]_timeVars, NEW w \in Threads
             PROVE  /\ threads'[w].pc \in {"submit", "pay"} => threads'[w].period \in Periods
                    /\ threads'[w].pc = "pay" => threads'[w].zone \in Zones
                    /\ threads'[w].pc \in {"add", "decide"} => threads'[w].entry \in EntryIds
                    /\ threads'[w].pc = "add" => threads'[w].span \in Spans
                    /\ threads'[w].pc = "decide" =>
                         threads'[w].status \in {"approved", "rejected"}
  BY DEF Asked
<1>1. CASE \/ \E p \in Periods : threads'[w] \in {SubmitOf(p), PayOf(p, zone)}
           \/ \E i \in EntryIds, s \in Spans : threads'[w] = AddOf(i, s)
           \/ \E i \in EntryIds, d \in {"approved", "rejected"} : threads'[w] = ReviewOf(i, d)
           \/ threads'[w] = Idle
  <2>1. zone \in Zones
    BY DEF TimeInv, TimeTypeOK
  <2> QED
    BY <1>1, <2>1, RequestFields, IdleIsAThread
<1>2. CASE /\ threads'[w].pc = threads[w].pc /\ threads'[w].period = threads[w].period
           /\ threads'[w].entry = threads[w].entry /\ threads'[w].span = threads[w].span
           /\ threads'[w].status = threads[w].status /\ threads'[w].zone = threads[w].zone
  BY <1>2 DEF TimeInv, Asked
<1> QED
  BY <1>1, <1>2, RequestsMove

------------------------------------------------------------------------------
(***************************************************************************)
(* The payroll.                                                            *)
(***************************************************************************)

\* A step that lets no run begin and inserts nothing.
LEMMA NothingPaidKeepsPay ==
  ASSUME TimeInv, [TimeNext]_timeVars, payrolls' = payrolls,
         \A w \in Threads : Paying(w)' => /\ Paying(w)
                                         /\ threads'[w].period = threads[w].period
  PROVE  PayInv'
<1>1. PaysOnce' /\ PeriodsApart'
  BY DEF TimeInv, PayInv, PaysOnce, PeriodsApart
<1>2. Alone'
  BY DEF TimeInv, PayInv, Alone
<1>3. Compared'
  <2> SUFFICES ASSUME NEW w \in Threads, Paying(w)'
               PROVE  /\ \A k \in 1 .. Len(payrolls') :
                           ~Meet(threads'[w].period, payrolls'[k].period)
                      /\ NeedsApproval => sheets'[threads'[w].period] = "approved"
    BY DEF Compared
  <2>1. threads[w].period \in Periods
    BY DEF TimeInv, Asked, Paying
  <2> QED
    BY <2>1, ApprovalsStand DEF TimeInv, PayInv, Compared
<1> QED
  BY <1>1, <1>2, <1>3 DEF PayInv

LEMMA PayrollChecksKeepPay ==
  ASSUME TimeInv, NEW w \in Threads, NEW p \in Periods, PayrollChecks(w, p)
  PROVE  PayInv'
<1>1. /\ threads'[w] = PayOf(p, zone) /\ \A v \in Threads : v # w => threads'[v] = threads[v]
      /\ UNCHANGED <<sheets, payrolls>>
  BY Becoming DEF TimeInv, PayrollChecks, PayOf
<1>2. /\ \A v \in Threads : ~Paying(v)
      /\ \A k \in 1 .. Len(payrolls) : ~Meet(p, payrolls[k].period)
      /\ NeedsApproval => sheets[p] = "approved"
  BY DEF PayrollChecks, PayrollIsRunning, Paying
<1>3. \A v \in Threads : Paying(v)' => v = w
  BY <1>1, <1>2 DEF Paying
<1>4. Alone'
  BY <1>3 DEF Alone
<1>5. threads'[w].period = p
  BY <1>1, RequestFields DEF TimeInv, TimeTypeOK
<1>6. Compared'
  BY <1>1, <1>2, <1>3, <1>5 DEF Compared
<1>7. PaysOnce' /\ PeriodsApart'
  BY <1>1 DEF TimeInv, PayInv, PaysOnce, PeriodsApart
<1> QED
  BY <1>4, <1>6, <1>7 DEF PayInv

\* What an appended row does to the payroll.
LEMMA AppendedRow ==
  ASSUME TimeTypeOK, NEW r, payrolls' = Append(payrolls, r)
  PROVE  /\ Len(payrolls) \in Nat /\ Len(payrolls') = Len(payrolls) + 1
         /\ payrolls'[Len(payrolls) + 1] = r
         /\ \A k \in 1 .. Len(payrolls) : payrolls'[k] = payrolls[k]
<1>1. payrolls \in Seq(Payroll \cup {r})
  BY DEF TimeTypeOK
<1> QED
  BY <1>1

\* A run without overlapping time pays each half day for one piece.
LEMMA RowPaysOnce ==
  ASSUME TimeTypeOK, NEW p \in Periods, NEW z \in Zones, ~Overlapping(p, z)
  PROVE  \A x \in PayRow(p, z).paid :
           /\ Within(LocalDay(x[2], z), p)
           /\ \A y \in PayRow(p, z).paid : x[2] = y[2] => x[1] = y[1]
<1> SUFFICES ASSUME NEW x \in PayRow(p, z).paid
             PROVE  /\ Within(LocalDay(x[2], z), p)
                    /\ \A y \in PayRow(p, z).paid : x[2] = y[2] => x[1] = y[1]
  OBVIOUS
<1>1. \A y \in PayRow(p, z).paid : y[1] \in Payable(p, z) /\ y[2] \in Slots(y[1][2], p, z)
  BY RowHasType
<1> QED
  BY <1>1 DEF Overlapping, Slots

\* An inserted row keeps what holds of the earlier ones: its period met none of
\* theirs when the run took the lock, and no row has been added since.
LEMMA PayrollInsertsKeepPay ==
  ASSUME TimeInv, [TimeNext]_timeVars, NEW w \in Threads, PayrollInserts(w)
  PROVE  PayInv'
<1> DEFINE p == threads[w].period
           z == threads[w].zone
           n == Len(payrolls)
<1>1. /\ Paying(w) /\ threads'[w] = Idle
      /\ \A v \in Threads : v # w => threads'[v] = threads[v]
  BY PayrollInsertsRow, Becoming DEF TimeInv, Ends
<1>2. \A v \in Threads : ~Paying(v)'
  BY <1>1, IdleIsAThread DEF TimeInv, PayInv, Alone, Paying
<1>3. p \in Periods /\ z \in Zones
  BY <1>1 DEF TimeInv, Asked, Paying
<1>4. CASE payrolls' = payrolls
  BY <1>2, <1>4, NothingPaidKeepsPay
<1>5. CASE /\ ~Overlapping(p, z)
           /\ payrolls' = Append(payrolls, PayRow(p, z))
  <2>1. /\ n \in Nat /\ Len(payrolls') = n + 1 /\ payrolls'[n + 1] = PayRow(p, z)
        /\ \A k \in 1 .. n : payrolls'[k] = payrolls[k]
    BY <1>5, AppendedRow DEF TimeInv
  <2>2. PayRow(p, z).period = p /\ PayRow(p, z).zone = z
    BY <1>3, RowHasType DEF TimeInv
  <2>3. \A k \in 1 .. n : ~Meet(p, payrolls[k].period)
    BY <1>1 DEF TimeInv, PayInv, Compared
  <2>4. Alone' /\ Compared'
    BY <1>2 DEF Alone, Compared
  <2>5. PaysOnce'
    <3> SUFFICES ASSUME NEW k \in 1 .. n + 1
                 PROVE  \A x \in payrolls'[k].paid :
                          /\ Within(LocalDay(x[2], payrolls'[k].zone), payrolls'[k].period)
                          /\ \A y \in payrolls'[k].paid : x[2] = y[2] => x[1] = y[1]
      BY <2>1 DEF PaysOnce
    <3>1. CASE k = n + 1
      BY <1>3, <1>5, <2>1, <2>2, <3>1, RowPaysOnce DEF TimeInv
    <3>2. CASE k \in 1 .. n
      BY <2>1, <3>2 DEF TimeInv, PayInv, PaysOnce
    <3> QED
      BY <2>1, <3>1, <3>2
  <2>6. PeriodsApart'
    <3> SUFFICES ASSUME NEW k \in 1 .. n + 1, NEW j \in 1 .. k - 1
                 PROVE  ~Meet(payrolls'[k].period, payrolls'[j].period)
      BY <2>1 DEF PeriodsApart
    <3>1. j \in 1 .. n /\ payrolls'[j] = payrolls[j]
      BY <2>1
    <3>2. CASE k = n + 1
      BY <2>1, <2>2, <2>3, <3>1, <3>2
    <3>3. CASE k \in 1 .. n
      BY <2>1, <3>1, <3>3 DEF TimeInv, PayInv, PeriodsApart
    <3> QED
      BY <2>1, <3>2, <3>3
  <2> QED
    BY <2>4, <2>5, <2>6 DEF PayInv
<1> QED
  BY <1>4, <1>5, PayrollInsertsRow

LEMMA PayKept == TimeInv /\ [TimeNext]_timeVars => PayInv'
<1> SUFFICES ASSUME TimeInv, [TimeNext]_timeVars PROVE PayInv'
  OBVIOUS
<1>1. CASE \E w \in Threads, p \in Periods : PayrollChecks(w, p)
  BY <1>1, PayrollChecksKeepPay
<1>2. CASE \E w \in Threads : PayrollInserts(w)
  BY <1>2, PayrollInsertsKeepPay
<1>3. CASE /\ ~\E w \in Threads, p \in Periods : PayrollChecks(w, p)
           /\ ~\E w \in Threads : PayrollInserts(w)
  <2>1. payrolls' = payrolls
    BY <1>3 DEF TimeNext, timeVars, StartWork, StopWork,
        update_organization_settings, Tick, GenerateOpen, ReplayWork,
                ReviewSheet, Request, SubmitChecks, AddChecks, ReviewChecks, SubmitWrites,
                AddWrites, ReviewWrites, Abandon
  <2>2. ASSUME NEW w \in Threads, Paying(w)'
        PROVE  Paying(w) /\ threads'[w].period = threads[w].period
    <3>1. CASE /\ threads'[w].pc = threads[w].pc /\ threads'[w].period = threads[w].period
      BY <2>2, <3>1 DEF Paying
    <3>2. CASE \/ threads'[w] = Idle \/ \E p \in Periods : threads'[w] = SubmitOf(p)
               \/ \E i \in EntryIds, s \in Spans : threads'[w] = AddOf(i, s)
               \/ \E i \in EntryIds, d \in {"approved", "rejected"} : threads'[w] = ReviewOf(i, d)
      BY <2>2, <3>2, RequestFields, IdleIsAThread DEF Paying
    <3> QED
      BY <1>3, <3>1, <3>2, RequestsMove
  <2> QED
    BY <2>1, <2>2, NothingPaidKeepsPay
<1> QED
  BY <1>1, <1>2, <1>3

------------------------------------------------------------------------------
(***************************************************************************)
(* Manual time.                                                            *)
(***************************************************************************)

LEMMA AddingKept == TimeInv /\ TimeTypeOK' /\ [TimeNext]_timeVars => Adding'
<1> SUFFICES ASSUME TimeInv, TimeTypeOK', [TimeNext]_timeVars,
                    NEW w \in Threads, threads'[w].pc = "add"
             PROVE  /\ entries'[threads'[w].entry] = NoEntry
                    /\ \A v \in Threads :
                         threads'[v].pc = "add" /\ threads'[v].entry = threads'[w].entry => v = w
  BY DEF Adding
<1>1. \A v \in Threads : threads'[v].pc = "add" =>
        \/ threads[v].pc = "add" /\ threads'[v].entry = threads[v].entry
        \/ \E i \in EntryIds, s \in Spans : AddChecks(v, i, s) /\ threads'[v].entry = i
  BY RequestsMove, RequestFields, IdleIsAThread, ZoneHasType
<1>2. ASSUME NEW v \in Threads, NEW i \in EntryIds, NEW s \in Spans, AddChecks(v, i, s)
      PROVE  /\ entries'[i] = NoEntry /\ threads'[v].entry = i
             /\ \A u \in Threads : u # v => /\ threads'[u] = threads[u]
                                            /\ ~(threads[u].pc = "add" /\ threads[u].entry = i)
  <2>1. threads'[v] = AddOf(i, s) /\ \A u \in Threads : u # v => threads'[u] = threads[u]
    BY <1>2, Becoming DEF AddChecks, AddOf, TimeInv
  <2> QED
    BY <1>2, <2>1, RequestFields DEF AddChecks
<1>3. ASSUME threads[w].pc = "add", threads'[w].entry = threads[w].entry
      PROVE  entries'[threads[w].entry] = NoEntry
  <2> DEFINE e == threads[w].entry
  <2>1. e \in EntryIds /\ entries[e] = NoEntry
    BY <1>3 DEF TimeInv, Asked, EntryInv, Adding
  <2>2. ASSUME NEW v \in Threads, AddWrites(v) PROVE entries'[e] = NoEntry
    <3>1. v # w
      BY <2>2, Becoming, IdleIsAThread DEF AddWrites, Ends, TimeInv
    <3>2. threads[v].entry # e
      BY <1>3, <2>2, <3>1 DEF AddWrites, TimeInv, EntryInv, Adding
    <3> QED
      BY <2>1, <2>2, <3>2 DEF AddWrites, TimeInv, TimeTypeOK
  <2>3. ASSUME NEW v \in Threads, ReviewWrites(v) PROVE entries'[e] = NoEntry
    <3>1. threads[v].entry # e
      BY <2>1, <2>3, NoEntryIsNone DEF ReviewWrites, TimeInv, EntryInv, Deciding, Known
    <3> QED
      BY <2>1, <2>3, <3>1 DEF ReviewWrites, TimeInv, TimeTypeOK
  <2>4. entries' = entries \/ \E v \in Threads : AddWrites(v) \/ ReviewWrites(v)
    BY DEF TimeNext, timeVars, StartWork, StopWork,
           update_organization_settings, Tick, ReplayWork, GenerateOpen, ReviewSheet,
           Request, SubmitChecks, PayrollChecks, AddChecks, ReviewChecks, SubmitWrites,
           PayrollInserts, Abandon
  <2> QED
    BY <2>1, <2>2, <2>3, <2>4
<1>4. CASE \E i \in EntryIds, s \in Spans : AddChecks(w, i, s)
  BY <1>2, <1>4
<1>5. CASE threads[w].pc = "add" /\ threads'[w].entry = threads[w].entry
  <2> SUFFICES ASSUME NEW v \in Threads, threads'[v].pc = "add",
                      threads'[v].entry = threads'[w].entry
               PROVE  v = w
    BY <1>3, <1>5
  <2>1. CASE threads[v].pc = "add" /\ threads'[v].entry = threads[v].entry
    BY <1>5, <2>1 DEF TimeInv, EntryInv, Adding
  <2>2. CASE \E i \in EntryIds, s \in Spans : AddChecks(v, i, s)
    BY <1>2, <1>5, <2>2
  <2> QED
    BY <1>1, <2>1, <2>2
<1> QED
  BY <1>1, <1>4, <1>5

LEMMA DecidingKept == TimeInv /\ TimeTypeOK' /\ [TimeNext]_timeVars => Deciding'
<1> SUFFICES ASSUME TimeInv, TimeTypeOK', [TimeNext]_timeVars,
                    NEW w \in Threads, threads'[w].pc = "decide"
             PROVE  /\ entries'[threads'[w].entry].status # "none"
                    /\ \A p \in Periods :
                         sheets'[p] = "approved" /\ Starts(entries'[threads'[w].entry].span, p)
                           => threads'[w].overtaken
  BY DEF Deciding, Starts, Known
<1>1. \/ /\ threads[w].pc = "decide" /\ threads'[w].entry = threads[w].entry
         /\ threads[w].overtaken => threads'[w].overtaken
      \/ \E i \in EntryIds, d \in {"approved", "rejected"} :
           ReviewChecks(w, i, d) /\ threads'[w].entry = i
  BY RequestsMove, RequestFields, IdleIsAThread, ZoneHasType
<1>2. ASSUME NEW i \in EntryIds, NEW d \in {"approved", "rejected"}, ReviewChecks(w, i, d),
             threads'[w].entry = i
      PROVE  /\ Known(i)' /\ \A p \in Periods : ~(sheets'[p] = "approved" /\ Starts(entries'[i].span, p))
  <2>1. UNCHANGED <<sheets, entries>> /\ entries[i] # NoEntry
    BY <1>2 DEF ReviewChecks
  <2>2. Known(i)'
    BY <2>1, KnownEntries DEF TimeInv, Known
  <2>3. \A p \in Periods : ~(sheets[p] = "approved" /\ Within(Day(entries[i].span[1]), p))
    BY <1>2 DEF ReviewChecks, is_period_locked
  <2> QED
    BY <2>1, <2>2, <2>3 DEF Starts
<1>3. CASE /\ threads[w].pc = "decide" /\ threads'[w].entry = threads[w].entry
           /\ threads[w].overtaken => threads'[w].overtaken
  <2> DEFINE e == threads[w].entry
  <2>1. e \in EntryIds /\ Known(e)
    BY <1>3 DEF TimeInv, Asked, EntryInv, Deciding
  <2>2. entries'[e].status # "none" /\ entries'[e].span = entries[e].span
    BY <2>1, KnownStaysKnown
  <2>3. ASSUME NEW p \in Periods, sheets'[p] = "approved", Starts(entries[e].span, p)
        PROVE  threads'[w].overtaken
    <3>1. CASE sheets[p] = "approved"
      BY <1>3, <2>3, <3>1 DEF TimeInv, EntryInv, Deciding
    <3>2. CASE ReviewSheet(p, "approved")
      BY <1>3, <2>3, <3>2, ReviewSheetMarks DEF TimeInv
    <3> QED
      BY <2>3, <3>1, <3>2, ApprovalsStand
  <2>4. \A p \in Periods : Starts(entries'[e].span, p) => Starts(entries[e].span, p)
    BY <2>2 DEF Starts
  <2> QED
    BY <1>3, <2>2, <2>3, <2>4
<1> QED
  BY <1>1, <1>2, <1>3 DEF Known

\* What a step inserts into the payroll, if anything.
LEMMA RowsOfPayroll ==
  ASSUME TimeInv, [TimeNext]_timeVars, NEW k \in 1 .. Len(payrolls')
  PROVE  \/ k \in 1 .. Len(payrolls) /\ payrolls'[k] = payrolls[k]
         \/ \E w \in Threads :
              /\ Paying(w) /\ threads[w].period \in Periods
              /\ threads[w].zone \in Zones
              /\ payrolls'[k] = PayRow(threads[w].period, threads[w].zone)
              /\ UNCHANGED <<sheets, entries>>
<1>1. CASE payrolls' = payrolls
  BY <1>1
<1>2. ASSUME NEW w \in Threads, PayrollInserts(w),
             payrolls' = Append(payrolls, PayRow(threads[w].period, threads[w].zone))
      PROVE  \/ k \in 1 .. Len(payrolls) /\ payrolls'[k] = payrolls[k]
             \/ payrolls'[k] = PayRow(threads[w].period, threads[w].zone)
  BY <1>2, AppendedRow DEF TimeInv
<1>3. ASSUME NEW w \in Threads, PayrollInserts(w)
      PROVE  /\ Paying(w) /\ threads[w].period \in Periods /\ threads[w].zone \in Zones
             /\ UNCHANGED <<sheets, entries>>
  BY <1>3, PayrollInsertsRow DEF TimeInv, Asked, Paying
<1>4. payrolls' = payrolls \/ \E w \in Threads : PayrollInserts(w)
  BY DEF TimeNext, timeVars, StartWork, StopWork,
         update_organization_settings, Tick, GenerateOpen, ReplayWork, ReviewSheet,
         Request, SubmitChecks, PayrollChecks, AddChecks, ReviewChecks, SubmitWrites,
         AddWrites, ReviewWrites, Abandon
<1> QED
  BY <1>1, <1>2, <1>3, <1>4, PayrollInsertsRow

LEMMA SettledKept == TimeInv /\ TimeTypeOK' /\ [TimeNext]_timeVars => Settled' /\ PaidEntriesStand'
<1> SUFFICES ASSUME TimeInv, TimeTypeOK', [TimeNext]_timeVars, NEW k \in 1 .. Len(payrolls')
             PROVE  /\ payrolls'[k].sheet => sheets'[payrolls'[k].period] = "approved"
                    /\ \A i \in payrolls'[k].counted :
                         /\ entries'[i].status # "none"
                         /\ /\ payrolls'[k].sheet
                            /\ Starts(entries'[i].span, payrolls'[k].period)
                            /\ ~entries'[i].overtaken
                            => entries'[i].status = "approved"
  BY DEF Settled, PaidEntriesStand, Starts, Known
<1>1. CASE k \in 1 .. Len(payrolls) /\ payrolls'[k] = payrolls[k]
  <2> DEFINE r == payrolls[k]
  <2>1. r.period \in Periods /\ r.counted \subseteq EntryIds
    BY <1>1, PayrollsAreASequence DEF TimeInv, Payroll
  <2>2. /\ r.sheet => sheets[r.period] = "approved"
        /\ \A i \in r.counted : Known(i)
    BY <1>1 DEF TimeInv, EntryInv, Settled
  <2>3. r.sheet => sheets'[r.period] = "approved"
    BY <2>1, <2>2, ApprovalsStand
  <2>4. ASSUME NEW i \in r.counted
        PROVE  /\ entries'[i].status # "none"
               /\ /\ r.sheet /\ Starts(entries'[i].span, r.period) /\ ~entries'[i].overtaken
                  => entries'[i].status = "approved"
    <3>1. i \in EntryIds /\ Known(i)
      BY <2>1, <2>2
    <3>2. /\ r.sheet /\ Starts(entries[i].span, r.period) /\ ~entries[i].overtaken
          => entries[i].status = "approved"
      BY <1>1 DEF TimeInv, EntryInv, PaidEntriesStand
    <3>3. CASE entries'[i] = entries[i]
      BY <3>1, <3>2, <3>3 DEF Known, Starts
    <3>4. ASSUME NEW w \in Threads, ReviewWrites(w), threads[w].entry = i,
                 entries'[i].span = entries[i].span,
                 entries'[i].overtaken = (entries[i].overtaken \/ threads[w].overtaken),
                 r.sheet, Starts(entries'[i].span, r.period), ~entries'[i].overtaken
          PROVE  FALSE
      <4>1. sheets[r.period] = "approved" /\ Starts(entries[i].span, r.period)
        BY <2>2, <3>4 DEF Starts
      <4>2. threads[w].overtaken
        BY <2>1, <3>4, <4>1 DEF ReviewWrites, TimeInv, EntryInv, Deciding
      <4> QED
        BY <3>4, <4>2
    <3> QED
      BY <3>1, <3>3, <3>4, EntriesStand, KnownStaysKnown
  <2> QED
    BY <1>1, <2>3, <2>4
<1>2. ASSUME NEW w \in Threads, Paying(w), threads[w].period \in Periods,
             threads[w].zone \in Zones, UNCHANGED <<sheets, entries>>,
             payrolls'[k] = PayRow(threads[w].period, threads[w].zone)
      PROVE  /\ payrolls'[k].sheet => sheets'[payrolls'[k].period] = "approved"
             /\ \A i \in payrolls'[k].counted : entries'[i].status = "approved"
  <2> DEFINE p == threads[w].period
             row == PayRow(p, threads[w].zone)
  <2>1. /\ row.period = p /\ row.sheet = NeedsApproval
        /\ row.counted \subseteq Counted
    BY <1>2, RowHasType DEF TimeInv
  <2>2. NeedsApproval => sheets[p] = "approved"
    BY <1>2 DEF TimeInv, PayInv, Compared
  <2> QED
    BY <1>2, <2>1, <2>2 DEF Counted
<1> QED
  BY <1>1, <1>2, RowsOfPayroll DEF Known

LEMMA TimeStepKeepsInv == TimeInv /\ [TimeNext]_timeVars => TimeInv'
  BY TypesKept, AskedKept, PayKept, AddingKept, DecidingKept, SettledKept DEF TimeInv, EntryInv

\* No instant is paid twice: neither by two payroll runs under one time zone, which
\* create_payroll's lock on the member and its check for an overlapping run keep
\* apart, nor by one run for two rows, whose overlap it refuses.  The owner may
\* change the zone at any time, also between a run's checks and its insert.
THEOREM PaidOnce == TimeSpec => []NoInstantPaidTwice
<1>1. TimeInv => NoInstantPaidTwice
  BY PayInvIsEnough DEF TimeInv
<1> QED
  BY <1>1, TimeInitHasInv, TimeStepKeepsInv, PTL DEF TimeSpec

\* Manual time that a payroll run went by stays approved, unless its review read the
\* timesheets before one was approved: review_item refuses a day in an approved
\* timesheet, and submit_timesheet leaves an approved one alone.
THEOREM PaidEntriesStayApproved == TimeSpec => []PaidEntriesStand
<1>1. TimeInv => PaidEntriesStand
  BY DEF TimeInv, EntryInv
<1> QED
  BY <1>1, TimeInitHasInv, TimeStepKeepsInv, PTL DEF TimeSpec

(***************************************************************************)
(* Invoices.  The claims of a row change only when a draft is new, filled  *)
(* or deleted, and it is filled with time nobody claims.  What a source is *)
(* worth does not change once it can be claimed: a segment is closed, and  *)
(* an entry keeps its span.  A seal writes its own object before it        *)
(* records it, so a seal that meets no other and no change leaves the row  *)
(* with the object and the version it recorded.                            *)
(***************************************************************************)
Sealer(w, i) == tabs[w].invoice = i /\ tabs[w].pc \in {"save", "record"}
Recording(w, i) == tabs[w].invoice = i /\ tabs[w].pc = "record"

Row(r) ==
  /\ {"status", "source", "total", "billed", "version", "fresh", "shown", "sealer", "raced"}
       \subseteq DOMAIN r
  /\ r.version \in Nat /\ r.shown \in Nat /\ r.fresh \in BOOLEAN /\ r.raced \in BOOLEAN
  /\ r.status = "none" => r.billed = {}
  /\ r.status # "none" => r.version > 0
  /\ r.fresh => r.shown > 0

Tab(t) ==
  /\ {"pc", "invoice", "sources", "version"} \subseteq DOMAIN t
  /\ t.pc \in {"fill", "undo", "seal", "save", "record"} => t.invoice \in Invoices
  /\ t.version \in Nat
  /\ t.pc \in {"save", "record"} => t.version > 0

Stored ==
  /\ invoices = [i \in Invoices |-> invoices[i]] /\ \A i \in Invoices : Row(invoices[i])
  /\ objects = [i \in Invoices |-> objects[i]]
  /\ tabs = [w \in Tabs |-> tabs[w]] /\ \A w \in Tabs : Tab(tabs[w])

Disjoint ==
  \A i, j \in Invoices : i # j => invoices[i].billed \cap invoices[j].billed = {}

\* A source whose length is settled.
Fixed(s) == s.type = "segment" \/ (s.of \in EntryIds /\ Known(s.of))
Charged ==
  /\ \A i \in Invoices :
       /\ \A s \in invoices[i].billed : Fixed(s)
       /\ invoices[i].source = "tracked" => invoices[i].total = Charge(invoices[i].billed)
  /\ \A w \in Tabs : \A s \in tabs[w].sources : Fixed(s)

\* An invoice that no seals raced over.
Lone(i) ==
  /\ \A v, w \in Tabs : Sealer(v, i) /\ Sealer(w, i) => v = w
  /\ \A w \in Tabs : Sealer(w, i) => tabs[w].version = invoices[i].version
  /\ \A w \in Tabs : Recording(w, i) => objects[i] = w
  /\ invoices[i].fresh =>
       /\ invoices[i].shown = invoices[i].version
       /\ Versioned \/ objects[i] = invoices[i].sealer \/ \E w \in Tabs : Recording(w, i)
LoneSeals == \A i \in Rows : ~invoices[i].raced => Lone(i)

BillInv == Stored /\ Disjoint /\ Charged /\ LoneSeals

LEMMA BillInvIsEnough == BillInv => TimeIsBilledOnce /\ LoneSealHeals
<1> SUFFICES ASSUME BillInv PROVE TimeIsBilledOnce /\ LoneSealHeals
  OBVIOUS
<1>1. TimeIsBilledOnce
  BY DEF BillInv, Disjoint, Charged, TimeIsBilledOnce, ClaimsApart, ChargesItsTime, Rows
<1>2. LoneSealHeals
  BY DEF BillInv, LoneSeals, Lone, LoneSealHeals, InOrder, Sealing, Recording, Rows
<1> QED
  BY <1>1, <1>2

LEMMA EmptyRows ==
  /\ Row(NoInvoice) /\ NoInvoice.billed = {} /\ NoInvoice.source = "manual"
  /\ NoInvoice.status = "none"
  /\ \A n, t : /\ Row(Draft(n, t)) /\ Draft(n, t).billed = {} /\ Draft(n, t).source = "manual"
               /\ Draft(n, t).fresh = FALSE
  BY DEF NoInvoice, Draft, Row

LEMMA NoRequestIsATab ==
  Tab(NoRequest) /\ NoRequest.pc = "idle" /\ NoRequest.sources = {}
  BY DEF NoRequest, Tab

LEMMA InitHasBillInv == InvoicesInit => BillInv
<1> SUFFICES ASSUME InvoicesInit PROVE BillInv
  OBVIOUS
<1>1. /\ \A i \in Invoices : invoices[i] = NoInvoice
      /\ \A w \in Tabs : tabs[w] = NoRequest
  BY DEF InvoicesInit
<1>2. Stored
  BY <1>1, EmptyRows, NoRequestIsATab DEF InvoicesInit, Stored
<1>3. Disjoint /\ Charged /\ LoneSeals
  BY <1>1, EmptyRows, NoRequestIsATab DEF Disjoint, Charged, LoneSeals, Rows, Exists
<1> QED
  BY <1>2, <1>3 DEF BillInv

\* Time that can be claimed keeps its length.
LEMMA LengthsStand ==
  ASSUME \A e \in EntryIds : Known(e) => entries'[e].status # "none" /\ entries'[e].span = entries[e].span,
         NEW S, \A s \in S : Fixed(s)
  PROVE  /\ \A s \in S : Fixed(s)'
         /\ [s \in S |-> Length(s)'] = [s \in S |-> Length(s)]
<1>1. ASSUME NEW s \in S PROVE Fixed(s)' /\ Length(s)' = Length(s)
  <2>1. CASE s.type = "segment"
    BY <2>1 DEF Fixed, Length
  <2>2. CASE s.of \in EntryIds /\ Known(s.of)
    BY <2>2 DEF Fixed, Known, Length
  <2> QED
    BY <2>1, <2>2 DEF Fixed
<1> QED
  BY <1>1

\* The steps of the time leave the invoices alone.
LEMMA TimeStepKeepsBill ==
  ASSUME TimeInv, BillInv, [TimeNext]_timeVars, UNCHANGED billVars
  PROVE  BillInv'
<1>1. Stored' /\ Disjoint'
  BY DEF BillInv, Stored, Disjoint, billVars
<1>2. LoneSeals'
  BY DEF BillInv, LoneSeals, Lone, Sealer, Recording, Rows, Exists, billVars
<1>3. \A e \in EntryIds : Known(e) => entries'[e].status # "none" /\ entries'[e].span = entries[e].span
  BY KnownStaysKnown
<1>4. ASSUME NEW i \in Invoices
      PROVE  /\ \A s \in invoices'[i].billed : Fixed(s)'
             /\ invoices'[i].source = "tracked" => invoices'[i].total = Charge(invoices[i].billed)'
  <2> DEFINE S == invoices[i].billed
  <2>1. /\ \A s \in S : Fixed(s)
        /\ invoices[i].source = "tracked" => invoices[i].total = Charge(S)
    BY DEF BillInv, Charged
  <2>2. PICK T : T = S
    OBVIOUS
  <2>3. /\ \A s \in T : Fixed(s)'
        /\ [s \in T |-> Length(s)'] = [s \in T |-> Length(s)]
    BY <1>3, <2>1, <2>2, LengthsStand
  <2>4. invoices' = invoices
    BY DEF billVars
  <2>5. invoices'[i].billed = T
    BY <2>2, <2>4
  <2>6. Charge(invoices[i].billed)' = SumFunction([s \in T |-> Length(s)'])
    BY <2>5 DEF Charge
  <2>7. Charge(S) = SumFunction([s \in T |-> Length(s)])
    BY <2>2 DEF Charge
  <2> QED
    BY <2>1, <2>2, <2>3, <2>4, <2>6, <2>7
<1>5. \A w \in Tabs : \A s \in tabs'[w].sources : Fixed(s)'
  BY <1>3, LengthsStand DEF BillInv, Charged, billVars
<1> QED
  BY <1>1, <1>2, <1>4, <1>5 DEF BillInv, Charged

\* What a request's write does to the rows, and what it does to the requests.
LEMMA RowWritten ==
  ASSUME Stored, NEW i \in Invoices, NEW r, invoices' = [invoices EXCEPT ![i] = r]
  PROVE  /\ invoices' = [j \in Invoices |-> invoices'[j]]
         /\ invoices'[i] = r
         /\ \A j \in Invoices : j # i => invoices'[j] = invoices[j]
BY DEF Stored

LEMMA Doing ==
  ASSUME Stored, NEW w \in Tabs, NEW pc, NEW i, Does(w, pc, i)
  PROVE  /\ tabs' = [v \in Tabs |-> tabs'[v]]
         /\ DOMAIN tabs'[w] = DOMAIN tabs[w]
         /\ tabs'[w].pc = pc /\ tabs'[w].invoice = i
         /\ tabs'[w].sources = tabs[w].sources /\ tabs'[w].version = tabs[w].version
         /\ \A v \in Tabs : v # w => tabs'[v] = tabs[v]
BY DEF Stored, Tab, Does

LEMMA BeingDone ==
  ASSUME Stored, NEW w \in Tabs, Done(w)
  PROVE  /\ tabs' = [v \in Tabs |-> tabs'[v]] /\ tabs'[w] = NoRequest
         /\ \A v \in Tabs : v # w => tabs'[v] = tabs[v]
BY DEF Stored, Done

\* The claims: rows stay apart when one drops its claims, or claims what nobody does.
LEMMA RowKeepsClaims ==
  ASSUME Stored, Disjoint, NEW i \in Invoices, NEW r, invoices' = [invoices EXCEPT ![i] = r],
         \A j \in Invoices : j # i => invoices[j].billed \cap r.billed = {}
  PROVE  Disjoint'
BY RowWritten DEF Disjoint

\* The charge: a row is charged for its claims, and the time stands still.
LEMMA RowKeepsCharge ==
  ASSUME Stored, Charged, UNCHANGED timeVars,
         NEW i \in Invoices, NEW r, invoices' = [invoices EXCEPT ![i] = r],
         \A s \in r.billed : Fixed(s), r.source = "tracked" => r.total = Charge(r.billed),
         \A w \in Tabs : \A s \in tabs'[w].sources : Fixed(s)
  PROVE  Charged'
<1>1. entries' = entries
  BY DEF timeVars
<1>2. \A s : Fixed(s) => Fixed(s)'
  BY <1>1 DEF Fixed, Known
<1>3. \A S : [s \in S |-> Length(s)'] = [s \in S |-> Length(s)]
  BY <1>1 DEF Length
<1>4. ASSUME NEW j \in Invoices
      PROVE  /\ \A s \in invoices'[j].billed : Fixed(s)
             /\ invoices'[j].source = "tracked" => invoices'[j].total = Charge(invoices[j].billed)'
  <2> DEFINE row == invoices'[j]
  <2>1. /\ \A s \in row.billed : Fixed(s)
        /\ row.source = "tracked" => row.total = SumFunction([s \in row.billed |-> Length(s)])
    <3>1. CASE j = i
      BY <3>1, RowWritten DEF Charge
    <3>2. CASE j # i
      BY <3>2, RowWritten DEF Charge, Charged
    <3> QED
      BY <3>1, <3>2
  <2>2. PICK T : T = row.billed
    OBVIOUS
  <2>3. Charge(invoices[j].billed)' = SumFunction([s \in T |-> Length(s)'])
    BY <2>2 DEF Charge
  <2> QED
    BY <1>3, <2>1, <2>2, <2>3
<1> QED
  BY <1>2, <1>4 DEF Charged

LEMMA NoRowKeepsCharge ==
  ASSUME Charged, UNCHANGED <<timeVars, invoices>>,
         \A w \in Tabs : \A s \in tabs'[w].sources : Fixed(s)
  PROVE  Charged'
<1>1. entries' = entries
  BY DEF timeVars
<1> QED
  BY <1>1 DEF Charged, Fixed, Known, Charge, Length

\* The seals of an invoice that is left alone.
LEMMA LoneKept ==
  ASSUME Stored, NEW j \in Invoices, j \in Rows => (~invoices[j].raced => Lone(j)),
         invoices'[j] = invoices[j], objects'[j] = objects[j],
         \A w \in Tabs : \/ tabs'[w] = tabs[w]
                         \/ ~Sealer(w, j)' /\ ~Recording(w, j)
  PROVE  j \in Rows' => (~invoices'[j].raced => Lone(j)')
<1> SUFFICES ASSUME Exists(j), ~invoices[j].raced PROVE Lone(j)'
  BY DEF Rows, Exists
<1>1. Lone(j)
  BY DEF Rows
<1>2. \A w \in Tabs : /\ Sealer(w, j)' => Sealer(w, j) /\ tabs'[w] = tabs[w]
                      /\ Recording(w, j)' <=> Recording(w, j)
  BY DEF Sealer, Recording
<1> QED
  BY <1>1, <1>2 DEF Lone, Recording

------------------------------------------------------------------------------
(***************************************************************************)
(* One request takes a step about one invoice.                             *)
(***************************************************************************)

\* One request moves, and carries what is settled.
Moves(w) ==
  /\ tabs' = [v \in Tabs |-> tabs'[v]]
  /\ \A v \in Tabs : v # w => tabs'[v] = tabs[v]
  /\ Tab(tabs[w])' /\ \A s \in tabs'[w].sources : Fixed(s)

LEMMA DoingMoves ==
  ASSUME Stored, Charged, NEW w \in Tabs, NEW pc, NEW i \in Invoices, Does(w, pc, i),
         pc \notin {"save", "record"} \/ tabs[w].version > 0
  PROVE  Moves(w)
<1>1. Tab(tabs[w]) /\ \A s \in tabs[w].sources : Fixed(s)
  BY DEF Stored, Charged
<1>2. Tab(tabs[w])'
  BY <1>1, Doing DEF Tab
<1> QED
  BY <1>1, <1>2, Doing DEF Moves

LEMMA DoneMoves ==
  ASSUME Stored, NEW w \in Tabs, Done(w)
  PROVE  Moves(w) /\ \A i \in Invoices : ~Sealer(w, i)'
<1>1. Tab(tabs[w])'
  BY BeingDone, NoRequestIsATab DEF Tab
<1> QED
  BY <1>1, BeingDone, NoRequestIsATab DEF Moves, Sealer

\* A request moves and writes nothing.
LEMMA QuietKeepsBill ==
  ASSUME BillInv, UNCHANGED <<timeVars, invoices, objects>>, NEW w \in Tabs, Moves(w),
         \A j \in Invoices : ~Sealer(w, j)',
         \A j \in Invoices : Recording(w, j) => ~Exists(j)
  PROVE  BillInv'
<1> USE DEF BillInv
<1>1. Stored' /\ Disjoint'
  BY DEF Stored, Disjoint, Moves
<1>2. Charged'
  <2>1. \A v \in Tabs : \A s \in tabs'[v].sources : Fixed(s)
    BY DEF Moves, Charged
  <2> QED
    BY <2>1, NoRowKeepsCharge
<1>3. LoneSeals'
  <2> SUFFICES ASSUME NEW j \in Invoices, Exists(j)'
               PROVE  ~invoices'[j].raced => Lone(j)'
    BY DEF LoneSeals, Rows
  <2>1. Exists(j)
    BY DEF Exists
  <2>2. \A v \in Tabs : tabs'[v] = tabs[v] \/ (~Sealer(v, j)' /\ ~Recording(v, j))
    BY <2>1 DEF Moves
  <2>3. j \in Rows => (~invoices[j].raced => Lone(j))
    BY DEF LoneSeals
  <2> QED
    BY <2>1, <2>2, <2>3, LoneKept DEF Rows, Exists
<1> QED
  BY <1>1, <1>2, <1>3

\* A request moves and writes the row it is about.
LEMMA WriteKeepsBill ==
  ASSUME BillInv, UNCHANGED timeVars, NEW w \in Tabs, Moves(w), NEW i \in Invoices, NEW r,
         invoices' = [invoices EXCEPT ![i] = r], Row(r),
         \A s \in r.billed : Fixed(s), r.source = "tracked" => r.total = Charge(r.billed),
         \A j \in Invoices : j # i => invoices[j].billed \cap r.billed = {},
         objects' = [j \in Invoices |-> objects'[j]],
         \A j \in Invoices : j # i => /\ objects'[j] = objects[j]
                                     /\ ~Sealer(w, j)' /\ ~Recording(w, j),
         r.status # "none" /\ ~r.raced => Lone(i)'
  PROVE  BillInv'
<1> USE DEF BillInv
<1>1. Disjoint'
  BY RowKeepsClaims
<1>2. Charged'
  <2>1. \A v \in Tabs : \A s \in tabs'[v].sources : Fixed(s)
    BY DEF Moves, Charged
  <2> QED
    BY <2>1, RowKeepsCharge
<1>3. Stored'
  BY RowWritten DEF Stored, Moves
<1>4. LoneSeals'
  <2> SUFFICES ASSUME NEW j \in Invoices, Exists(j)', ~invoices'[j].raced
               PROVE  Lone(j)'
    BY DEF LoneSeals, Rows
  <2>1. CASE j = i
    BY <2>1, RowWritten DEF Exists
  <2>2. CASE j # i
    <3>1. invoices'[j] = invoices[j] /\ objects'[j] = objects[j]
      BY <2>2, RowWritten
    <3>2. \A v \in Tabs : tabs'[v] = tabs[v] \/ (~Sealer(v, j)' /\ ~Recording(v, j))
      BY <2>2 DEF Moves
    <3>3. j \in Rows => (~invoices[j].raced => Lone(j))
      BY DEF LoneSeals
    <3> QED
      BY <3>1, <3>2, <3>3, LoneKept DEF Rows, Exists
  <2> QED
    BY <2>1, <2>2
<1> QED
  BY <1>1, <1>2, <1>3, <1>4

\* The row keeps its claims.
LEMMA SameClaims ==
  ASSUME BillInv, NEW i \in Invoices, NEW r, r.billed = invoices[i].billed,
         r.source = invoices[i].source, r.source = "tracked" => r.total = invoices[i].total
  PROVE  /\ \A s \in r.billed : Fixed(s)
         /\ r.source = "tracked" => r.total = Charge(r.billed)
         /\ \A j \in Invoices : j # i => invoices[j].billed \cap r.billed = {}
BY DEF BillInv, Charged, Disjoint

\* A draft is inserted, at a row no request is about.
LEMMA CreateKeepsBill ==
  ASSUME BillInv, UNCHANGED <<timeVars, objects>>, NEW w \in Tabs, NEW i \in Invoices,
         NEW total, create_team_invoice(i, total), NEW pc \in {"seal", "fill"}, Does(w, pc, i),
         tabs[w].pc \in {"idle", "create"}
  PROVE  BillInv'
<1> DEFINE r == Draft(NextNumber, total)
<1>1. /\ invoices' = [invoices EXCEPT ![i] = r]
      /\ \A v \in Tabs : tabs[v].invoice # i
  BY DEF create_team_invoice
<1>2. Row(r) /\ r.billed = {} /\ r.source = "manual" /\ r.fresh = FALSE
  BY EmptyRows
<1>3. Moves(w) /\ tabs'[w].pc \in {"seal", "fill"} /\ \A v \in Tabs : v # w => tabs'[v] = tabs[v]
  BY Doing, DoingMoves DEF BillInv
<1>4. \A j \in Invoices : ~Sealer(w, j)' /\ ~Recording(w, j)
  BY <1>3 DEF Sealer, Recording
<1>5. \A v \in Tabs : ~Sealer(v, i)'
  BY <1>1, <1>3, <1>4 DEF Sealer
<1> HIDE DEF r
<1>6. Lone(i)'
  <2>1. ~invoices'[i].fresh
    BY <1>1, <1>2, RowWritten DEF BillInv
  <2> QED
    BY <1>5, <2>1 DEF Lone, Sealer, Recording
<1>7. objects' = [j \in Invoices |-> objects'[j]]
  BY DEF BillInv, Stored
<1> QED
  BY <1>1, <1>2, <1>3, <1>4, <1>6, <1>7, WriteKeepsBill

\* A row is deleted.
LEMMA RemoveKeepsBill ==
  ASSUME BillInv, UNCHANGED timeVars, NEW w \in Tabs, Moves(w), NEW i \in Invoices,
         invoices' = [invoices EXCEPT ![i] = NoInvoice],
         \/ objects' = objects \/ objects' = [objects EXCEPT ![i] = NoTab],
         \A j \in Invoices : ~Sealer(w, j)' /\ ~Recording(w, j)
  PROVE  BillInv'
<1>1. /\ objects' = [j \in Invoices |-> objects'[j]]
      /\ \A j \in Invoices : j # i => objects'[j] = objects[j]
  BY DEF BillInv, Stored
<1> QED
  BY <1>1, EmptyRows, WriteKeepsBill

\* A change of another field: the document is stale, and raced if a seal is on.
LEMMA ChangesKeepBill ==
  ASSUME BillInv, UNCHANGED timeVars, NEW w \in Tabs, NEW i \in Invoices, NEW row,
         Changes(w, i, row), Row(row), row.status # "none", row.billed = invoices[i].billed,
         row.source = invoices[i].source,
         row.source = "tracked" => row.total = invoices[i].total
  PROVE  BillInv'
<1> DEFINE r == Changed(i, row)
<1>1. /\ invoices' = [invoices EXCEPT ![i] = r] /\ tabs[w].pc = "idle"
      /\ Does(w, "seal", i) /\ objects' = objects
  BY DEF Changes
<1>2. /\ Row(r) /\ r.billed = invoices[i].billed /\ r.source = invoices[i].source
      /\ r.source = "tracked" => r.total = invoices[i].total
      /\ r.fresh = FALSE /\ r.raced = Sealing(i)
  BY DEF Changed, Row, Sealing
<1>3. Moves(w) /\ tabs'[w].pc = "seal" /\ \A v \in Tabs : v # w => tabs'[v] = tabs[v]
  BY <1>1, Doing, DoingMoves DEF BillInv
<1>4. \A j \in Invoices : ~Sealer(w, j)' /\ ~Recording(w, j)
  BY <1>1, <1>3 DEF Sealer, Recording
<1> HIDE DEF r
<1>5. ~r.raced => Lone(i)'
  <2> SUFFICES ASSUME ~r.raced PROVE Lone(i)'
    OBVIOUS
  <2>1. \A v \in Tabs : ~Sealer(v, i)'
    BY <1>2, <1>3, <1>4 DEF Sealing, Sealer
  <2>2. ~invoices'[i].fresh
    BY <1>1, <1>2, RowWritten DEF BillInv
  <2> QED
    BY <2>1, <2>2 DEF Lone, Sealer, Recording
<1>6. objects' = [j \in Invoices |-> objects'[j]]
  BY <1>1 DEF BillInv, Stored
<1>7. /\ \A s \in r.billed : Fixed(s)
      /\ r.source = "tracked" => r.total = Charge(r.billed)
      /\ \A j \in Invoices : j # i => invoices[j].billed \cap r.billed = {}
  BY <1>2, SameClaims
<1> QED
  BY <1>1, <1>2, <1>3, <1>4, <1>5, <1>6, <1>7, WriteKeepsBill

LEMMA MemberAndManagerKeepBill ==
  ASSUME BillInv, UNCHANGED timeVars, NEW w \in Tabs, NEW i \in Invoices,
         \/ update_team_invoice_draft(w, i) \/ submit_team_invoice(w, i)
         \/ record_team_invoice_payment(w, i) \/ void_team_invoice(w, i)
  PROVE  BillInv'
<1>0. Row(invoices[i])
  BY DEF BillInv, Stored
<1>1. ASSUME update_team_invoice_draft(w, i) PROVE BillInv'
  <2>0. invoices[i].status # "none"
    BY <1>1 DEF update_team_invoice_draft
  <2>1. ASSUME NEW price, invoices[i].source = "manual",
               Changes(w, i, [invoices[i] EXCEPT !.total = price])
        PROVE  BillInv'
    <3> DEFINE row == [invoices[i] EXCEPT !.total = price]
    <3>1. /\ Row(row) /\ row.status # "none" /\ row.billed = invoices[i].billed
          /\ row.source = "manual"
      BY <1>0, <2>0, <2>1 DEF Row
    <3> HIDE DEF row
    <3> QED
      BY <2>1, <3>1, ChangesKeepBill DEF row
  <2>2. ASSUME Changes(w, i, invoices[i]) PROVE BillInv'
    BY <1>0, <2>0, <2>2, ChangesKeepBill
  <2> QED
    BY <1>1, <2>1, <2>2 DEF update_team_invoice_draft
<1>2. ASSUME invoices[i].status # "none", NEW status \in Statuses,
             Changes(w, i, [invoices[i] EXCEPT !.status = status])
      PROVE  BillInv'
  <2> DEFINE row == [invoices[i] EXCEPT !.status = status]
  <2>1. /\ Row(row) /\ row.status # "none" /\ row.billed = invoices[i].billed
        /\ row.source = invoices[i].source /\ row.total = invoices[i].total
    BY <1>0, <1>2 DEF Row, Statuses
  <2>2. Changes(w, i, row)
    BY <1>2
  <2> HIDE DEF row
  <2> QED
    BY <2>1, <2>2, ChangesKeepBill
<1>3. ASSUME invoices[i].status # "none", NEW status \in Statuses, NEW paid,
             Changes(w, i, [invoices[i] EXCEPT !.paid = paid, !.status = status])
      PROVE  BillInv'
  <2> DEFINE row == [invoices[i] EXCEPT !.paid = paid, !.status = status]
  <2>1. /\ Row(row) /\ row.status # "none" /\ row.billed = invoices[i].billed
        /\ row.source = invoices[i].source /\ row.total = invoices[i].total
    BY <1>0, <1>3 DEF Row, Statuses
  <2>2. Changes(w, i, row)
    BY <1>3
  <2> HIDE DEF row
  <2> QED
    BY <2>1, <2>2, ChangesKeepBill
<1>4. ASSUME submit_team_invoice(w, i) PROVE BillInv'
  BY <1>2, <1>4 DEF submit_team_invoice, Statuses
<1>5. ASSUME void_team_invoice(w, i) PROVE BillInv'
  BY <1>2, <1>5 DEF void_team_invoice, Statuses
<1>6. ASSUME record_team_invoice_payment(w, i) PROVE BillInv'
  <2>1. PICK paid : Changes(w, i, [invoices[i] EXCEPT
          !.paid = paid,
          !.status = IF paid = invoices[i].total THEN "paid" ELSE "partially_paid"])
    BY <1>6 DEF record_team_invoice_payment
  <2>2. PICK status \in Statuses :
          status = IF paid = invoices[i].total THEN "paid" ELSE "partially_paid"
    BY DEF Statuses
  <2>3. invoices[i].status # "none"
    BY <1>6 DEF record_team_invoice_payment
  <2>4. Changes(w, i, [invoices[i] EXCEPT !.paid = paid, !.status = status])
    BY <2>1, <2>2
  <2> QED
    BY <1>3, <2>3, <2>4
<1> QED
  BY <1>1, <1>4, <1>5, <1>6

\* Time that is read to be claimed is settled.
LEMMA UninvoicedIsFixed ==
  ASSUME NEW p
  PROVE  \A s \in Uninvoiced(p) : Fixed(s)
BY DEF Uninvoiced, Fixed, Known, Counted

LEMMA TimeReadsKeepsBill ==
  ASSUME BillInv, UNCHANGED timeVars, NEW w \in Tabs, NEW p, TimeReads(w, p)
  PROVE  BillInv'
<1>1. tabs' = [tabs EXCEPT ![w].pc = "create", ![w].sources = Uninvoiced(p)]
  BY DEF TimeReads
<1>2. Tab(tabs[w])
  BY DEF BillInv, Stored
<1>3. /\ DOMAIN tabs'[w] = DOMAIN tabs[w]
      /\ tabs'[w].pc = "create" /\ tabs'[w].sources = Uninvoiced(p)
      /\ tabs'[w].version = tabs[w].version /\ tabs' = [v \in Tabs |-> tabs'[v]]
      /\ \A v \in Tabs : v # w => tabs'[v] = tabs[v]
  BY <1>1, <1>2 DEF BillInv, Stored, Tab
<1>4. Tab(tabs[w])'
  BY <1>2, <1>3 DEF Tab
<1>5. Moves(w)
  BY <1>3, <1>4, UninvoicedIsFixed DEF Moves
<1>6. \A j \in Invoices : ~Sealer(w, j)' /\ ~Recording(w, j)
  BY <1>3 DEF TimeReads, Sealer, Recording
<1> QED
  BY <1>5, <1>6, QuietKeepsBill DEF TimeReads

LEMMA DoesQuietly ==
  ASSUME BillInv, UNCHANGED <<timeVars, invoices, objects>>, NEW w \in Tabs,
         NEW i \in Invoices, NEW pc \in {"fill", "undo", "seal"}, Does(w, pc, i),
         tabs[w].pc # "record"
  PROVE  BillInv'
<1>1. Moves(w)
  BY DoingMoves DEF BillInv
<1>2. \A j \in Invoices : ~Sealer(w, j)' /\ ~Recording(w, j)
  BY Doing DEF BillInv, Sealer, Recording
<1> QED
  BY <1>1, <1>2, QuietKeepsBill

LEMMA DoneQuietly ==
  ASSUME BillInv, UNCHANGED <<timeVars, invoices, objects>>, NEW w \in Tabs, Done(w),
         \A j \in Invoices : Recording(w, j) => ~Exists(j)
  PROVE  BillInv'
<1>1. Moves(w) /\ \A j \in Invoices : ~Sealer(w, j)'
  BY DoneMoves DEF BillInv
<1> QED
  BY <1>1, QuietKeepsBill

\* The filling claims what no row claims, drops what the draft claimed, and charges
\* for what it claims.
LEMMA FillKeepsBill ==
  ASSUME BillInv, UNCHANGED timeVars, NEW w \in Tabs, TimeFills(w)
  PROVE  BillInv'
<1>0. PICK i : i = tabs[w].invoice
  OBVIOUS
<1> DEFINE old == invoices[i]
           r == [old EXCEPT !.source = "tracked", !.billed = tabs[w].sources,
                   !.total = Charge(tabs[w].sources), !.version = @ + 1,
                   !.raced = @ \/ old.shown # 0 \/ Sealing(i)]
<1>1. tabs[w].pc = "fill" /\ i \in Invoices /\ objects' = objects
  BY <1>0 DEF TimeFills, BillInv, Stored, Tab
<1>2. \A j \in Invoices : ~Recording(w, j)
  BY <1>1 DEF Recording
<1>3. CASE invoices' = invoices
  BY <1>0, <1>1, <1>2, <1>3, DoesQuietly, DoneQuietly DEF TimeFills
<1>4. CASE /\ Exists(i) /\ ~SourcesTaken(w) /\ Does(w, "seal", i)
           /\ invoices' = [invoices EXCEPT ![i] = r]
  <2>1. Row(old) /\ old.status # "none"
    BY <1>1, <1>4 DEF BillInv, Stored, Exists
  <2>2. /\ Row(r) /\ r.status # "none" /\ r.billed = tabs[w].sources
        /\ r.total = Charge(tabs[w].sources) /\ r.fresh = old.fresh
        /\ r.raced = (old.raced \/ old.shown # 0 \/ Sealing(i))
    <3>1. old.raced \in BOOLEAN /\ Sealing(i) \in BOOLEAN
      BY <2>1 DEF Row, Sealing
    <3> QED
      BY <2>1, <3>1 DEF Row
  <2>3. \A j \in Invoices : invoices[j].billed \cap tabs[w].sources = {}
    BY <1>4 DEF SourcesTaken, Claimed, Rows, Exists, BillInv, Stored, Row
  <2>4. \A s \in tabs[w].sources : Fixed(s)
    BY DEF BillInv, Charged
  <2>5. /\ Moves(w) /\ tabs'[w].pc = "seal"
        /\ \A v \in Tabs : v # w => tabs'[v] = tabs[v]
    BY <1>1, <1>4, Doing, DoingMoves DEF BillInv
  <2>6. \A j \in Invoices : ~Sealer(w, j)' /\ ~Recording(w, j)
    BY <1>2, <2>5 DEF Sealer
  <2>7. objects' = [j \in Invoices |-> objects'[j]]
    BY <1>1 DEF BillInv, Stored
  <2> HIDE DEF r
  <2>8. ~r.raced => Lone(i)'
    <3> SUFFICES ASSUME ~r.raced PROVE Lone(i)'
      OBVIOUS
    <3>1. old.shown = 0 /\ ~Sealing(i)
      BY <2>2
    <3>2. \A v \in Tabs : ~Sealer(v, i)'
      BY <1>1, <2>5, <2>6, <3>1 DEF Sealing, Sealer
    <3>3. ~invoices'[i].fresh
      BY <1>1, <1>4, <2>1, <2>2, <3>1, RowWritten DEF BillInv, Row
    <3> QED
      BY <1>1, <3>2, <3>3 DEF Lone, Sealer, Recording
  <2> QED
    BY <1>1, <1>4, <2>2, <2>3, <2>4, <2>5, <2>6, <2>7, <2>8, WriteKeepsBill
<1> QED
  BY <1>0, <1>3, <1>4 DEF TimeFills

------------------------------------------------------------------------------
(***************************************************************************)
(* The document.                                                           *)
(***************************************************************************)
LEMMA SealReadsKeepsBill ==
  ASSUME BillInv, UNCHANGED timeVars, NEW w \in Tabs, SealReads(w)
  PROVE  BillInv'
<1>0. PICK i : i = tabs[w].invoice
  OBVIOUS
<1> DEFINE old == invoices[i]
           r == [old EXCEPT !.raced = @ \/ Sealing(i)]
<1>1. tabs[w].pc = "seal" /\ i \in Invoices /\ objects' = objects
  BY <1>0 DEF SealReads, BillInv, Stored, Tab
<1>2. \A j \in Invoices : ~Recording(w, j)
  BY <1>1 DEF Recording
<1>3. CASE ~Exists(i)
  BY <1>0, <1>1, <1>2, <1>3, DoneQuietly DEF SealReads
<1>4. CASE Exists(i)
  <2>1. /\ tabs' = [tabs EXCEPT ![w].pc = "save", ![w].version = invoices[i].version]
        /\ invoices' = [invoices EXCEPT ![i] = r]
    BY <1>0, <1>4 DEF SealReads
  <2>2. Row(old) /\ old.status # "none" /\ Tab(tabs[w])
    BY <1>1, <1>4 DEF BillInv, Stored, Exists
  <2>3. /\ DOMAIN tabs'[w] = DOMAIN tabs[w] /\ tabs'[w].pc = "save"
        /\ tabs'[w].invoice = i /\ tabs'[w].version = old.version
        /\ tabs'[w].sources = tabs[w].sources /\ tabs' = [v \in Tabs |-> tabs'[v]]
        /\ \A v \in Tabs : v # w => tabs'[v] = tabs[v]
    BY <1>0, <2>1, <2>2 DEF BillInv, Stored, Tab
  <2>4. Moves(w)
    <3>1. Tab(tabs[w])'
      BY <1>1, <2>2, <2>3 DEF Tab, Row
    <3> QED
      BY <2>3, <3>1 DEF Moves, BillInv, Charged
  <2>5. /\ Row(r) /\ r.status # "none" /\ r.billed = old.billed /\ r.source = old.source
        /\ r.total = old.total /\ r.version = old.version /\ r.fresh = old.fresh
        /\ r.shown = old.shown /\ r.sealer = old.sealer /\ r.raced = (old.raced \/ Sealing(i))
    <3>1. old.raced \in BOOLEAN /\ Sealing(i) \in BOOLEAN
      BY <2>2 DEF Row, Sealing
    <3> QED
      BY <2>2, <3>1 DEF Row
  <2>6. objects' = [j \in Invoices |-> objects'[j]]
    BY <1>1 DEF BillInv, Stored
  <2>7. \A j \in Invoices : j # i => ~Sealer(w, j)'
    BY <2>3 DEF Sealer
  <2> HIDE DEF r
  <2>8. invoices'[i] = r
    BY <1>1, <2>1, RowWritten DEF BillInv
  <2>9. ~r.raced => Lone(i)'
    <3> SUFFICES ASSUME ~r.raced PROVE Lone(i)'
      OBVIOUS
    <3>1. ~Sealing(i) /\ Lone(i)
      BY <1>1, <1>4, <2>5 DEF BillInv, LoneSeals, Rows
    <3>2. \A v \in Tabs : (v = w \/ ~Sealer(v, i)') /\ ~Recording(v, i)' /\ ~Recording(v, i)
      BY <1>2, <1>1, <2>3, <3>1 DEF Sealing, Sealer, Recording
    <3>3. Sealer(w, i)' => tabs'[w].version = invoices'[i].version
      BY <2>3, <2>5, <2>8
    <3>4. invoices'[i].fresh => /\ invoices'[i].shown = invoices'[i].version
                                /\ Versioned \/ objects'[i] = invoices'[i].sealer
      BY <1>1, <2>5, <2>8, <3>1, <3>2 DEF Lone
    <3> QED
      BY <3>2, <3>3, <3>4 DEF Lone
  <2> QED
    BY <1>1, <1>2, <2>1, <2>4, <2>5, <2>6, <2>7, <2>9, SameClaims, WriteKeepsBill
<1> QED
  BY <1>3, <1>4

\* A saved object is the request's own, until the next is saved.
LEMMA SealSavesKeepsBill ==
  ASSUME BillInv, UNCHANGED timeVars, NEW w \in Tabs, SealSaves(w)
  PROVE  BillInv'
<1>0. PICK i : i = tabs[w].invoice
  OBVIOUS
<1>1. tabs[w].pc = "save" /\ i \in Invoices /\ invoices' = invoices /\ tabs[w].version > 0
  BY <1>0 DEF SealSaves, BillInv, Stored, Tab
<1>2. \A j \in Invoices : ~Recording(w, j)
  BY <1>1 DEF Recording
<1>3. CASE Done(w) /\ objects' = objects
  BY <1>1, <1>2, <1>3, DoneQuietly
<1>4. CASE objects' = [objects EXCEPT ![i] = w] /\ Does(w, "record", i)
  <2> USE DEF BillInv
  <2>1. /\ Moves(w) /\ tabs'[w].pc = "record" /\ tabs'[w].invoice = i
        /\ tabs'[w].version = tabs[w].version
        /\ \A v \in Tabs : v # w => tabs'[v] = tabs[v]
    BY <1>1, <1>4, Doing, DoingMoves
  <2>2. /\ objects'[i] = w /\ objects' = [j \in Invoices |-> objects'[j]]
        /\ \A j \in Invoices : j # i => objects'[j] = objects[j]
    BY <1>1, <1>4 DEF Stored
  <2>3. Stored'
    BY <1>1, <2>1, <2>2 DEF Stored, Moves
  <2>4. Disjoint'
    BY <1>1 DEF Disjoint
  <2>5. Charged'
    <3>1. \A v \in Tabs : \A s \in tabs'[v].sources : Fixed(s)
      BY <2>1 DEF Moves, Charged
    <3> QED
      BY <1>1, <3>1, NoRowKeepsCharge
  <2>6. ASSUME NEW j \in Invoices, Exists(j)', ~invoices'[j].raced PROVE Lone(j)'
    <3>1. Lone(j)
      BY <1>1, <2>6 DEF LoneSeals, Rows, Exists
    <3>2. CASE j # i
      <4>1. \A v \in Tabs : tabs'[v] = tabs[v] \/ (~Sealer(v, j)' /\ ~Recording(v, j))
        BY <1>2, <2>1, <3>2 DEF Sealer
      <4> QED
        BY <1>1, <2>2, <2>6, <3>1, <3>2, <4>1, LoneKept DEF Rows, Exists
    <3>3. CASE j = i
      <4>1. Sealer(w, i)
        BY <1>0, <1>1 DEF Sealer
      <4>2. \A v \in Tabs : Sealer(v, i)' => v = w
        BY <2>1, <3>1, <3>3, <4>1 DEF Lone, Sealer
      <4>3. Recording(w, i)' /\ \A v \in Tabs : Recording(v, i)' => v = w
        BY <2>1, <4>2 DEF Recording, Sealer
      <4>4. tabs'[w].version = invoices'[i].version
        BY <1>1, <2>1, <3>1, <3>3, <4>1 DEF Lone
      <4>5. invoices'[i].fresh => invoices'[i].shown = invoices'[i].version
        BY <1>1, <3>1, <3>3 DEF Lone
      <4> QED
        BY <2>2, <3>3, <4>2, <4>3, <4>4, <4>5 DEF Lone
    <3> QED
      BY <3>2, <3>3
  <2> QED
    BY <2>3, <2>4, <2>5, <2>6 DEF LoneSeals, Rows
<1> QED
  BY <1>0, <1>3, <1>4 DEF SealSaves

LEMMA SealRecordsKeepsBill ==
  ASSUME BillInv, UNCHANGED timeVars, NEW w \in Tabs, SealRecords(w)
  PROVE  BillInv'
<1>0. PICK i : i = tabs[w].invoice
  OBVIOUS
<1> DEFINE old == invoices[i]
           r == [old EXCEPT !.fresh = TRUE, !.sealer = w, !.shown = tabs[w].version]
<1>1. /\ tabs[w].pc = "record" /\ i \in Invoices /\ objects' = objects /\ Done(w)
      /\ tabs[w].version > 0 /\ tabs[w].version \in Nat
  BY <1>0 DEF SealRecords, BillInv, Stored, Tab
<1>2. \A j \in Invoices : Recording(w, j) => j = i
  BY <1>0 DEF Recording
<1>3. CASE ~Exists(i)
  BY <1>0, <1>1, <1>2, <1>3, DoneQuietly DEF SealRecords
<1>4. CASE Exists(i)
  <2>1. invoices' = [invoices EXCEPT ![i] = r]
    BY <1>0, <1>4 DEF SealRecords
  <2>2. Row(old) /\ old.status # "none"
    BY <1>1, <1>4 DEF BillInv, Stored, Exists
  <2>3. /\ Moves(w) /\ \A j \in Invoices : ~Sealer(w, j)'
        /\ \A v \in Tabs : v # w => tabs'[v] = tabs[v]
    BY <1>1, BeingDone, DoneMoves DEF BillInv
  <2>4. /\ Row(r) /\ r.status # "none" /\ r.billed = old.billed /\ r.source = old.source
        /\ r.total = old.total /\ r.version = old.version /\ r.fresh = TRUE
        /\ r.shown = tabs[w].version /\ r.sealer = w /\ r.raced = old.raced
    BY <1>1, <2>2 DEF Row
  <2>5. objects' = [j \in Invoices |-> objects'[j]]
    BY <1>1 DEF BillInv, Stored
  <2> HIDE DEF r
  <2>6. invoices'[i] = r
    BY <1>1, <2>1, RowWritten DEF BillInv
  <2>7. ~r.raced => Lone(i)'
    <3> SUFFICES ASSUME ~r.raced PROVE Lone(i)'
      OBVIOUS
    <3>1. Lone(i) /\ Sealer(w, i) /\ Recording(w, i)
      BY <1>0, <1>1, <1>4, <2>4 DEF BillInv, LoneSeals, Rows, Sealer, Recording
    <3>2. \A v \in Tabs : ~Sealer(v, i)' /\ ~Recording(v, i)'
      BY <1>1, <2>3, <3>1 DEF Lone, Sealer, Recording
    <3>3. /\ invoices'[i].shown = invoices'[i].version
          /\ objects'[i] = invoices'[i].sealer
      BY <1>1, <2>4, <2>6, <3>1 DEF Lone
    <3> QED
      BY <3>2, <3>3 DEF Lone
  <2> QED
    BY <1>1, <1>2, <2>1, <2>3, <2>4, <2>5, <2>7, SameClaims, WriteKeepsBill
<1> QED
  BY <1>3, <1>4

LEMMA CutOffKeepsBill ==
  ASSUME BillInv, UNCHANGED timeVars, NEW w \in Tabs, CutOff(w)
  PROVE  BillInv'
<1>0. PICK i : i = tabs[w].invoice
  OBVIOUS
<1> DEFINE old == invoices[i]
           r == [old EXCEPT !.raced = @ \/ old.fresh]
<1>1. objects' = objects /\ Done(w)
  BY DEF CutOff
<1>2. \A j \in Invoices : Recording(w, j) => j = i /\ tabs[w].pc = "record"
  BY <1>0 DEF Recording
<1>3. CASE ~(tabs[w].pc = "record" /\ Exists(i))
  BY <1>0, <1>1, <1>2, <1>3, DoneQuietly DEF CutOff
<1>4. CASE tabs[w].pc = "record" /\ Exists(i)
  <2>0. i \in Invoices
    BY <1>0, <1>4 DEF BillInv, Stored, Tab
  <2>1. invoices' = [invoices EXCEPT ![i] = r]
    BY <1>0, <1>4 DEF CutOff
  <2>2. Row(old) /\ old.status # "none"
    BY <2>0, <1>4 DEF BillInv, Stored, Exists
  <2>3. /\ Moves(w) /\ \A j \in Invoices : ~Sealer(w, j)'
        /\ \A v \in Tabs : v # w => tabs'[v] = tabs[v]
    BY <1>1, BeingDone, DoneMoves DEF BillInv
  <2>4. /\ Row(r) /\ r.status # "none" /\ r.billed = old.billed /\ r.source = old.source
        /\ r.total = old.total /\ r.fresh = old.fresh
        /\ r.raced = (old.raced \/ old.fresh)
    BY <2>2 DEF Row
  <2>5. objects' = [j \in Invoices |-> objects'[j]]
    BY <1>1 DEF BillInv, Stored
  <2> HIDE DEF r
  <2>6. invoices'[i] = r
    BY <2>0, <2>1, RowWritten DEF BillInv
  <2>7. ~r.raced => Lone(i)'
    <3> SUFFICES ASSUME ~r.raced PROVE Lone(i)'
      OBVIOUS
    <3>1. Lone(i) /\ Sealer(w, i)
      BY <1>0, <1>4, <2>0, <2>4 DEF BillInv, LoneSeals, Rows, Sealer
    <3>2. \A v \in Tabs : ~Sealer(v, i)' /\ ~Recording(v, i)'
      BY <2>0, <2>3, <3>1 DEF Lone, Sealer, Recording
    <3>3. ~invoices'[i].fresh
      BY <2>4, <2>6
    <3> QED
      BY <3>2, <3>3 DEF Lone
  <2> QED
    BY <1>1, <1>2, <2>0, <2>1, <2>3, <2>4, <2>5, <2>7, SameClaims, WriteKeepsBill
<1> QED
  BY <1>3, <1>4

------------------------------------------------------------------------------
LEMMA InvoiceStepKeepsBill ==
  ASSUME BillInv, UNCHANGED timeVars, NEW w \in Tabs, InvoiceStep(w)
  PROVE  BillInv'
<1>1. CASE \E p \in Periods : TimeReads(w, p)
  BY <1>1, TimeReadsKeepsBill
<1>2. ASSUME NEW i \in Invoices, AddManual(w, i) PROVE BillInv'
  BY <1>2, CreateKeepsBill DEF AddManual
<1>3. ASSUME NEW i \in Invoices, TimeCreates(w, i) PROVE BillInv'
  <2>1. CASE create_team_invoice(i, 0) /\ Does(w, "fill", i)
    BY <1>3, <2>1, CreateKeepsBill DEF TimeCreates
  <2>2. CASE Done(w) /\ UNCHANGED invoices
    BY <1>3, <2>2, DoneQuietly DEF TimeCreates, Recording
  <2> QED
    BY <1>3, <2>1, <2>2 DEF TimeCreates
<1>4. CASE \E i \in Invoices :
             \/ update_team_invoice_draft(w, i) \/ submit_team_invoice(w, i)
             \/ record_team_invoice_payment(w, i) \/ void_team_invoice(w, i)
  BY <1>4, MemberAndManagerKeepBill
<1>5. ASSUME NEW i \in Invoices, delete_team_invoice_draft(w, i) PROVE BillInv'
  <2>1. tabs' = tabs /\ tabs[w].pc = "idle"
    BY <1>5 DEF delete_team_invoice_draft
  <2>2. Moves(w) /\ \A j \in Invoices : ~Sealer(w, j)' /\ ~Recording(w, j)
    BY <2>1 DEF Moves, Sealer, Recording, BillInv, Stored, Charged, Tab
  <2> QED
    BY <1>5, <2>2, RemoveKeepsBill DEF delete_team_invoice_draft
<1>6. ASSUME NEW i \in Invoices, OpenDocument(w, i) PROVE BillInv'
  BY <1>6, DoesQuietly DEF OpenDocument
<1>7. CASE TimeFills(w)
  BY <1>7, FillKeepsBill
<1>8. CASE TimeUndoes(w)
  <2>1. tabs[w].invoice \in Invoices
    BY <1>8 DEF TimeUndoes, BillInv, Stored, Tab
  <2>2. Moves(w) /\ \A j \in Invoices : ~Sealer(w, j)' /\ ~Recording(w, j)
    BY <1>8, DoneMoves DEF TimeUndoes, Recording, BillInv
  <2> QED
    BY <1>8, <2>1, <2>2, RemoveKeepsBill DEF TimeUndoes
<1>9. CASE SealReads(w) \/ SealSaves(w) \/ SealRecords(w) \/ CutOff(w)
  BY <1>9, SealReadsKeepsBill, SealSavesKeepsBill, SealRecordsKeepsBill, CutOffKeepsBill
<1> QED
  BY <1>1, <1>2, <1>3, <1>4, <1>5, <1>6, <1>7, <1>8, <1>9 DEF InvoiceStep

LEMMA StepKeepsInv ==
  TimeInv /\ BillInv /\ [Next]_<<timeVars, billVars>> => TimeInv' /\ BillInv'
<1> SUFFICES ASSUME TimeInv, BillInv, [Next]_<<timeVars, billVars>> PROVE TimeInv' /\ BillInv'
  OBVIOUS
<1>1. CASE TimeNext /\ UNCHANGED billVars
  BY <1>1, TimeStepKeepsInv, TimeStepKeepsBill
<1>2. CASE InvoiceNext /\ UNCHANGED timeVars
  BY <1>2, TimeStepKeepsInv, InvoiceStepKeepsBill DEF InvoiceNext
<1>3. CASE UNCHANGED <<timeVars, billVars>>
  BY <1>3, TimeStepKeepsInv, TimeStepKeepsBill
<1> QED
  BY <1>1, <1>2, <1>3 DEF Next

\* What holds of time, payroll, invoices and documents between any two transactions.
THEOREM BillInvHolds == Spec => [](TimeInv /\ BillInv)
<1>1. Init => TimeInv /\ BillInv
  BY TimeInitHasInv, InitHasBillInv DEF Init
<1> QED
  BY <1>1, StepKeepsInv, PTL DEF Spec

\* No time is billed by two invoices, whatever requests read, create, fill, undo and
\* delete them at the same time, and an invoice from time charges what the time it
\* claims comes to, whatever becomes of the entries meanwhile (the unique key of
\* team_invoice_time_sources under create_team_invoice_from_time).
THEOREM BilledOnce == Spec => []TimeIsBilledOnce
  BY BillInvHolds, BillInvIsEnough, PTL

\* A document that counts as sealed shows the invoice as it is, unless seals ran into
\* each other or into a change (seal_team, the put-off seal, team_invoice_document).
THEOREM LoneSealsHeal == Spec => []LoneSealHeals
  BY BillInvHolds, BillInvIsEnough, PTL
=============================================================================
