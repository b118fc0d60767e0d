----------------------- MODULE PayrollDelivery_proofs -----------------------
(***************************************************************************)
(* Proofs about PayrollDelivery, for any number of threads, sends and      *)
(* moves of the provider, with crashes, stalled sends and changed settings.*)
(*                                                                         *)
(* The properties are not inductive: what a thread records is what it read *)
(* or heard before.  PayInv therefore says what a thread carries: the      *)
(* row's own provider, a reference the provider gave out, a status that    *)
(* was true when it was heard and is still true of the past.               *)
(***************************************************************************)
EXTENDS PayrollDelivery, TLAPS

Final == {"refunded", "cancelled"}

\* The first claim froze a recipient, and a destination stays confirmed.
Frozen ==
  /\ row.provider # "manual" => row.recipient # NoRecipient
  /\ row.recipient # NoRecipient => destination # NoRecipient

\* The provider's changes that no move of its own accounts for.
Own == IF transfers = <<>> THEN 0 ELSE IF transfers[1].state = "created" THEN 1 ELSE 2

\* The provider holds at most one transfer, made for the row's provider.
Made ==
  /\ Len(transfers) <= 1
  /\ changes <= MaxMoves + Own
  /\ transfers # <<>> =>
       /\ transfers[1].by = row.provider
       /\ row.provider \in Direct => transfers[1].to = row.recipient
       /\ transfers[1].state = "sent" => transfers[1].wasSent

PaidOut == transfers # <<>> /\ transfers[1].wasSent

Noticed(e) == e.ref \in 1 .. Len(transfers) /\ (e.state = "sent" => PaidOut)

\* What the row says of the past, without quantifiers.
RowSound ==
  /\ row.ref <= Len(transfers)
  /\ row.status = "paid" => row.paid
  /\ row.provider = "manual" => /\ row.ref = NoRef /\ row.status # "reversed"
                                /\ row.paid => row.status = "paid"
  /\ row.provider # "manual" /\ row.paid => PaidOut
  /\ row.status = "reversed" =>
       row.ref # NoRef /\ PaidOut /\ transfers[1].state \in Final

\* What a thread carries is true, or was true of the past.
Carried(w) ==
  workers[w].pc # "idle" =>
    /\ workers[w].provider = row.provider /\ row.provider # "manual"
    /\ workers[w].ref <= Len(transfers) /\ workers[w].got <= Len(transfers)
    /\ workers[w].pc = "create" =>
         /\ workers[w].for = "send" /\ workers[w].to # NoRecipient
         /\ row.provider \in Direct => workers[w].to = row.recipient
         /\ row.provider = "paypal" => age = "fresh"
    /\ workers[w].pc = "record" =>
         /\ workers[w].status \notin {"draft", "reversed"}
         /\ workers[w].status = "paid" => PaidOut
         /\ row.provider = "wise" => workers[w].got # NoRef
    /\ workers[w].pc \in {"fund", "complete", "observe", "apply"} =>
         workers[w].ref # NoRef
    /\ workers[w].prior = "paid" => PaidOut
    /\ workers[w].pc = "apply" =>
         /\ workers[w].status # "draft"
         /\ workers[w].status = "paid" => PaidOut
         /\ workers[w].status = "reversed" =>
              PaidOut /\ transfers[1].state \in Final

\* What the provider did is never undone.
Ended == PaidOut /\ transfers[1].state \in Final
Grows == /\ Len(transfers) <= Len(transfers')
         /\ PaidOut => PaidOut'
         /\ Ended => Ended'

PayInv == /\ TypeOK /\ Frozen /\ Made /\ RowSound
          /\ \A e \in events : Noticed(e)
          /\ \A w \in Workers : Carried(w)

-----------------------------------------------------------------------------
\* A payment that was just generated.
LEMMA InitInv == ASSUME ProviderAssumption, Init PROVE PayInv
BY DEF Init, PayInv, TypeOK, Frozen, Made, RowSound, Noticed, Carried, PaidOut, Own,
       Row, Worker, Status, Refs, NoRef, Idle, ProviderAssumption, MaxChanges

\* What a thread carries stays true while the thread waits.
LEMMA OthersCarry ==
  ASSUME ProviderAssumption, TypeOK, TypeOK', NEW v \in Workers, Carried(v), workers'[v] = workers[v],
         workers[v].pc # "idle" => /\ row'.provider = row.provider
                                   /\ row'.recipient = row.recipient,
         workers[v].pc = "create" /\ row.provider = "paypal" => age' = age,
         Grows
  PROVE  Carried(v)'
<1> DEFINE t == workers[v]
<1>1. t \in Worker /\ Len(transfers) \in Nat /\ Len(transfers') \in Nat
  BY DEF TypeOK
<1> QED
  BY <1>1 DEF Carried, Grows, Ended, Worker, Refs

\* An accepted update of the row keeps it sound, whoever sends it, if what it
\* says is true.
LEMMA RecordKeeps ==
  ASSUME ProviderAssumption, PayInv,
         NEW status \in Status, NEW ref \in Refs, ref <= Len(transfers),
         row.provider # "manual", status # "draft",
         status = "paid" => PaidOut,
         status = "reversed" => ref # NoRef /\ Ended,
         Record(row.provider, status, ref), UNCHANGED <<transfers, destination>>
  PROVE  /\ row' \in Row /\ RowSound' /\ Frozen'
         /\ row'.provider = row.provider /\ row'.recipient = row.recipient
<1>1. PICK window \in Window(status) :
        row' = [row EXCEPT
              !.status = status, !.provider = row.provider,
              !.ref = IF ref # NoRef THEN ref ELSE @,
              !.paid = @ \/ status = "paid",
              !.due = FollowUp(status, ref), !.until = window,
              !.stale = FALSE]
  BY DEF Record
<1>2. row \in Row
  BY DEF PayInv, TypeOK
<1>3. window \in {"none", "open", "closed"}
  BY <1>2 DEF Window, Row
<1>4. FollowUp(status, ref) \in {"never", "later", "now"}
  BY DEF FollowUp
<1>5. row' \in Row
  BY <1>1, <1>2, <1>3, <1>4 DEF Row
<1>6. /\ row'.provider = row.provider /\ row'.recipient = row.recipient
      /\ row'.status = status /\ row'.paid = (row.paid \/ status = "paid")
      /\ row'.ref = IF ref # NoRef THEN ref ELSE row.ref
  BY <1>1, <1>2 DEF Row
<1>7. RowSound' /\ Frozen'
  BY <1>5, <1>6 DEF PayInv, RowSound, Frozen, PaidOut, Ended, NoRef
<1> QED
  BY <1>5, <1>6, <1>7

\* A step of one thread keeps the invariant if the row, the provider and the
\* clock keep theirs and what the thread now carries is true.
LEMMA ThreadStep ==
  ASSUME ProviderAssumption, PayInv, TypeOK', Frozen', Made', RowSound', Grows,
         \A e \in events' : Noticed(e)',
         NEW w \in Workers, Carried(w)', \A v \in Workers \ {w} : workers'[v] = workers[v],
         row'.provider = row.provider, row'.recipient = row.recipient, age' = age
  PROVE  PayInv'
<1>1. \A v \in Workers : Carried(v)'
  BY OthersCarry DEF PayInv
<1> QED
  BY <1>1 DEF PayInv

\* A step that leaves the provider and the threads alone.
LEMMA RowStep ==
  ASSUME ProviderAssumption, PayInv, row' \in Row, Frozen', RowSound',
         UNCHANGED <<workers, age, transfers, changes, sends, setting>>,
         destination' \in Recipients \cup {NoRecipient}, events' \subseteq events,
         row'.provider = row.provider, row'.recipient = row.recipient
  PROVE  PayInv'
<1>1. TypeOK' /\ Grows /\ Made'
  BY DEF PayInv, TypeOK, Grows, Ended, PaidOut, Made, Own
<1>2. \A e \in events' : Noticed(e)'
  BY DEF PayInv, Noticed, PaidOut
<1>3. \A v \in Workers : Carried(v)'
  BY <1>1, OthersCarry DEF PayInv
<1> QED
  BY <1>1, <1>2, <1>3 DEF PayInv

\* A reference names the one transfer there is.
LEMMA OneTransfer ==
  ASSUME ProviderAssumption, PayInv, NEW ref \in Refs, ref # NoRef, ref <= Len(transfers)
  PROVE  ref = 1 /\ Len(transfers) = 1 /\ transfers # <<>> /\ transfers[1] \in Transfer
<1>1. transfers \in Seq(Transfer) /\ Len(transfers) <= 1
  BY DEF PayInv, TypeOK, Made
<1>2. ref \in Nat /\ Len(transfers) \in Nat
  BY <1>1 DEF Refs, ProviderAssumption
<1>3. \A r, n \in Nat : r # 0 /\ r <= n /\ n <= 1 => r = 1 /\ n = 1
  OBVIOUS
<1>4. ref = 1 /\ Len(transfers) = 1
  BY <1>1, <1>2, <1>3 DEF NoRef
<1> QED
  BY <1>1, <1>4

\* Idle threads carry nothing.
LEMMA IdleFacts ==
  ASSUME ProviderAssumption
  PROVE  Idle.pc = "idle" /\ Idle \in Worker
BY DEF ProviderAssumption, Idle, Worker, NoRef, Refs, Status

\* The row's own updates: the job's recovery, the events, the clock.
LEMMA RowKeepsInv ==
  ASSUME ProviderAssumption, PayInv,
         \/ RecoverStale \/ FallDue \/ TenMinutes \/ NinetyDays
         \/ \E e \in events : QueueWiseEvent(e) \/ IgnoreWiseEvent(e)
  PROVE  PayInv'
<1> USE DEF PayInv, TypeOK, Row, Frozen, RowSound, PaidOut
<1>1. CASE RecoverStale
  BY <1>1, RowStep DEF RecoverStale, Status, outside
<1>2. CASE FallDue
  BY <1>2, RowStep DEF FallDue, outside
<1>3. CASE TenMinutes
  BY <1>3, RowStep DEF TenMinutes, outside
<1>4. CASE NinetyDays
  BY <1>4, RowStep DEF NinetyDays, outside
<1>5. ASSUME NEW e \in events, QueueWiseEvent(e) PROVE PayInv'
  <2>1. events' \subseteq events
    BY <1>5 DEF QueueWiseEvent, Delivered
  <2>2. e.at \in 0 .. MaxChanges
    BY DEF Event
  <2> QED
    BY <1>5, <2>1, <2>2, RowStep DEF QueueWiseEvent
<1>6. ASSUME NEW e \in events, IgnoreWiseEvent(e) PROVE PayInv'
  BY <1>6, RowStep DEF IgnoreWiseEvent
<1> QED
  BY <1>1, <1>2, <1>3, <1>4, <1>5, <1>6

\* The owner settles by hand, confirms a destination, restarts the server; days
\* pass.
LEMMA OwnerKeepsInv ==
  ASSUME ProviderAssumption, PayInv,
         SetDestination \/ SetFinancialStatus \/ Configure \/ Crash \/ DaysPass
  PROVE  PayInv'
<1> USE DEF PayInv, TypeOK, Row, Frozen, RowSound, PaidOut, outside
<1>1. CASE SetDestination
  BY <1>1, RowStep DEF SetDestination, ProviderAssumption
<1>2. CASE SetFinancialStatus
  <2>1. PICK status \in Status \ {"reversed"} :
          /\ row.status = "paid" => status = "paid"
          /\ row' = [row EXCEPT !.status = status, !.stale = FALSE,
                                !.paid = @ \/ status = "paid"]
    BY <1>2 DEF SetFinancialStatus
  <2>2. row' \in Row
    BY <2>1
  <2>3. RowSound' /\ Frozen' /\ row'.provider = row.provider /\ row'.recipient = row.recipient
    BY <1>2, <2>1 DEF SetFinancialStatus
  <2> QED
    BY <1>2, <2>2, <2>3, RowStep DEF SetFinancialStatus
<1>3. CASE Configure
  BY <1>3 DEF Configure, Made, Own, Noticed, Carried
<1>4. CASE Crash
  BY <1>4, IdleFacts DEF Crash, Made, Own, Noticed, Carried
<1>5. CASE DaysPass
  <2>1. \A v \in Workers : workers[v].pc # "create"
    BY <1>5 DEF DaysPass, Sending, Carried
  <2>2. TypeOK' /\ Grows
    BY <1>5 DEF DaysPass, Grows, Ended
  <2>3. \A v \in Workers : Carried(v)'
    BY <1>5, <2>1, <2>2, OthersCarry DEF DaysPass
  <2> QED
    BY <1>5, <2>2, <2>3 DEF DaysPass, Made, Own, Noticed
<1> QED
  BY <1>1, <1>2, <1>3, <1>4, <1>5

\* A thread reads the row, or hears of the transfer it asked about.
LEMMA ObservingKeepsInv ==
  ASSUME ProviderAssumption, PayInv, NEW w \in Workers,
         Reconcile(w) \/ ReconcileDue(w) \/ ObserveAnswered(w) \/ ObserveFails(w)
  PROVE  PayInv'
<1> USE DEF outside
<1>1. UNCHANGED <<row, destination, age, transfers, changes, events, sends, setting>>
  BY DEF Reconcile, ReconcileDue, ObserveAnswered, ObserveFails
<1>2. /\ Frozen' /\ Made' /\ RowSound' /\ Grows
      /\ \A e \in events' : Noticed(e)'
      /\ PaidOut' = PaidOut
  BY <1>1 DEF PayInv, Frozen, Made, Own, RowSound, Grows, Ended, PaidOut, Noticed, TypeOK
<1>3. row \in Row /\ workers \in [Workers -> Worker] /\ Len(transfers) \in Nat
  BY DEF PayInv, TypeOK
<1>4. ASSUME NEW thread \in Worker, workers' = [workers EXCEPT ![w] = thread], Carried(w)'
      PROVE  PayInv'
  <2>1. TypeOK'
    BY <1>1, <1>4 DEF PayInv, TypeOK
  <2>2. \A v \in Workers \ {w} : workers'[v] = workers[v]
    BY <1>4
  <2> QED
    BY <1>1, <1>2, <1>4, <2>1, <2>2, ThreadStep
<1>5. ASSUME NEW for \in {"button", "job"}, Reads(w, for), row.provider \in Direct, row.ref # NoRef,
             row.provider \in Providers
      PROVE  PayInv'
  <2> DEFINE thread == [Idle EXCEPT !.pc = "observe", !.for = for, !.provider = row.provider,
                                    !.ref = row.ref, !.prior = row.status]
  <2>1. thread \in Worker
    BY <1>3, <1>5, IdleFacts DEF Row, Worker, Idle, NoRef, Refs
  <2>2. workers' = [workers EXCEPT ![w] = thread] /\ workers'[w] = thread
    BY <1>3, <1>5 DEF Reads
  <2>3. /\ thread.pc = "observe" /\ thread.provider = row.provider /\ thread.ref = row.ref
        /\ thread.got = NoRef /\ thread.prior = row.status
    BY DEF Idle
  <2>4. Carried(w)'
    BY <1>1, <1>2, <1>3, <1>5, <2>2, <2>3 DEF Carried, PayInv, RowSound, Direct, NoRef
  <2> QED
    BY <1>4, <2>1, <2>2, <2>4
<1>6. row.provider \in Direct => row.provider \in Providers
  BY <1>3 DEF Row, Direct
<1>7. CASE Reconcile(w)
  BY <1>5, <1>6, <1>7 DEF Reconcile
<1>8. CASE ReconcileDue(w)
  BY <1>5, <1>6, <1>8 DEF ReconcileDue, Due
<1>9. CASE ObserveAnswered(w)
  <2> DEFINE status == StatusOf(transfers[workers[w].ref].state, workers[w].prior)
             thread == [workers[w] EXCEPT !.pc = "apply", !.status = status]
  <2>1. workers[w].pc = "observe" /\ workers[w] \in Worker /\ Carried(w)
    BY <1>3, <1>9 DEF ObserveAnswered, PayInv
  <2>2. workers[w].ref = 1 /\ Len(transfers) = 1 /\ transfers # <<>>
    BY <2>1, OneTransfer DEF Carried, Worker
  <2>3. /\ status \in {"processing", "paid", "failed", "reversed"}
        /\ status = "paid" => PaidOut
        /\ status = "reversed" => PaidOut /\ transfers[1].state \in Final
    BY <2>1, <2>2 DEF StatusOf, Carried, PayInv, Made, PaidOut, Final
  <2>4. thread \in Worker
    BY <2>1, <2>3 DEF Worker, Status
  <2>5. workers' = [workers EXCEPT ![w] = thread] /\ workers'[w] = thread
    BY <1>3, <1>9 DEF ObserveAnswered
  <2>6. /\ thread.pc = "apply" /\ thread.status = status /\ thread.ref = workers[w].ref
        /\ thread.provider = workers[w].provider /\ thread.got = workers[w].got
        /\ thread.prior = workers[w].prior
    BY <2>1 DEF Worker
  <2> HIDE DEF thread, status
  <2>7. Carried(w)'
    BY <1>1, <1>2, <2>1, <2>3, <2>5, <2>6 DEF Carried
  <2> QED
    BY <1>4, <2>4, <2>5, <2>7
<1>10. CASE ObserveFails(w)
  <2>1. workers[w].pc = "observe" /\ workers[w] \in Worker /\ Carried(w)
    BY <1>3, <1>10 DEF ObserveFails, PayInv
  <2>2. ASSUME NEW pc \in {"failing", "defer"}, Goes(w, pc) PROVE PayInv'
    <3> DEFINE thread == [workers[w] EXCEPT !.pc = pc]
    <3>1. thread \in Worker
      BY <2>1, <2>2 DEF Worker
    <3>2. workers' = [workers EXCEPT ![w] = thread] /\ workers'[w] = thread
      BY <1>3, <2>2 DEF Goes
    <3>3. Carried(w)'
      BY <1>1, <1>2, <2>1, <2>2, <3>2 DEF Carried, Worker
    <3> QED
      BY <1>4, <3>1, <3>2, <3>3
  <2>3. ASSUME Ends(w) PROVE PayInv'
    <3>1. workers' = [workers EXCEPT ![w] = Idle] /\ Idle \in Worker /\ workers'[w].pc = "idle"
      BY <1>3, <2>3, IdleFacts DEF Ends
    <3> QED
      BY <1>4, <3>1 DEF Carried
  <2> QED
    BY <1>10, <2>2, <2>3 DEF ObserveFails, Raises
<1> QED
  BY <1>7, <1>8, <1>9, <1>10

\* Nothing is undone by an update of the row or of a thread.
LEMMA SameTransfers ==
  ASSUME PayInv, UNCHANGED <<transfers, changes, events>>,
         row'.provider = row.provider, row'.recipient = row.recipient
  PROVE  /\ Made' /\ Grows /\ PaidOut' = PaidOut /\ Ended' = Ended
         /\ \A e \in events' : Noticed(e)'
BY DEF PayInv, TypeOK, Made, Own, Grows, PaidOut, Ended, Noticed

\* A thread records what it heard, or is refused, or gives up.
LEMMA RecordingKeepsInv ==
  ASSUME ProviderAssumption, PayInv, NEW w \in Workers,
         RecordSend(w) \/ RecordFunded(w) \/ RecordFailed(w) \/ Apply(w) \/ Defer(w)
  PROVE  PayInv'
<1> DEFINE t == workers[w]
<1>1. /\ t \in Worker /\ Carried(w) /\ row \in Row /\ t.pc # "idle"
      /\ workers \in [Workers -> Worker] /\ Len(transfers) \in Nat
  BY DEF PayInv, TypeOK, RecordSend, RecordFunded, RecordFailed, Apply, Defer
<1>2. UNCHANGED <<destination, age, transfers, changes, events, sends, setting>>
  BY DEF RecordSend, RecordFunded, RecordFailed, Apply, Defer, outside
<1>3. /\ t.provider = row.provider /\ row.provider # "manual"
      /\ t.ref \in Refs /\ t.ref <= Len(transfers) /\ t.got \in Refs /\ t.got <= Len(transfers)
  BY <1>1 DEF Carried, Worker
<1>4. ASSUME NEW thread \in Worker, workers' = [workers EXCEPT ![w] = thread],
             row' \in Row, RowSound', Frozen',
             row'.provider = row.provider, row'.recipient = row.recipient,
             \/ thread.pc \in {"idle", "failing", "defer"}
             \/ thread.pc = "fund" /\ thread.ref # NoRef,
             thread.pc # "idle" =>
               /\ thread.provider = row.provider
               /\ thread.ref <= Len(transfers) /\ thread.got <= Len(transfers)
               /\ thread.prior = t.prior
      PROVE  PayInv'
  <2>1. TypeOK'
    BY <1>1, <1>2, <1>4 DEF PayInv, TypeOK
  <2>2. workers'[w] = thread /\ \A v \in Workers \ {w} : workers'[v] = workers[v]
    BY <1>1, <1>4
  <2>3. Carried(w)'
    BY <1>1, <1>2, <1>3, <1>4, <2>2, SameTransfers DEF Carried
  <2> QED
    BY <1>2, <1>4, <2>1, <2>2, <2>3, SameTransfers, ThreadStep
<1>5. UNCHANGED row => /\ row' \in Row /\ RowSound' /\ Frozen'
                       /\ row'.provider = row.provider /\ row'.recipient = row.recipient
  BY <1>1, <1>2 DEF PayInv, RowSound, Frozen, PaidOut
<1>6. ASSUME NEW status \in Status, RecordOrNot(w, status), status # "draft",
             status = "paid" => PaidOut, status = "reversed" => t.ref # NoRef /\ Ended
      PROVE  /\ row' \in Row /\ RowSound' /\ Frozen'
             /\ row'.provider = row.provider /\ row'.recipient = row.recipient
  BY <1>2, <1>3, <1>5, <1>6, RecordKeeps DEF RecordOrNot
<1>7. /\ Idle \in Worker /\ Idle.pc = "idle"
      /\ \A pc \in {"failing", "defer"} :
           LET thread == [t EXCEPT !.pc = pc]
           IN /\ thread \in Worker /\ thread.pc = pc /\ thread.provider = t.provider
              /\ thread.ref = t.ref /\ thread.got = t.got /\ thread.prior = t.prior
  BY <1>1, IdleFacts DEF Worker
<1>8. \A pc \in {"failing", "defer"} :
        Goes(w, pc) => workers' = [workers EXCEPT ![w] = [t EXCEPT !.pc = pc]]
  BY DEF Goes
<1>9. CASE RecordSend(w)
  <2>1. /\ t.status \in Status /\ t.status \notin {"draft", "reversed"}
        /\ t.status = "paid" => PaidOut
        /\ t.provider = "wise" => t.got # NoRef
    BY <1>1, <1>9 DEF RecordSend, Carried, Worker
  <2>2. CASE Refused(t.provider, t.status, t.got)
    BY <1>4, <1>5, <1>7, <1>9, <2>2 DEF RecordSend, Ends
  <2>3. CASE ~Refused(t.provider, t.status, t.got)
    <3>1. /\ row' \in Row /\ RowSound' /\ Frozen'
          /\ row'.provider = row.provider /\ row'.recipient = row.recipient
      BY <1>2, <1>3, <1>9, <2>1, <2>3, RecordKeeps DEF RecordSend
    <3>2. CASE t.provider = "wise"
      <4> DEFINE thread == [t EXCEPT !.pc = "fund", !.ref = t.got]
      <4>1. /\ thread \in Worker /\ thread.pc = "fund" /\ thread.ref = t.got
            /\ thread.provider = t.provider /\ thread.got = t.got /\ thread.prior = t.prior
        BY <1>1 DEF Worker
      <4>2. workers' = [workers EXCEPT ![w] = thread]
        BY <1>9, <2>3, <3>2 DEF RecordSend
      <4> HIDE DEF thread
      <4> QED
        BY <1>3, <1>4, <2>1, <3>1, <3>2, <4>1, <4>2
    <3>3. CASE t.provider # "wise"
      BY <1>4, <1>7, <1>9, <2>3, <3>1, <3>3 DEF RecordSend, Ends
    <3> QED
      BY <3>2, <3>3
  <2> QED
    BY <2>2, <2>3
<1>10. CASE RecordFunded(w)
  BY <1>4, <1>6, <1>7, <1>10 DEF RecordFunded, Ends, Status
<1>11. CASE RecordFailed(w)
  BY <1>4, <1>6, <1>7, <1>11 DEF RecordFailed, Ends, Status
<1>12. CASE Apply(w)
  <2>1. /\ t.status \in Status /\ t.status # "draft"
        /\ t.status = "paid" => PaidOut
        /\ t.status = "reversed" => t.ref # NoRef /\ Ended
    BY <1>1, <1>12 DEF Apply, Carried, Worker, Ended
  <2>2. /\ row' \in Row /\ RowSound' /\ Frozen'
        /\ row'.provider = row.provider /\ row'.recipient = row.recipient
    BY <1>6, <1>12, <2>1 DEF Apply
  <2>3. Ends(w) \/ Goes(w, "failing") \/ Goes(w, "defer")
    BY <1>12 DEF Apply, Raises
  <2> QED
    BY <1>3, <1>4, <1>7, <1>8, <2>2, <2>3 DEF Ends
<1>13. CASE Defer(w)
  <2>1. /\ row' \in Row /\ RowSound' /\ Frozen'
        /\ row'.provider = row.provider /\ row'.recipient = row.recipient
    BY <1>1, <1>2, <1>13 DEF Defer, PayInv, RowSound, Frozen, PaidOut, Row
  <2> QED
    BY <1>4, <1>7, <1>13, <2>1 DEF Defer, Ends
<1> QED
  BY <1>9, <1>10, <1>11, <1>12, <1>13

\* What the provider may do to what it holds, in response to a call or by
\* itself.
ProviderSound ==
  /\ transfers' \in Seq(Transfer) /\ Len(transfers') <= MaxTransfers
  /\ changes' \in 0 .. MaxChanges /\ events' \subseteq Event
  /\ Made' /\ Grows
  /\ \A e \in events' : Noticed(e)'

\* The row stays sound when only the provider moves.
LEMMA RowAfterProvider ==
  ASSUME PayInv, ProviderSound, UNCHANGED <<row, destination>>
  PROVE  RowSound' /\ Frozen'
<1>1. /\ row.ref <= Len(transfers) => row'.ref <= Len(transfers')
      /\ PaidOut => PaidOut'
      /\ Ended => Ended'
  <2>1. Len(transfers) \in Nat /\ Len(transfers') \in Nat
    BY DEF PayInv, TypeOK, ProviderSound
  <2>2. row.ref \in Refs
    BY DEF PayInv, TypeOK, Row
  <2> QED
    BY <2>1, <2>2 DEF ProviderSound, Grows, Refs
<1>2. Frozen'
  BY DEF PayInv, Frozen
<1>3. row' = row /\ RowSound
  BY DEF PayInv
<1>4. row.status = "reversed" => row.ref # NoRef /\ Ended
  BY <1>3 DEF RowSound, Ended
<1>5. row'.status = "reversed" => row'.ref # NoRef /\ PaidOut' /\ transfers'[1].state \in Final
  BY <1>1, <1>3, <1>4 DEF Ended
<1>6. RowSound'
  BY <1>1, <1>3, <1>5 DEF RowSound
<1> QED
  BY <1>2, <1>6

\* A request to pay meets the transfer made before, or makes the only one:
\* PayPal is asked only while it remembers.
LEMMA CreateIsSound ==
  ASSUME ProviderAssumption, PayInv, NEW w \in Workers, workers[w].pc = "create",
         Create(w), UNCHANGED row
  PROVE  ProviderSound /\ Len(transfers') = 1 /\ transfers' # <<>>
<1> DEFINE t == workers[w]
<1>1. t \in Worker /\ Carried(w) /\ row \in Row /\ transfers \in Seq(Transfer)
  BY DEF PayInv, TypeOK
<1>2. /\ t.provider = row.provider /\ t.provider \in Providers /\ t.to \in Recipients
      /\ row.provider \in Direct => t.to = row.recipient
      /\ row.provider = "paypal" => age = "fresh"
  BY <1>1 DEF Carried, Worker, Row
<1>3. CASE transfers # <<>>
  <2>1. Remembered
    BY <1>2, <1>3 DEF Remembered
  <2>2. UNCHANGED <<transfers, changes, events>>
    BY <2>1 DEF Create, Created
  <2>3. Len(transfers) = 1
    <3>1. Len(transfers) \in Nat /\ Len(transfers) # 0
      BY <1>1, <1>3
    <3>2. Len(transfers) <= 1
      BY DEF PayInv, Made
    <3>3. \A n \in Nat : n # 0 /\ n <= 1 => n = 1
      OBVIOUS
    <3> QED
      BY <3>1, <3>2, <3>3
  <2> QED
    BY <1>3, <2>2, <2>3, SameTransfers DEF ProviderSound, PayInv, TypeOK
<1>4. CASE transfers = <<>>
  <2> DEFINE new == [by |-> t.provider, state |-> IF t.provider = "wise" THEN "created" ELSE "funded",
                     to |-> t.to, wasSent |-> FALSE]
  <2>1. /\ new \in Transfer /\ new.by = row.provider /\ new.to = t.to
        /\ new.state \in {"created", "funded"}
    BY <1>2 DEF Transfer, TransferState
  <2>2. transfers' = Append(<<>>, new)
    BY <1>4 DEF Create, Created, Remembered
  <2> HIDE DEF new
  <2>3. transfers' \in Seq(Transfer) /\ Len(transfers') = 1 /\ transfers'[1] = new /\ transfers' # <<>>
    BY <2>1, <2>2
  <2>4. 1 <= MaxTransfers /\ Len(transfers') <= MaxTransfers
    BY <2>3, <1>4 DEF Create
  <2>5. events = {}
    BY <1>4 DEF PayInv, Noticed
  <2>6. changes \in Nat /\ changes <= MaxMoves /\ changes' = changes + 1
    BY <1>4 DEF PayInv, TypeOK, Made, Own, Create, Remembered, MaxChanges, ProviderAssumption
  <2>7. changes' \in 0 .. MaxChanges /\ changes + 1 \in 1 .. MaxChanges
    BY <2>4, <2>6 DEF MaxChanges, ProviderAssumption
  <2>8. events' \subseteq {[state |-> new.state, ref |-> 1, at |-> changes + 1]}
    BY <1>4, <2>3, <2>5 DEF Create, Remembered, Notify
  <2>9. [state |-> new.state, ref |-> 1, at |-> changes + 1] \in Event
    BY <2>1, <2>4, <2>7 DEF Event, TransferState, Refs, ProviderAssumption
  <2>10. \A e \in events' : Noticed(e)'
    BY <2>1, <2>3, <2>8 DEF Noticed
  <2>11. Made'
    BY <1>2, <2>1, <2>3, <2>6 DEF Made, Own, ProviderAssumption
  <2>12. Grows
    BY <1>4, <2>3 DEF Grows, PaidOut, Ended
  <2> QED
    BY <2>3, <2>4, <2>7, <2>8, <2>9, <2>10, <2>11, <2>12 DEF ProviderSound
<1> QED
  BY <1>3, <1>4

\* One step of the only transfer, told or not, is sound if it undoes nothing.
LEMMA ChangeIsSound ==
  ASSUME ProviderAssumption, PayInv, Len(transfers) = 1, transfers[1] \in Transfer,
         NEW new \in Transfer, transfers' = [transfers EXCEPT ![1] = new],
         new.by = transfers[1].by, new.to = transfers[1].to,
         transfers[1].wasSent => new.wasSent, new.state = "sent" => new.wasSent,
         transfers[1].state \notin Final,
         \/ new.state # "created" /\ changes < MaxMoves
         \/ new.state # "created" /\ transfers[1].state = "created",
         Notify(1, new.state), changes' = changes + 1, UNCHANGED row
  PROVE  ProviderSound
<1>1. /\ transfers \in Seq(Transfer) /\ 1 <= MaxTransfers /\ changes \in Nat
      /\ transfers # <<>> /\ changes <= MaxMoves + Own
  <2>1. transfers \in Seq(Transfer) /\ 1 <= MaxTransfers
    BY DEF PayInv, TypeOK
  <2>2. changes \in Nat /\ changes <= MaxMoves + Own
    BY DEF PayInv, TypeOK, Made, MaxChanges, ProviderAssumption
  <2> QED
    BY <2>1, <2>2
<1>2. transfers' \in Seq(Transfer) /\ Len(transfers') = 1 /\ transfers'[1] = new /\ transfers' # <<>>
  BY <1>1
<1>3. changes' <= MaxMoves + 2 /\ Own' = 2
  BY <1>1, <1>2 DEF Own, ProviderAssumption
<1>4. changes' \in 0 .. MaxChanges /\ changes + 1 \in 1 .. MaxChanges
  BY <1>1, <1>3 DEF MaxChanges, ProviderAssumption
<1> DEFINE note == [state |-> new.state, ref |-> 1, at |-> changes + 1]
<1>5. note \in Event /\ note.state = new.state /\ note.ref = 1
  BY <1>1, <1>4 DEF Event, Transfer, Refs, ProviderAssumption
<1>6. events' \subseteq events \cup {note}
  BY DEF Notify
<1> HIDE DEF note
<1>7. Grows
  BY <1>1, <1>2 DEF Grows, PaidOut, Ended
<1>8. \A e \in events' : Noticed(e)'
  BY <1>2, <1>5, <1>6, <1>7 DEF PayInv, Noticed, PaidOut, Grows
<1>9. Made'
  BY <1>1, <1>2, <1>3 DEF PayInv, Made
<1> QED
  BY <1>1, <1>2, <1>4, <1>5, <1>6, <1>7, <1>8, <1>9 DEF ProviderSound, PayInv, TypeOK

\* A thread's call and the provider's side of it.
LEMMA CallStep ==
  ASSUME ProviderAssumption, PayInv, ProviderSound, NEW w \in Workers, NEW thread \in Worker,
         workers' = [workers EXCEPT ![w] = thread], Carried(w)',
         UNCHANGED <<row, destination, age, sends, setting>>
  PROVE  PayInv'
<1>1. TypeOK'
  BY DEF PayInv, TypeOK, ProviderSound
<1>2. \A v \in Workers \ {w} : workers'[v] = workers[v]
  BY DEF PayInv, TypeOK
<1> QED
  BY <1>1, <1>2, RowAfterProvider, ThreadStep DEF ProviderSound

\* The calls that make the transfer.
LEMMA CreatingKeepsInv ==
  ASSUME ProviderAssumption, PayInv, NEW w \in Workers, CreateAnswered(w) \/ CreateFails(w)
  PROVE  PayInv'
<1> DEFINE t == workers[w]
<1>1. /\ t \in Worker /\ Carried(w) /\ workers \in [Workers -> Worker] /\ t.pc = "create"
      /\ UNCHANGED <<row, destination, age, sends, setting>>
  BY DEF PayInv, TypeOK, CreateAnswered, CreateFails
<1>2. /\ t.provider = row.provider /\ row.provider # "manual"
      /\ t.prior = "paid" => PaidOut
      /\ t.ref <= Len(transfers) /\ t.got <= Len(transfers)
      /\ t.ref \in Nat /\ t.got \in Nat
  BY <1>1 DEF Carried, Worker, Refs
<1>3. ASSUME ProviderSound
      PROVE  /\ t.ref <= Len(transfers') /\ t.got <= Len(transfers')
             /\ t.prior = "paid" => PaidOut'
  <2>1. Len(transfers) \in Nat /\ Len(transfers') \in Nat
    BY <1>3 DEF PayInv, TypeOK, ProviderSound
  <2> QED
    BY <1>2, <1>3, <2>1 DEF ProviderSound, Grows
<1>4. CASE CreateAnswered(w)
  <2>1. ProviderSound /\ Len(transfers') = 1 /\ transfers' # <<>>
    BY <1>1, <1>4, CreateIsSound DEF CreateAnswered
  <2>2. PICK status \in FirstStatus(t.provider, transfers'[1].state), got \in {1, NoRef} :
          /\ t.provider = "wise" => got = 1
          /\ workers' = [workers EXCEPT ![w] =
                           [t EXCEPT !.pc = "record", !.got = got, !.status = status]]
    BY <1>4, <2>1 DEF CreateAnswered
  <2>3. transfers' # <<>> /\ (transfers'[1].state = "sent" => PaidOut')
    BY <2>1 DEF ProviderSound, Made, PaidOut
  <2>4. t.provider \in {"paypal", "wise", "webhook"}
    BY <1>1, <1>2 DEF PayInv, TypeOK, Row, ProviderAssumption
  <2>5. status \in {"processing", "paid", "failed"} /\ (status = "paid" => PaidOut')
    BY <2>2, <2>3, <2>4 DEF FirstStatus, StatusOf
  <2> DEFINE thread == [t EXCEPT !.pc = "record", !.got = got, !.status = status]
  <2>6. got \in Refs /\ got <= Len(transfers')
    BY <2>1, <2>2 DEF Refs, NoRef, ProviderSound, ProviderAssumption
  <2>7. /\ thread \in Worker /\ thread.pc = "record" /\ thread.got = got
        /\ thread.status = status /\ thread.provider = t.provider /\ thread.ref = t.ref
        /\ thread.prior = t.prior
    BY <1>1, <2>5, <2>6 DEF Worker, Status
  <2>8. workers' = [workers EXCEPT ![w] = thread] /\ workers'[w] = thread
    BY <1>1, <2>2
  <2> HIDE DEF thread
  <2>9. Carried(w)'
    BY <1>1, <1>2, <1>3, <2>1, <2>2, <2>5, <2>6, <2>7, <2>8 DEF Carried, NoRef
  <2> QED
    BY <1>1, <2>1, <2>7, <2>8, <2>9, CallStep
<1>5. CASE CreateFails(w)
  <2>1. ProviderSound
    <3>1. CASE Create(w)
      BY <1>1, <3>1, CreateIsSound
    <3>2. CASE UNCHANGED outside
      BY <1>1, <3>2, SameTransfers DEF ProviderSound, PayInv, TypeOK, outside
    <3> QED
      BY <1>5, <3>1, <3>2 DEF CreateFails
  <2> DEFINE thread == [t EXCEPT !.pc = "failing"]
  <2>2. /\ thread \in Worker /\ thread.pc = "failing" /\ thread.got = t.got
        /\ thread.provider = t.provider /\ thread.ref = t.ref /\ thread.prior = t.prior
    BY <1>1 DEF Worker
  <2>3. workers' = [workers EXCEPT ![w] = thread] /\ workers'[w] = thread
    BY <1>1, <1>5 DEF CreateFails, Goes
  <2> HIDE DEF thread
  <2>4. Carried(w)'
    BY <1>1, <1>2, <1>3, <2>1, <2>2, <2>3 DEF Carried
  <2> QED
    BY <1>1, <2>1, <2>2, <2>3, <2>4, CallStep
<1> QED
  BY <1>4, <1>5

\* The calls that fund the transfer.
LEMMA FundingKeepsInv ==
  ASSUME ProviderAssumption, PayInv, NEW w \in Workers, FundAnswered(w) \/ FundFails(w)
  PROVE  PayInv'
<1> DEFINE t == workers[w]
<1>1. /\ t \in Worker /\ Carried(w) /\ workers \in [Workers -> Worker] /\ t.pc = "fund"
      /\ UNCHANGED <<row, destination, age, sends, setting>>
  BY DEF PayInv, TypeOK, FundAnswered, FundFails
<1>2. /\ t.provider = row.provider /\ row.provider # "manual"
      /\ t.prior = "paid" => PaidOut
      /\ t.ref <= Len(transfers) /\ t.got <= Len(transfers)
      /\ t.ref \in Refs /\ t.got \in Refs /\ t.ref \in Nat /\ t.got \in Nat /\ t.ref # NoRef
  BY <1>1 DEF Carried, Worker, Refs
<1>3. t.ref = 1 /\ Len(transfers) = 1 /\ transfers[1] \in Transfer
  BY <1>2, OneTransfer
<1>4. Fund(1) \/ UNCHANGED outside
  BY <1>3 DEF FundAnswered, FundFails
<1>5. ProviderSound
  <2>1. CASE UNCHANGED outside
    BY <1>1, <2>1, SameTransfers DEF ProviderSound, PayInv, TypeOK, outside
  <2>2. CASE Fund(1) /\ ~FundedBefore(1)
    <3> DEFINE new == [transfers[1] EXCEPT !.state = "funded"]
    <3>1. /\ new \in Transfer /\ new.state = "funded" /\ new.by = transfers[1].by
          /\ new.to = transfers[1].to /\ new.wasSent = transfers[1].wasSent
      BY <1>3 DEF Transfer, TransferState
    <3>2. transfers[1].state = "created" /\ transfers[1].state \notin Final
      BY <2>2 DEF FundedBefore, Final
    <3>3. transfers' = [transfers EXCEPT ![1] = new] /\ Notify(1, new.state) /\ changes' = changes + 1
      BY <2>2, <3>1 DEF Fund
    <3> HIDE DEF new
    <3> QED
      BY <1>1, <1>3, <3>1, <3>2, <3>3, ChangeIsSound
  <2> QED
    BY <1>4, <2>1, <2>2 DEF Fund
<1>6. /\ t.ref <= Len(transfers') /\ t.got <= Len(transfers')
      /\ t.prior = "paid" => PaidOut'
  <2>1. Len(transfers) \in Nat /\ Len(transfers') \in Nat
    BY <1>5 DEF PayInv, TypeOK, ProviderSound
  <2> QED
    BY <1>2, <1>5, <2>1 DEF ProviderSound, Grows
<1>7. PICK pc \in {"observe", "complete", "failing"} : Goes(w, pc)
  BY DEF FundAnswered, FundFails
<1> DEFINE thread == [t EXCEPT !.pc = pc]
<1>8. /\ thread \in Worker /\ thread.pc = pc /\ thread.got = t.got
      /\ thread.provider = t.provider /\ thread.ref = t.ref /\ thread.prior = t.prior
  BY <1>1 DEF Worker
<1>9. workers' = [workers EXCEPT ![w] = thread] /\ workers'[w] = thread
  BY <1>1, <1>7 DEF Goes
<1> HIDE DEF thread
<1>10. Carried(w)'
  BY <1>1, <1>2, <1>6, <1>8, <1>9 DEF Carried
<1> QED
  BY <1>1, <1>5, <1>8, <1>9, <1>10, CallStep

\* The provider's own moves.
LEMMA MoveKeepsInv ==
  ASSUME ProviderAssumption, PayInv, NEW i \in 1 .. Len(transfers), Move(i)
  PROVE  PayInv'
<1>1. UNCHANGED <<row, destination, age, workers, sends, setting>>
  BY DEF Move
<1>2. i \in Refs /\ i # NoRef /\ i <= Len(transfers)
  BY DEF Refs, NoRef, PayInv, TypeOK, ProviderAssumption
<1>3. i = 1 /\ Len(transfers) = 1 /\ transfers[1] \in Transfer
  BY <1>2, OneTransfer
<1>4. PICK state \in Steps(transfers[1]) :
        /\ transfers' = [transfers EXCEPT ![1].state = state,
                                         ![1].wasSent = @ \/ state = "sent"]
        /\ Notify(1, state)
  BY <1>3 DEF Move
<1>5. /\ state \in {"cancelled", "sent", "refunded", "bounced"}
      /\ transfers[1].state \notin Final
  BY <1>3 DEF Steps, Final, Transfer, TransferState
<1> DEFINE new == [transfers[1] EXCEPT !.state = state, !.wasSent = @ \/ state = "sent"]
<1>6. /\ new \in Transfer /\ new.state = state /\ new.by = transfers[1].by
      /\ new.to = transfers[1].to /\ new.wasSent = (transfers[1].wasSent \/ state = "sent")
  BY <1>3, <1>5 DEF Transfer, TransferState
<1>7. transfers' = [transfers EXCEPT ![1] = new]
  BY <1>3, <1>4
<1> HIDE DEF new
<1>8. ProviderSound
  BY <1>1, <1>3, <1>4, <1>5, <1>6, <1>7, ChangeIsSound DEF Move
<1>9. TypeOK'
  BY <1>1, <1>8 DEF PayInv, TypeOK, ProviderSound
<1>10. \A v \in Workers : Carried(v)'
  BY <1>1, <1>8, <1>9, OthersCarry DEF PayInv, ProviderSound
<1> QED
  BY <1>1, <1>8, <1>9, <1>10, RowAfterProvider DEF PayInv, ProviderSound

\* The adapter's word, about a transfer of its own.
LEMMA CallbackKeepsInv ==
  ASSUME ProviderAssumption, PayInv, NEW e \in events, Callback(e)
  PROVE  PayInv'
<1> DEFINE status == CASE e.state = "sent" -> "paid"
                       [] e.state = "refunded" -> "failed"
                       [] OTHER -> "processing"
<1>1. /\ UNCHANGED <<destination, age, workers, transfers, changes, sends, setting>>
      /\ events' \subseteq events /\ e \in Event
      /\ destination \in Recipients \cup {NoRecipient} /\ row \in Row
  BY DEF Callback, Delivered, PayInv, TypeOK
<1>2. e.ref \in Refs /\ e.ref # NoRef /\ e.ref <= Len(transfers) /\ (e.state = "sent" => PaidOut)
  BY <1>1 DEF PayInv, Noticed, Event, NoRef
<1>3. /\ status \in Status /\ status \notin {"draft", "reversed"}
      /\ status = "paid" => PaidOut
  BY <1>2 DEF Status
<1>4. row.provider = "webhook"
  <2>1. e.ref = 1 /\ transfers # <<>>
    BY <1>2, OneTransfer
  <2> QED
    BY <2>1 DEF Callback, PayInv, Made
<1>5. PICK ref \in {e.ref, NoRef} :
        \/ ~Refused("webhook", status, ref) /\ Record("webhook", status, ref)
        \/ Refused("webhook", status, ref) /\ UNCHANGED row
  BY DEF Callback
<1>6. ref \in Refs /\ ref <= Len(transfers)
  BY <1>2 DEF Refs, NoRef, PayInv, TypeOK, ProviderAssumption
<1> HIDE DEF status
<1>7. /\ row' \in Row /\ RowSound' /\ Frozen'
      /\ row'.provider = row.provider /\ row'.recipient = row.recipient
  <2>1. CASE Record("webhook", status, ref)
    BY <1>1, <1>3, <1>4, <1>6, <2>1, RecordKeeps
  <2>2. CASE UNCHANGED row
    BY <1>1, <2>2 DEF PayInv, RowSound, Frozen, PaidOut
  <2> QED
    BY <1>5, <2>1, <2>2
<1> QED
  BY <1>1, <1>7, RowStep

\* A claim: the first one freezes the recipient and binds the provider, a later
\* one finds both.
LEMMA ClaimKeepsInv ==
  ASSUME ProviderAssumption, PayInv, NEW w \in Workers, Claim(w)
  PROVE  PayInv'
<1>1. /\ row \in Row /\ workers \in [Workers -> Worker]
      /\ destination \in Recipients \cup {NoRecipient}
      /\ setting \in Providers /\ setting # "manual"
      /\ row.provider \in {"manual", setting}
      /\ UNCHANGED <<destination, transfers, changes, events, setting>>
  BY DEF PayInv, TypeOK, Claim, outside, ProviderAssumption
<1>2. row' = [row EXCEPT !.status = "processing", !.provider = setting,
                         !.recipient = Recipient, !.stale = FALSE]
  BY DEF Claim
<1>3. Recipient \in Recipients \cup {NoRecipient} /\ Recipient # NoRecipient
  BY <1>1 DEF Recipient, Row, Claim, HasDestination
<1>4. /\ row' \in Row /\ row'.status = "processing" /\ row'.provider = setting
      /\ row'.recipient = Recipient /\ row'.ref = row.ref /\ row'.paid = row.paid
  BY <1>1, <1>2, <1>3 DEF Row, Status
<1>5. row.provider # "manual" => row'.provider = row.provider /\ row'.recipient = row.recipient
  BY <1>1, <1>4 DEF PayInv, Frozen, Recipient
<1>6. row.provider = "manual" => transfers = <<>> /\ row.ref = NoRef /\ ~row.paid
  <2>1. ASSUME row.provider = "manual", transfers # <<>> PROVE FALSE
    <3>1. transfers \in Seq(Transfer) /\ Len(transfers) \in Nat /\ Len(transfers) <= 1
      BY DEF PayInv, TypeOK, Made
    <3>2. 1 \in 1 .. Len(transfers)
      BY <2>1, <3>1
    <3>3. transfers[1] \in Transfer
      BY <3>1, <3>2
    <3>4. transfers[1].by \in Providers
      BY <3>3 DEF Transfer
    <3> QED
      BY <2>1, <3>4 DEF PayInv, Made, ProviderAssumption
  <2> QED
    BY <2>1 DEF PayInv, RowSound, Claim
<1>7. RowSound'
  BY <1>1, <1>4, <1>6 DEF PayInv, RowSound, PaidOut
<1>8. Frozen'
  BY <1>1, <1>3, <1>4 DEF PayInv, Frozen, Recipient
<1>9. Made' /\ Grows /\ PaidOut' = PaidOut /\ \A e \in events' : Noticed(e)'
  BY <1>1, <1>4, <1>5, <1>6 DEF PayInv, TypeOK, Made, Own, Grows, PaidOut, Ended, Noticed
<1> DEFINE step == IF setting = "wise" /\ row.ref # NoRef THEN "fund" ELSE "create"
           thread == [Idle EXCEPT !.pc = step, !.for = "send", !.provider = setting,
                                  !.to = Payee, !.ref = row.ref, !.prior = "processing"]
<1>10. /\ step \in {"fund", "create"} /\ (step = "fund" => row.ref # NoRef)
       /\ Payee \in Recipients \cup {NoRecipient} /\ Payee # NoRecipient
       /\ setting \in Direct => Payee = Recipient
  BY <1>1, <1>3 DEF Payee, Direct, PayInv, Frozen, Recipient
<1>11. workers' = [workers EXCEPT ![w] = thread] /\ workers'[w] = thread
  BY <1>1 DEF Claim
<1> HIDE DEF step
<1>12. /\ thread \in Worker /\ thread.pc = step /\ thread.for = "send"
       /\ thread.provider = setting /\ thread.to = Payee /\ thread.ref = row.ref
       /\ thread.got = NoRef /\ thread.prior = "processing"
  BY <1>1, <1>10, IdleFacts DEF Idle, Worker, Row, Status
<1> HIDE DEF thread
<1>13. /\ age' \in {"unset", "fresh", "closing", "over"}
       /\ age = "fresh" => age' = age
       /\ setting = "paypal" => age' = "fresh"
       /\ sends' \in 0 .. MaxSends
  BY DEF Claim, RetryAllowed, PayInv, TypeOK, ProviderAssumption
<1>14. TypeOK'
  BY <1>1, <1>4, <1>11, <1>12, <1>13 DEF PayInv, TypeOK
<1>15. Carried(w)'
  <2>1. row.ref <= Len(transfers) /\ 0 <= Len(transfers)
    BY DEF PayInv, RowSound, TypeOK
  <2> QED
    BY <1>1, <1>4, <1>10, <1>11, <1>12, <1>13, <2>1 DEF Carried, NoRef
<1>16. ASSUME NEW v \in Workers \ {w} PROVE Carried(v)'
  <2>1. workers'[v] = workers[v] /\ Carried(v)
    BY <1>11 DEF PayInv
  <2>2. workers[v].pc # "idle" => row.provider # "manual"
    BY <2>1 DEF Carried
  <2>3. workers[v].pc = "create" /\ row.provider = "paypal" => age' = age
    BY <1>13, <2>1 DEF Carried
  <2> QED
    BY <1>5, <1>9, <1>14, <2>1, <2>2, <2>3, OthersCarry DEF PayInv
<1> QED
  BY <1>7, <1>8, <1>9, <1>14, <1>15, <1>16 DEF PayInv

-----------------------------------------------------------------------------
\* Every step keeps the invariant.
LEMMA NextInv == ASSUME ProviderAssumption, PayInv, [Next]_vars PROVE PayInv'
<1>1. CASE UNCHANGED vars
  BY <1>1 DEF vars, outside, PayInv, TypeOK, Frozen, Made, Own, RowSound, PaidOut, Noticed, Carried
<1>2. ASSUME NEW w \in Workers, Serve(w) PROVE PayInv'
  BY <1>2, ClaimKeepsInv, CreatingKeepsInv, RecordingKeepsInv, FundingKeepsInv,
     ObservingKeepsInv DEF Serve
<1>3. ASSUME NEW i \in 1 .. Len(transfers), Move(i) PROVE PayInv'
  BY <1>3, MoveKeepsInv
<1>4. ASSUME NEW e \in events, QueueWiseEvent(e) \/ IgnoreWiseEvent(e) \/ Callback(e)
      PROVE  PayInv'
  BY <1>4, RowKeepsInv, CallbackKeepsInv
<1>5. CASE RecoverStale \/ FallDue \/ TenMinutes \/ NinetyDays
  BY <1>5, RowKeepsInv
<1>6. CASE SetDestination \/ SetFinancialStatus \/ Configure \/ Crash \/ DaysPass
  BY <1>6, OwnerKeepsInv
<1> QED
  BY <1>1, <1>2, <1>3, <1>4, <1>5, <1>6 DEF Next

\* The inductive invariant holds in every reachable state.
LEMMA Invariance == Spec => []PayInv
<1>1. Init => PayInv
  BY InitInv, ProviderAssumption
<1>2. PayInv /\ [Next]_vars => PayInv'
  BY NextInv, ProviderAssumption
<1> QED
  BY <1>1, <1>2, PTL DEF Spec

\* Every value stays in its type, whatever threads, the provider, the owner and
\* the clock do.
THEOREM TypeCorrect == Spec => []TypeOK
<1>1. PayInv => TypeOK
  BY DEF PayInv
<1> QED
  BY <1>1, Invariance, PTL

\* Through any number of sends, lost answers, crashes, recovered claims and
\* reconfigurations, the provider never holds two payouts for one payroll.
THEOREM PaysOnce == Spec => []NoDoublePayout
<1>1. PayInv => NoDoublePayout
  BY DEF PayInv, Made, NoDoublePayout
<1> QED
  BY <1>1, Invariance, PTL

\* Every payout made by PayPal or Wise goes to the recipient frozen by the first
\* claim, however often the owner confirms another destination.
THEOREM PaysTheFrozenRecipient == Spec => []PaidToFrozenRecipient
<1>1. ASSUME PayInv PROVE PaidToFrozenRecipient
  <2>1. ASSUME row.provider \in Direct, NEW i \in 1 .. Len(transfers)
        PROVE  transfers[i].to = row.recipient
    <3>1. i \in Refs /\ i # NoRef /\ i <= Len(transfers)
      BY <1>1, ProviderAssumption DEF Refs, NoRef, PayInv, TypeOK, ProviderAssumption
    <3>2. i = 1 /\ transfers # <<>>
      BY <1>1, <3>1, OneTransfer, ProviderAssumption
    <3> QED
      BY <1>1, <2>1, <3>2 DEF PayInv, Made
  <2> QED
    BY <2>1 DEF PaidToFrozenRecipient
<1> QED
  BY <1>1, Invariance, PTL

\* The row never claims a payment that was not made, nor a reversal that did not
\* happen, though it is written from stale reads and late notifications.
THEOREM RowTellsThePast == Spec => []OutcomesHappened
<1>1. ASSUME PayInv PROVE OutcomesHappened
  <2>1. transfers # <<>> => 1 \in 1 .. Len(transfers)
    <3>1. transfers \in Seq(Transfer)
      BY <1>1 DEF PayInv, TypeOK
    <3> QED
      BY <3>1
  <2>2. row.paid /\ row.provider # "manual" => \E i \in 1 .. Len(transfers) : transfers[i].wasSent
    BY <1>1, <2>1 DEF PayInv, RowSound, PaidOut
  <2>3. ASSUME row.status = "reversed"
        PROVE  /\ row.ref # NoRef /\ transfers[row.ref].wasSent
               /\ transfers[row.ref].state \in {"refunded", "cancelled"}
    <3>1. row.ref \in Refs /\ row.ref <= Len(transfers) /\ row.ref # NoRef
      BY <1>1, <2>3 DEF PayInv, TypeOK, Row, RowSound
    <3>2. row.ref = 1
      BY <1>1, <3>1, OneTransfer, ProviderAssumption
    <3> QED
      BY <1>1, <2>3, <3>1, <3>2 DEF PayInv, RowSound, PaidOut, Final
  <2> QED
    BY <2>2, <2>3 DEF OutcomesHappened
<1> QED
  BY <1>1, Invariance, PTL

\* The facts of a settled payment, across one step.
Settled ==
  /\ row.status = "reversed" => row'.status = "reversed"
  /\ row.ref # NoRef => row'.ref = row.ref
  /\ row.provider # "manual" => row'.provider = row.provider

\* What record_payroll_delivery does not refuse keeps them.
LEMMA RecordSettles ==
  ASSUME row \in Row, NEW provider, NEW status, NEW ref,
         ~Refused(provider, status, ref), Record(provider, status, ref)
  PROVE  Settled
BY DEF Refused, Record, Settled, Row

\* A reversed payroll stays reversed, and the provider and its reference, once
\* recorded, never change, whichever thread comes late.
THEOREM SettledStays == Spec => SettledFactsStay
<1>1. ASSUME PayInv, [Next]_vars PROVE [Settled]_vars
  <2>1. row \in Row
    BY <1>1 DEF PayInv, TypeOK
  <2>2. CASE UNCHANGED row
    BY <2>2 DEF Settled
  <2>3. ASSUME NEW w \in Workers, Serve(w), row' # row PROVE Settled
    <3>1. CASE RecordSend(w)
      BY <2>1, <2>3, <3>1, RecordSettles DEF RecordSend
    <3>2. ASSUME NEW status, RecordOrNot(w, status) PROVE Settled
      BY <2>1, <2>3, <3>2, RecordSettles DEF RecordOrNot
    <3>3. CASE RecordFunded(w) \/ RecordFailed(w) \/ Apply(w)
      BY <3>2, <3>3 DEF RecordFunded, RecordFailed, Apply
    <3>4. CASE Claim(w)
      BY <2>1, <3>4 DEF Claim, Settled, Row
    <3>5. CASE Defer(w)
      BY <2>1, <3>5 DEF Defer, Settled, Row
    <3> QED
      BY <2>3, <3>1, <3>3, <3>4, <3>5 DEF Serve, CreateAnswered, CreateFails, FundAnswered,
         FundFails, Reconcile, ReconcileDue, ObserveAnswered, ObserveFails
  <2>4. ASSUME NEW e \in events, QueueWiseEvent(e) \/ Callback(e), row' # row PROVE Settled
    <3>1. CASE QueueWiseEvent(e)
      BY <2>1, <3>1 DEF QueueWiseEvent, Settled, Row
    <3>2. CASE Callback(e)
      BY <2>1, <2>4, <3>2, RecordSettles DEF Callback
    <3> QED
      BY <2>4, <3>1, <3>2
  <2>5. CASE RecoverStale \/ FallDue \/ TenMinutes \/ NinetyDays
    BY <2>1, <2>5 DEF RecoverStale, FallDue, TenMinutes, NinetyDays, Settled, Row
  <2>6. CASE SetFinancialStatus
    BY <1>1, <2>1, <2>6 DEF SetFinancialStatus, Settled, Row, PayInv, RowSound
  <2>7. row' # row =>
          \/ \E w \in Workers : Serve(w)
          \/ \E e \in events : QueueWiseEvent(e) \/ Callback(e)
          \/ RecoverStale \/ FallDue \/ TenMinutes \/ NinetyDays \/ SetFinancialStatus
    BY <1>1 DEF Next, vars, Move, IgnoreWiseEvent, SetDestination, Configure, Crash, DaysPass
  <2> QED
    BY <2>2, <2>3, <2>4, <2>5, <2>6, <2>7
<1> QED
  BY <1>1, Invariance, PTL DEF Spec, SettledFactsStay, Settled
=============================================================================
