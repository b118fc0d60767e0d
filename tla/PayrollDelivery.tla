--------------------------- MODULE PayrollDelivery ---------------------------
(***************************************************************************)
(* The delivery of one payroll payment: its row of payroll_payments, the   *)
(* operations that write the row, and PayrollDeliveryService, which pays   *)
(* through PayPal, through Wise or through an operator's webhook adapter.  *)
(*                                                                         *)
(* The service holds no lock while it talks to the provider.  The owner's  *)
(* Send and Reconcile buttons, the reconciliation job, the provider's      *)
(* notifications and a server crash interleave between any two of its      *)
(* database calls and network calls.  Network calls may fail before or     *)
(* after they took effect.                                                 *)
(*                                                                         *)
(* Payments only meet in a unique index on the provider's references, so   *)
(* one payment is enough.  Amounts, currencies and texts are left out.     *)
(***************************************************************************)
EXTENDS Integers, Sequences

CONSTANTS
  Providers,     \* the providers TRACKER_PAYMENT_PROVIDER may name
  Workers,       \* server threads
  Recipients,    \* payout destinations the owner may confirm
  NoRecipient,
  MaxSends,      \* bound on the times Send is pressed
  MaxTransfers,  \* bound on the transfers the provider may create
  MaxMoves,      \* bound on the provider's own changes of a transfer
  MayCrash,      \* whether the server may die
  MayReconfigure,\* whether the provider and its credentials may change
  MayStall       \* whether a send may outlast the ten minutes of a stale claim

ASSUME ProviderAssumption ==
  /\ Providers \subseteq {"paypal", "wise", "webhook"}
  /\ NoRecipient \notin Recipients
  /\ MaxSends \in Nat /\ MaxTransfers \in Nat /\ MaxMoves \in Nat
  /\ {MayCrash, MayStall, MayReconfigure} \subseteq BOOLEAN

NoRef == 0                 \* external_reference = ''
Refs == 0 .. MaxTransfers
MaxChanges == MaxMoves + 2 * MaxTransfers   \* each is created and funded once
Status == {"draft", "processing", "paid", "failed", "reversed"}
Direct == {"paypal", "wise"}

\* A row of payroll_payments.  paid is paid_at IS NOT NULL; due is
\* next_reconcile_at: NULL, ahead, or reached; until is reconcile_until: NULL,
\* ahead, or passed; stale is updated_at being more than ten minutes ago.
Row == [status : Status, provider : {"manual"} \cup Providers, ref : Refs,
        recipient : Recipients \cup {NoRecipient}, paid : BOOLEAN,
        due : {"never", "later", "now"}, until : {"none", "open", "closed"},
        eventAt : 0 .. MaxChanges, stale : BOOLEAN]

\* A transfer or payout at the provider: accepted but not yet funded, under
\* way, paid out, bounced back, or ended without the money.
TransferState == {"created", "funded", "sent", "bounced", "refunded", "cancelled"}
Transfer == [by : Providers, state : TransferState, to : Recipients,
             wasSent : BOOLEAN]

\* A thread: what it does (for), where it stands, and the copy of the row and
\* of the provider's answer it works on.
Worker == [pc : {"idle", "create", "record", "fund", "complete", "observe",
                 "apply", "failing", "defer"},
           for : {"send", "button", "job"}, provider : {"none"} \cup Providers,
           to : Recipients \cup {NoRecipient}, ref : Refs, got : Refs,
           prior : Status, status : Status]
Event == [state : TransferState, ref : Refs, at : 1 .. MaxChanges]

VARIABLES
  row,          \* the payment
  destination,  \* the member's payroll_destinations.recipient, or e-mail
                \* address when an adapter pays
  age,          \* days since delivery_started_at, as the retry rule sees them
  workers,
  transfers,    \* what the provider holds for this payment
  changes,      \* changes of a transfer's state so far
  events,       \* notifications on their way
  sends,
  setting       \* the provider configured with its credentials, or "none"

outside == <<transfers, changes, events>>
vars == <<row, destination, age, workers, outside, sends, setting>>

TypeOK ==
  /\ row \in Row
  /\ destination \in Recipients \cup {NoRecipient}
  /\ age \in {"unset", "fresh", "closing", "over"}
  /\ workers \in [Workers -> Worker]
  /\ transfers \in Seq(Transfer) /\ Len(transfers) <= MaxTransfers
  /\ changes \in 0 .. MaxChanges
  /\ events \subseteq Event
  /\ sends \in 0 .. MaxSends
  /\ setting \in {"none"} \cup Providers

Idle == [pc |-> "idle", for |-> "button", provider |-> "none",
         to |-> NoRecipient, ref |-> NoRef, got |-> NoRef,
         prior |-> "draft", status |-> "draft"]

\* A payroll run that was just generated.
Init ==
  /\ row = [status |-> "draft", provider |-> "manual", ref |-> NoRef,
            recipient |-> NoRecipient, paid |-> FALSE, due |-> "never",
            until |-> "none", eventAt |-> 0, stale |-> FALSE]
  /\ destination = NoRecipient
  /\ age = "unset"
  /\ workers = [w \in Workers |-> Idle]
  /\ transfers = <<>> /\ changes = 0 /\ events = {}
  /\ sends = 0
  /\ setting \in Providers \cup (IF MayReconfigure THEN {"none"} ELSE {})

Sending(w) == workers[w].pc # "idle" /\ workers[w].for = "send"
Ends(w) == workers' = [workers EXCEPT ![w] = Idle]
Goes(w, pc) == workers' = [workers EXCEPT ![w].pc = pc]

-----------------------------------------------------------------------------
(***************************************************************************)
(* record_payroll_delivery: the row's guarded update.                      *)
(***************************************************************************)

RefusedUnlessReversed(provider, status, ref) ==
  \/ row.provider \notin {"manual", provider}
  \/ row.ref # NoRef /\ ref # NoRef /\ row.ref # ref

Refused(provider, status, ref) ==
  \/ row.status = "paid" /\ status = "failed"
  \/ row.status = "reversed" /\ status # "reversed"
  \/ row.provider \notin {"manual", provider}
  \/ row.ref # NoRef /\ ref # NoRef /\ row.ref # ref

\* next_reconcile_at goes by the reference passed in, not by the row's.
FollowUp(status, ref) ==
  IF status = "paid" \/ (status = "processing" /\ ref # NoRef)
  THEN "later" ELSE "never"

\* The ninety days count from the first payment; a row that left paid and came
\* back gets what is left of them, so the bound may be ahead or passed.
Window(status) ==
  IF status # "paid" THEN {"none"}
  ELSE IF ~row.paid THEN {"open"}
  ELSE IF row.until # "none" THEN {row.until}
  ELSE {"open", "closed"}

Record(provider, status, ref) ==
  \E window \in Window(status) :
    row' = [row EXCEPT
              !.status = status, !.provider = provider,
              !.ref = IF ref # NoRef THEN ref ELSE @,
              !.paid = @ \/ status = "paid",
              !.due = FollowUp(status, ref), !.until = window,
              !.stale = FALSE]

-----------------------------------------------------------------------------
(***************************************************************************)
(* The provider, as the service's calls use it.                            *)
(***************************************************************************)

\* PayPal forgets a sender_batch_id after thirty days; a Wise transfer is found
\* again by its customerTransactionId at any time.
Remembered == transfers # <<>> /\ ~(row.provider = "paypal" /\ age = "over")

\* A notification of transfer i's new state is on its way.  PayPal sends none.
Notify(i, state) ==
  events' = IF transfers'[i].by = "paypal" THEN events
            ELSE events \cup {[state |-> state, ref |-> i, at |-> changes + 1]}

\* The provider handles a request to pay: it finds the transfer it made for
\* this payment before, or makes one.
Created(w) ==
  IF Remembered THEN transfers
  ELSE Append(transfers, [by |-> workers[w].provider,
                          state |-> IF workers[w].provider = "wise"
                                    THEN "created" ELSE "funded",
                          to |-> workers[w].to, wasSent |-> FALSE])

Create(w) ==
  /\ Len(Created(w)) <= MaxTransfers
  /\ transfers' = Created(w)
  /\ IF Remembered THEN UNCHANGED <<changes, events>>
     ELSE /\ Notify(Len(transfers'), transfers'[Len(transfers')].state)
          /\ changes' = changes + 1

\* How the service reads a state; the row's status it goes by was read before.
StatusOf(state, prior) ==
  CASE state = "sent" -> "paid"
    [] state \in {"refunded", "cancelled"} ->
         IF prior = "paid" THEN "reversed" ELSE "failed"
    [] OTHER -> "processing"

Steps(transfer) ==
  CASE transfer.state = "created" -> {"cancelled"}
    [] transfer.state \in {"funded", "bounced"} -> {"sent", "refunded"}
    [] transfer.state = "sent" ->
         {"refunded"} \cup IF transfer.by = "wise" THEN {"bounced"} ELSE {}
    [] OTHER -> {}

\* The provider moves a transfer on by itself.
Move(i) ==
  /\ changes < MaxMoves
  /\ \E state \in Steps(transfers[i]) :
       /\ transfers' = [transfers EXCEPT ![i].state = state,
                                         ![i].wasSent = @ \/ state = "sent"]
       /\ Notify(i, state)
  /\ changes' = changes + 1
  /\ UNCHANGED <<row, destination, age, workers, sends, setting>>

-----------------------------------------------------------------------------
(***************************************************************************)
(* send, in the thread of the owner's request.                             *)
(***************************************************************************)

RecipientEachTime == destination
Recipient == IF row.recipient # NoRecipient THEN row.recipient ELSE destination

\* PayPal and Wise pay the frozen recipient; an adapter is given the member's
\* e-mail address as it is now.
Payee == IF setting = "webhook" THEN destination ELSE Recipient

HasDestination == Recipient # NoRecipient

RetryAnytime == TRUE
RetryAllowed == setting = "paypal" => age \in {"unset", "fresh"}

\* claim_payroll_delivery; next_reconcile_at is left as it was.
Claim(w) ==
  /\ setting # "none" /\ workers[w].pc = "idle" /\ sends < MaxSends
  /\ row.status \in {"draft", "failed"}
  /\ row.provider \in {"manual", setting}
  /\ RetryAllowed
  /\ HasDestination
  /\ row' = [row EXCEPT !.status = "processing", !.provider = setting,
                        !.recipient = Recipient, !.stale = FALSE]
  /\ age' = IF age = "unset" THEN "fresh" ELSE age
  /\ workers' = [workers EXCEPT ![w] =
       [Idle EXCEPT !.pc = IF setting = "wise" /\ row.ref # NoRef
                           THEN "fund" ELSE "create",
                    !.for = "send", !.provider = setting, !.to = Payee,
                    !.ref = row.ref, !.prior = "processing"]]
  /\ sends' = sends + 1
  /\ UNCHANGED <<destination, outside, setting>>

\* What a successful answer makes the service record: the payout's status, or
\* "processing" for the answer that it is a duplicate; the adapter's own word.
FirstStatus(provider, state) ==
  CASE provider = "wise" -> {"processing"}
    [] provider = "paypal" -> {"processing", StatusOf(state, "processing")}
    [] provider = "webhook" -> {"processing"} \cup
                               (IF state = "sent" THEN {"paid"} ELSE {})

\* The adapter's answer may come without a reference.
CreateAnswered(w) ==
  LET provider == workers[w].provider
      last == Len(transfers')
  IN /\ workers[w].pc = "create"
     /\ Create(w)
     /\ \E status \in FirstStatus(provider, transfers'[last].state),
           got \in {last} \cup IF provider = "webhook" THEN {NoRef} ELSE {} :
          workers' = [workers EXCEPT ![w] =
            [@ EXCEPT !.pc = "record", !.got = got, !.status = status]]
     /\ UNCHANGED <<row, destination, age, sends, setting>>

\* The request or its answer is lost, or the provider refuses.
CreateFails(w) ==
  /\ workers[w].pc = "create"
  /\ Create(w) \/ UNCHANGED outside
  /\ Goes(w, "failing")
  /\ UNCHANGED <<row, destination, age, sends, setting>>

\* The reference is recorded; a Wise transfer is funded next.  A refusal is a
\* ValueError that nothing here catches: the request ends.
RecordSend(w) ==
  LET status == workers[w].status
      got == workers[w].got
      provider == workers[w].provider
  IN /\ workers[w].pc = "record"
     /\ \/ /\ ~Refused(provider, status, got) /\ Record(provider, status, got)
           /\ IF provider = "wise"
              THEN workers' = [workers EXCEPT ![w] =
                     [@ EXCEPT !.pc = "fund", !.ref = got]]
              ELSE Ends(w)
        \/ Refused(provider, status, got) /\ Ends(w) /\ UNCHANGED row
     /\ UNCHANGED <<destination, age, outside, sends, setting>>

FundedBefore(ref) == transfers[ref].state # "created"

\* The provider funds a transfer, once.
Fund(ref) ==
  IF FundedBefore(ref) THEN UNCHANGED outside
  ELSE /\ transfers' = [transfers EXCEPT ![ref].state = "funded"]
       /\ Notify(ref, "funded")
       /\ changes' = changes + 1

\* Funded by this call, or a conflict: it was funded or cancelled before.
FundAnswered(w) ==
  /\ workers[w].pc = "fund"
  /\ Fund(workers[w].ref)
  /\ Goes(w, IF FundedBefore(workers[w].ref) THEN "observe" ELSE "complete")
  /\ UNCHANGED <<row, destination, age, sends, setting>>

FundFails(w) ==
  /\ workers[w].pc = "fund"
  /\ Fund(workers[w].ref) \/ UNCHANGED outside
  /\ Goes(w, "failing")
  /\ UNCHANGED <<row, destination, age, sends, setting>>

\* Records what the thread knows; a refusal (ValueError) changes nothing.
RecordOrNot(w, status) ==
  LET provider == workers[w].provider
      ref == workers[w].ref
  IN \/ ~Refused(provider, status, ref) /\ Record(provider, status, ref)
     \/ Refused(provider, status, ref) /\ UNCHANGED row

CompleteAsPaid(w) ==
  /\ workers[w].pc = "complete"
  /\ RecordOrNot(w, "paid")
  /\ Ends(w)
  /\ UNCHANGED <<destination, age, outside, sends, setting>>

RecordFunded(w) ==
  /\ workers[w].pc = "complete"
  /\ RecordOrNot(w, "processing")
  /\ Ends(w)
  /\ UNCHANGED <<destination, age, outside, sends, setting>>

\* send's handler of a PaymentDeliveryError.
RecordFailed(w) ==
  /\ workers[w].pc = "failing"
  /\ RecordOrNot(w, "failed")
  /\ Ends(w)
  /\ UNCHANGED <<destination, age, outside, sends, setting>>

-----------------------------------------------------------------------------
(***************************************************************************)
(* Reconciliation, by the owner's button, by the job, and by a send that   *)
(* met a conflict.                                                         *)
(***************************************************************************)

Reads(w, for) ==
  workers' = [workers EXCEPT ![w] =
    [Idle EXCEPT !.pc = "observe", !.for = for, !.provider = row.provider,
                 !.ref = row.ref, !.prior = row.status]]

\* The button works without configuration and whatever the status.
Reconcile(w) ==
  /\ workers[w].pc = "idle"
  /\ row.provider \in Direct /\ row.ref # NoRef
  /\ Reads(w, "button")
  /\ UNCHANGED <<row, destination, age, outside, sends, setting>>

DueOncePaid == /\ row.provider \in Direct /\ row.ref # NoRef /\ row.due = "now"
               /\ row.status = "paid" /\ row.until = "open"

Due == /\ row.provider \in Direct /\ row.ref # NoRef /\ row.due = "now"
       /\ \/ row.status \in {"processing", "failed"}
          \/ row.status = "paid" /\ row.until = "open"

\* The job is a singleton by its lease.
ReconcileDue(w) ==
  /\ row.provider = setting /\ workers[w].pc = "idle" /\ Due
  /\ \A v \in Workers : workers[v].for # "job"
  /\ Reads(w, "job")
  /\ UNCHANGED <<row, destination, age, outside, sends, setting>>

ObserveAnswered(w) ==
  /\ workers[w].pc = "observe"
  /\ workers' = [workers EXCEPT ![w] =
       [@ EXCEPT !.pc = "apply",
                 !.status = StatusOf(transfers[workers[w].ref].state,
                                     workers[w].prior)]]
  /\ UNCHANGED <<row, destination, age, outside, sends, setting>>

\* What a PaymentDeliveryError leads to.
Raises(w) ==
  CASE workers[w].for = "send" -> Goes(w, "failing")
    [] workers[w].for = "job" -> Goes(w, "defer")
    [] OTHER -> Ends(w)

ObserveFails(w) ==
  /\ workers[w].pc = "observe"
  /\ Raises(w)
  /\ UNCHANGED <<row, destination, age, outside, sends, setting>>

Apply(w) ==
  /\ workers[w].pc = "apply"
  /\ RecordOrNot(w, workers[w].status)
  /\ IF Refused(workers[w].provider, workers[w].status, workers[w].ref)
     THEN Raises(w) ELSE Ends(w)
  /\ UNCHANGED <<destination, age, outside, sends, setting>>

\* defer_payroll_reconciliation: a later try.
Defer(w) ==
  /\ workers[w].pc = "defer"
  /\ row' = IF row.status \in {"processing", "paid"}
            THEN [row EXCEPT !.due = "later", !.stale = FALSE] ELSE row
  /\ Ends(w)
  /\ UNCHANGED <<destination, age, outside, sends, setting>>

\* recover_stale_payroll_claims, at the start of the job.
RecoverStale ==
  /\ row.provider = setting /\ row.status = "processing"
  /\ row.ref = NoRef /\ row.stale
  /\ row' = [row EXCEPT !.status = "failed", !.stale = FALSE]
  /\ UNCHANGED <<destination, age, workers, outside, sends, setting>>

-----------------------------------------------------------------------------
(***************************************************************************)
(* The provider's notifications.                                           *)
(***************************************************************************)

\* A notification is consumed when it is answered, or comes again: its delivery
\* was interrupted and the provider repeats it.
Delivered(e) == events' \in {events, events \ {e}}

\* queue_wise_payroll_event: a newer event makes a reconciliation due.
QueueWiseEvent(e) ==
  /\ e \in events /\ transfers[e.ref].by = "wise"
  /\ row.provider = "wise" /\ row.ref = e.ref /\ e.at > row.eventAt
  /\ row' = [row EXCEPT
               !.eventAt = e.at, !.stale = FALSE,
               !.due = IF row.status \in {"processing", "paid", "failed"}
                       THEN "now" ELSE @,
               !.until = IF row.status = "paid" THEN "open" ELSE @]
  /\ Delivered(e)
  /\ UNCHANGED <<destination, age, workers, transfers, changes, sends, setting>>

\* An event of an unknown transfer, or not newer than the last, is ignored.
IgnoreWiseEvent(e) ==
  /\ e \in events /\ transfers[e.ref].by = "wise"
  /\ row.provider # "wise" \/ row.ref # e.ref \/ e.at <= row.eventAt
  /\ events' = events \ {e}
  /\ UNCHANGED <<row, destination, age, workers, transfers, changes, sends, setting>>

\* handle_callback: the adapter's word, with or without its reference.
Callback(e) ==
  LET status == CASE e.state = "sent" -> "paid"
                  [] e.state = "refunded" -> "failed"
                  [] OTHER -> "processing"
  IN /\ setting = "webhook" /\ e \in events /\ transfers[e.ref].by = "webhook"
     /\ \E ref \in {e.ref, NoRef} :
          \/ ~Refused("webhook", status, ref) /\ Record("webhook", status, ref)
          \/ Refused("webhook", status, ref) /\ UNCHANGED row
     /\ Delivered(e)
     /\ UNCHANGED <<destination, age, workers, transfers, changes, sends, setting>>

-----------------------------------------------------------------------------
(***************************************************************************)
(* The owner, the clock, and crashes.                                      *)
(***************************************************************************)

\* set_payroll_destination, or a change of the member's e-mail address.
SetDestination ==
  /\ \E r \in Recipients : r # destination /\ destination' = r
  /\ UNCHANGED <<row, age, workers, outside, sends, setting>>

\* Manual settlement, while no provider is configured.
SetFinancialStatus ==
  /\ setting = "none" /\ row.provider = "manual"
  /\ \E status \in Status \ {"reversed"} :
       /\ row.status = "paid" => status = "paid"
       /\ row' = [row EXCEPT !.status = status, !.stale = FALSE,
                             !.paid = @ \/ status = "paid"]
  /\ UNCHANGED <<destination, age, workers, outside, sends, setting>>

\* The server is restarted with other settings.
Configure ==
  /\ MayReconfigure
  /\ \A w \in Workers : workers[w].pc = "idle"
  /\ setting' \in ({"none"} \cup Providers) \ {setting}
  /\ UNCHANGED <<row, destination, age, workers, outside, sends>>

Crash ==
  /\ MayCrash
  /\ \E w \in Workers : workers[w].pc # "idle"
  /\ workers' = [w \in Workers |-> Idle]
  /\ UNCHANGED <<row, destination, age, outside, sends, setting>>

\* A reconciliation comes due.
FallDue ==
  /\ row.due = "later"
  /\ row' = [row EXCEPT !.due = "now"]
  /\ UNCHANGED <<destination, age, workers, outside, sends, setting>>

\* Only the recovery of a claim without a reference looks at this.
TenMinutes ==
  /\ ~row.stale /\ row.status = "processing" /\ row.ref = NoRef
  /\ MayStall \/ \A w \in Workers : ~Sending(w)
  /\ row' = [row EXCEPT !.stale = TRUE]
  /\ UNCHANGED <<destination, age, workers, outside, sends, setting>>

NinetyDays ==
  /\ row.until = "open"
  /\ row' = [row EXCEPT !.until = "closed"]
  /\ UNCHANGED <<destination, age, workers, outside, sends, setting>>

\* Days pass since the first claim: "closing" from the 29th, "over" from the
\* 30th, when PayPal may forget.  No send takes a day.
DaysPass ==
  /\ row.provider = "paypal"
  /\ \A w \in Workers : ~Sending(w)
  /\ \/ age = "fresh" /\ age' = "closing"
     \/ age = "closing" /\ age' = "over"
  /\ UNCHANGED <<row, destination, workers, outside, sends, setting>>

-----------------------------------------------------------------------------
Serve(w) ==
  \/ Claim(w) \/ CreateAnswered(w) \/ CreateFails(w) \/ RecordSend(w)
  \/ FundAnswered(w) \/ FundFails(w) \/ RecordFunded(w) \/ RecordFailed(w)
  \/ Reconcile(w) \/ ReconcileDue(w)
  \/ ObserveAnswered(w) \/ ObserveFails(w) \/ Apply(w) \/ Defer(w)

Next ==
  \/ \E w \in Workers : Serve(w)
  \/ RecoverStale
  \/ \E i \in 1 .. Len(transfers) : Move(i)
  \/ \E e \in events : QueueWiseEvent(e) \/ IgnoreWiseEvent(e) \/ Callback(e)
  \/ SetDestination \/ SetFinancialStatus \/ Configure \/ Crash
  \/ FallDue \/ TenMinutes \/ NinetyDays \/ DaysPass

Spec == Init /\ [][Next]_vars

\* A thread's next step once it has begun, whatever the network answers.
Continues(w) ==
  \/ CreateAnswered(w) \/ CreateFails(w) \/ RecordSend(w)
  \/ FundAnswered(w) \/ FundFails(w) \/ RecordFunded(w) \/ RecordFailed(w)
  \/ ObserveAnswered(w) \/ ObserveFails(w) \/ Apply(w) \/ Defer(w)

\* Time passes, threads run to their end (every call has a timeout), the job
\* gets its turn, and a provider that is asked again and again answers.
FairSpec ==
  /\ Spec
  /\ WF_vars(FallDue) /\ WF_vars(TenMinutes) /\ WF_vars(RecoverStale)
  /\ \A w \in Workers : /\ WF_vars(Continues(w))
                        /\ SF_vars(ReconcileDue(w))
                        /\ SF_vars(ObserveAnswered(w))

-----------------------------------------------------------------------------
(***************************************************************************)
(* Properties.                                                             *)
(***************************************************************************)

\* The provider never holds two payouts for one payroll: retries after lost
\* answers, crashes and recovered claims find the first one by the payment's id,
\* and claim_payroll_delivery stops them before PayPal forgets it.
NoDoublePayout == Len(transfers) <= 1

\* Every PayPal or Wise payout goes to the recipient the first claim froze, though the owner
\* confirms another destination between a failed try and the next.
PaidToFrozenRecipient ==
  row.provider \in Direct =>
    \A i \in 1 .. Len(transfers) : transfers[i].to = row.recipient

\* What the row says happened did: "paid" was paid out, and "reversed" was paid
\* out and then taken back, through stale reads and late notifications.
OutcomesHappened ==
  /\ row.paid /\ row.provider # "manual" =>
       \E i \in 1 .. Len(transfers) : transfers[i].wasSent
  /\ row.status = "reversed" =>
       /\ row.ref # NoRef /\ transfers[row.ref].wasSent
       /\ transfers[row.ref].state \in {"refunded", "cancelled"}

\* No thread that comes late moves a reversed payroll, replaces the provider's
\* reference, or hands the payment to another provider
\* (docs/production-readiness.md:80).
SettledFactsStay ==
  [][/\ row.status = "reversed" => row'.status = "reversed"
     /\ row.ref # NoRef => row'.ref = row.ref
     /\ row.provider # "manual" => row'.provider = row.provider]_vars

\* A payment in processing is always looked after: a send is under way, or the
\* stale-claim recovery will take it, or its reconciliation is scheduled, or the
\* adapter has it and will call back.
ProcessingIsFollowed ==
  row.status = "processing" /\ row.provider # "manual" =>
    \/ \E w \in Workers : Sending(w)
    \/ row.ref = NoRef
    \/ row.due # "never"
    \/ row.provider = "webhook"

Underway == row.ref # NoRef
            /\ transfers[row.ref].state \in {"created", "funded", "bounced"}

\* While the provider is configured, no payment stays in processing once its
\* transfer has ended or its dispatch was interrupted.
ProcessingIsResolved ==
  <>[](row.provider = setting) =>
    (row.status = "processing" /\ row.provider # "manual"
       ~> row.status # "processing" \/ Underway)
=============================================================================
