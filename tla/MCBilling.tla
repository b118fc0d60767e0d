----------------------------- MODULE MCBilling -----------------------------
(***************************************************************************)
(* Small instances of PaidTime and TeamInvoices, by scenario.              *)
(***************************************************************************)
EXTENDS TeamInvoices, TLC

CONSTANTS e1, i1, Scenarios

VARIABLE scenario

\* Two pay periods that meet; an entry in the first day and one over midnight.
TwoPeriods == {<<0, 0>>, <<0, 1>>}
TwoDays == {<<0, 0>>, <<1, 1>>}
MorningAndNight == {<<0, 1>>, <<1, 3>>}
Morning == {<<0, 1>>}
Night == {<<1, 3>>}

Symmetry == Permutations(Threads) \cup Permutations(Tabs) 

\* A member whose timesheets need approval, in one time zone.
Approved == INSTANCE TeamInvoices WITH Zones <- {1}
\* The run of a member whose timesheets need no approval.
Free == INSTANCE TeamInvoices WITH NeedsApproval <- FALSE, Spans <- Night, Zones <- {1}
\* The owner changes the zone between the runs of two days.
Zoned == INSTANCE TeamInvoices WITH NeedsApproval <- FALSE, Spans <- Morning,
                                    Periods <- TwoDays
\* Two invoices whose seals are all put off, and one invoice.
Claims == INSTANCE TeamInvoices WITH Prices <- {2}, MaxVersions <- 4
One == INSTANCE TeamInvoices WITH Invoices <- {i1}

\* Two days are over: two pieces of tracked time and an approved entry.
TimeIsOver(periods) ==
  /\ now = End /\ sheets = [p \in periods |-> "none"]
  /\ working = NoSlot /\ payrolls = <<>> /\ threads = [w \in Threads |-> Idle]
  /\ tracked = {[span |-> <<1, 2>>, late |-> FALSE], [span |-> <<2, 4>>, late |-> FALSE]}
  /\ entries = [i \in EntryIds |-> [NoEntry EXCEPT !.span = <<0, 1>>, !.status = "approved"]]

MCInit ==
  /\ scenario \in Scenarios
  /\ InvoicesInit
  /\ CASE scenario \in {"claims", "document"} -> TimeIsOver(Periods) /\ zone = 1
       [] scenario = "zones" -> TimeIsOver(TwoDays) /\ zone \in Zones
       [] scenario = "approved" -> Approved!TimeInit
       [] scenario = "free" -> Free!TimeInit
MCNext ==
  /\ UNCHANGED scenario
  /\ \/ scenario = "approved" /\ Approved!TimeNext /\ UNCHANGED billVars
     \/ scenario = "free" /\ Free!TimeNext /\ UNCHANGED billVars
     \/ scenario = "zones" /\ Zoned!TimeNext /\ UNCHANGED billVars
     \/ /\ scenario = "claims" /\ Claims!InvoiceNext /\ UNCHANGED timeVars
        /\ \A w \in Tabs : tabs'[w].pc # "save"
     \/ scenario = "document" /\ One!InvoiceNext /\ UNCHANGED timeVars
MCSpec == MCInit /\ [][MCNext]_<<timeVars, billVars, scenario>>
=============================================================================
