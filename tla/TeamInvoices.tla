---------------------------- MODULE TeamInvoices ----------------------------
(***************************************************************************)
(* The invoices a member writes to the organisation: by hand or from the   *)
(* time of PaidTime, edited and submitted by the member, paid and voided   *)
(* by a manager, and the encrypted document kept of each.                  *)
(*                                                                         *)
(* An invoice from time takes three transactions: the uninvoiced time is   *)
(* read, a draft with a placeholder line is created, the line is replaced. *)
(* Every request that changes an invoice seals its document afterwards:    *)
(* read the row, write the object, record it in the row.  Other requests   *)
(* run in between.  A rate of one is paid for each half day.               *)
(***************************************************************************)
EXTENDS PaidTime, Functions

CONSTANTS
  Invoices,     \* rows of team_invoices
  Tabs,         \* requests about invoices
  Prices,       \* what a line written by hand may cost
  MaxVersions,  \* bound on the changes of an invoice
  Versioned     \* whether the storage keeps versions: S3 may, a directory does not

ASSUME InvoiceAssumption ==
  Prices \subseteq Nat /\ MaxVersions \in Nat /\ Versioned \in BOOLEAN

VARIABLES
  invoices,     \* team_invoices with their lines and claimed time sources
  objects,      \* the tab that wrote each invoice's stored object last, or NoTab
  tabs          \* what each request is about to do

billVars == <<invoices, objects, tabs>>

NoTab == "none"
Source == [type : {"segment"}, of : Segment] \cup [type : {"manual"}, of : EntryIds]
Statuses == {"draft", "submitted", "partially_paid", "paid", "void"}

\* billed: the claimed time sources.  fresh: document_sealed_at is not before
\* updated_at.  version counts the changes of what the document shows; shown is
\* the version that was sealed, and sealer the tab whose object the row records.
\* Kept for the properties: raced, whether a seal shared its time with another seal
\* or with a change, or was cut off over a document that was in order.
Draft(number, total) ==
  [status |-> "draft", number |-> number, source |-> "manual", total |-> total,
   paid |-> 0, billed |-> {}, version |-> 1, fresh |-> FALSE, shown |-> 0,
   sealer |-> NoTab, raced |-> FALSE]
NoInvoice == [Draft(0, 0) EXCEPT !.status = "none", !.version = 0]

NoRequest == [pc |-> "idle", invoice |-> NoTab, sources |-> {}, version |-> 0]

InvoicesInit ==
  /\ invoices = [i \in Invoices |-> NoInvoice]
  /\ objects = [i \in Invoices |-> NoTab]
  /\ tabs = [w \in Tabs |-> NoRequest]

Exists(i) == invoices[i].status # "none"
Rows == {i \in Invoices : Exists(i)}
Does(w, pc, i) == tabs' = [tabs EXCEPT ![w].pc = pc, ![w].invoice = i]
Done(w) == tabs' = [tabs EXCEPT ![w] = NoRequest]
Sealing(i) == \E w \in Tabs : tabs[w].invoice = i /\ tabs[w].pc \in {"save", "record"}

------------------------------------------------------------------------------
(***************************************************************************)
(* Numbers and drafts.                                                     *)
(***************************************************************************)

\* COUNT(*) + 1, under a lock for the member and the year; numbers are unique.
NextNumber == Cardinality(Rows) + 1
NumberTaken == \E i \in Rows : invoices[i].number = NextNumber

create_team_invoice(i, total) ==
  /\ ~Exists(i) /\ ~NumberTaken
  /\ \A w \in Tabs : tabs[w].invoice # i   \* a row has an identity of its own
  /\ invoices' = [invoices EXCEPT ![i] = Draft(NextNumber, total)]

AddManual(w, i) ==
  /\ tabs[w].pc = "idle"
  /\ \E price \in Prices : create_team_invoice(i, price)
  /\ Does(w, "seal", i)
  /\ UNCHANGED objects

Length(source) ==
  LET span == IF source.type = "segment" THEN source.of.span ELSE entries[source.of].span
  IN span[2] - span[1]
Charge(sources) == SumFunction([s \in sources |-> Length(s)])

Claimed == UNION {invoices[i].billed : i \in Rows}
Uninvoiced(p) ==
  {s \in {[type |-> "segment", of |-> seg] : seg \in {x \in tracked : Starts(x.span, p)}}
         \cup {[type |-> "manual", of |-> e] :
                 e \in {x \in Counted : Starts(entries[x].span, p)}} : s \notin Claimed}

\* create_team_invoice_from_time: the first transaction ...
TimeReads(w, p) ==
  /\ tabs[w].pc = "idle" /\ Uninvoiced(p) # {}
  /\ tabs' = [tabs EXCEPT ![w].pc = "create", ![w].sources = Uninvoiced(p)]
  /\ UNCHANGED <<invoices, objects>>

\* ... the second, or a refusal because the number is taken ...
TimeCreates(w, i) ==
  /\ tabs[w].pc = "create"
  /\ \/ create_team_invoice(i, 0) /\ Does(w, "fill", i)
     \/ NumberTaken /\ Done(w) /\ UNCHANGED invoices
  /\ UNCHANGED objects

SourcesStillFree(w) == FALSE
SourcesTaken(w) == tabs[w].sources \cap Claimed # {}

\* ... and the third: each source is claimed under a unique key.  The placeholder
\* may be gone by now, and a source may be another invoice's.
TimeFills(w) ==
  LET i == tabs[w].invoice IN
  /\ tabs[w].pc = "fill"
  /\ \/ /\ Exists(i) /\ ~SourcesTaken(w)
        /\ invoices' = [invoices EXCEPT
             ![i].source = "tracked", ![i].billed = tabs[w].sources,
             ![i].total = Charge(tabs[w].sources),
             ![i].version = @ + 1,
             ![i].raced = @ \/ invoices[i].shown # 0 \/ Sealing(i)]
        /\ Does(w, "seal", i)
     \/ /\ Exists(i) /\ SourcesTaken(w)
        /\ Does(w, "undo", i) /\ UNCHANGED invoices
     \/ /\ ~Exists(i)
        /\ Done(w) /\ UNCHANGED invoices
  /\ UNCHANGED objects

\* The draft is deleted, whatever has become of it.
TimeUndoes(w) ==
  /\ tabs[w].pc = "undo"
  /\ invoices' = [invoices EXCEPT ![tabs[w].invoice] = NoInvoice]
  /\ Done(w)
  /\ UNCHANGED objects

------------------------------------------------------------------------------
(***************************************************************************)
(* What becomes of an invoice.  Each change is one transaction and is      *)
(* followed by a seal.                                                     *)
(***************************************************************************)

ChangedQuietly(i, row) == [row EXCEPT !.version = @ + 1, !.raced = Sealing(i)]
Changed(i, row) ==
  [row EXCEPT !.version = @ + 1, !.fresh = FALSE, !.raced = Sealing(i)]

Changes(w, i, row) ==
  /\ tabs[w].pc = "idle" /\ invoices[i].version < MaxVersions
  /\ invoices' = [invoices EXCEPT ![i] = Changed(i, row)]
  /\ Does(w, "seal", i)
  /\ UNCHANGED objects

\* Only a line written by hand can be edited.
update_team_invoice_draft(w, i) ==
  /\ invoices[i].status = "draft"
  /\ \/ /\ invoices[i].source = "manual"
        /\ \E price \in Prices : Changes(w, i, [invoices[i] EXCEPT !.total = price])
     \/ invoices[i].source = "tracked" /\ Changes(w, i, invoices[i])

submit_team_invoice(w, i) ==
  /\ invoices[i].status \in {"draft", "submitted"}
  /\ Changes(w, i, [invoices[i] EXCEPT !.status = "submitted"])

record_team_invoice_payment(w, i) ==
  /\ invoices[i].status \in {"submitted", "partially_paid"}
  /\ \E amount \in 1 .. invoices[i].total - invoices[i].paid :
       LET paid == invoices[i].paid + amount IN
       Changes(w, i, [invoices[i] EXCEPT
         !.paid = paid,
         !.status = IF paid = invoices[i].total THEN "paid" ELSE "partially_paid"])

\* A void invoice keeps the time it claimed.
void_team_invoice(w, i) ==
  /\ invoices[i].status = "submitted" /\ invoices[i].paid = 0
  /\ Changes(w, i, [invoices[i] EXCEPT !.status = "void"])

\* The row, its lines and claims go, and then the object.
delete_team_invoice_draft(w, i) ==
  /\ tabs[w].pc = "idle" /\ invoices[i].status = "draft"
  /\ invoices' = [invoices EXCEPT ![i] = NoInvoice]
  /\ objects' = [objects EXCEPT ![i] = NoTab]
  /\ UNCHANGED tabs

------------------------------------------------------------------------------
(***************************************************************************)
(* The document.                                                           *)
(***************************************************************************)

\* A reader is shown the sealed document; one that is older than the row is
\* sealed first.
OpenDocument(w, i) ==
  /\ tabs[w].pc = "idle" /\ Exists(i) /\ ~invoices[i].fresh
  /\ Does(w, "seal", i)
  /\ UNCHANGED <<invoices, objects>>

SealReads(w) ==
  LET i == tabs[w].invoice IN
  /\ tabs[w].pc = "seal"
  /\ IF Exists(i)
     THEN /\ tabs' = [tabs EXCEPT ![w].pc = "save", ![w].version = invoices[i].version]
          /\ invoices' = [invoices EXCEPT ![i].raced = @ \/ Sealing(i)]
     ELSE Done(w) /\ UNCHANGED invoices
  /\ UNCHANGED objects

\* The storage may be unavailable: the seal is put off.
SealSaves(w) ==
  /\ tabs[w].pc = "save"
  /\ \/ /\ objects' = [objects EXCEPT ![tabs[w].invoice] = w]
        /\ Does(w, "record", tabs[w].invoice)
     \/ Done(w) /\ UNCHANGED objects
  /\ UNCHANGED invoices

SealRecords(w) ==
  LET i == tabs[w].invoice IN
  /\ tabs[w].pc = "record"
  /\ invoices' = IF Exists(i)
                 THEN [invoices EXCEPT ![i].fresh = TRUE, ![i].sealer = w,
                                       ![i].shown = tabs[w].version]
                 ELSE invoices
  /\ Done(w)
  /\ UNCHANGED objects

\* A request is cut off between two of its transactions.
CutOff(w) ==
  LET i == tabs[w].invoice IN
  /\ tabs[w].pc # "idle"
  /\ invoices' = IF tabs[w].pc = "record" /\ Exists(i)
                 THEN [invoices EXCEPT ![i].raced = @ \/ invoices[i].fresh]
                 ELSE invoices
  /\ Done(w)
  /\ UNCHANGED objects

------------------------------------------------------------------------------
InvoiceStep(w) ==
  \/ \E p \in Periods : TimeReads(w, p)
  \/ \E i \in Invoices :
       \/ AddManual(w, i) \/ TimeCreates(w, i)
       \/ update_team_invoice_draft(w, i) \/ submit_team_invoice(w, i)
       \/ record_team_invoice_payment(w, i) \/ void_team_invoice(w, i)
       \/ delete_team_invoice_draft(w, i) \/ OpenDocument(w, i)
  \/ TimeFills(w) \/ TimeUndoes(w)
  \/ SealReads(w) \/ SealSaves(w) \/ SealRecords(w) \/ CutOff(w)

InvoiceNext == \E w \in Tabs : InvoiceStep(w)

Init == TimeInit /\ InvoicesInit
Next == \/ TimeNext /\ UNCHANGED billVars
        \/ InvoiceNext /\ UNCHANGED timeVars
Spec == Init /\ [][Next]_<<timeVars, billVars>>

------------------------------------------------------------------------------
InvoicesTypeOK ==
  /\ \A i \in Invoices :
       /\ invoices[i].status \in Statuses \cup {"none"}
       /\ invoices[i].billed \subseteq Source
       /\ invoices[i].shown <= invoices[i].version
  /\ objects \in [Invoices -> Tabs \cup {NoTab}]
  /\ \A w \in Tabs : tabs[w].pc \in {"idle", "create", "fill", "undo", "seal", "save", "record"}

\* No time is billed by two invoices, whatever requests create, fill, undo and
\* delete them at the same time, and an invoice from time charges for what it
\* claims (the three transactions of create_team_invoice_from_time).
ClaimsApart ==
  \A i, j \in Rows : i # j => invoices[i].billed \cap invoices[j].billed = {}
ChargesItsTime ==
  \A i \in Rows : invoices[i].source = "tracked" =>
    invoices[i].total = Charge(invoices[i].billed)
TimeIsBilledOnce == ClaimsApart /\ ChargesItsTime

\* What the reader of a document is shown is the invoice as it is: a document
\* that counts as sealed shows the last version, and the stored object is the
\* one the row records (seal_team, the put-off seal and team_invoice_document).
InOrder(i) ==
  /\ invoices[i].shown = invoices[i].version
  /\ Versioned \/ objects[i] = invoices[i].sealer
StaleDocumentHeals ==
  \A i \in Rows : invoices[i].fresh /\ ~Sealing(i) => InOrder(i)

\* The same, unless seals ran into each other or into a change.
LoneSealHeals ==
  \A i \in Rows : invoices[i].fresh /\ ~Sealing(i) /\ ~invoices[i].raced => InOrder(i)

\* A member can write another invoice: the next number is free
\* (create_team_invoice's count beside delete_team_invoice_draft).
NextNumberIsFree == ~NumberTaken
=============================================================================
