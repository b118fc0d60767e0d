---------------------------- MODULE ExportLedger ----------------------------
(***************************************************************************)
(* What the export of one day's time to a provider promises: the provider  *)
(* carries at most one entry of the day, and the entry shows a total that  *)
(* the tracker asked for at some time.  A deliverer that outlived its      *)
(* claim voids the promise (loose).                                        *)
(***************************************************************************)
EXTENDS Integers

CONSTANT Totals   \* the totals a day can have

VARIABLES
  asked,   \* totals the tracker has asked the provider to show
  shown,   \* the provider's entries of the day: pairs of number and total
  loose    \* the promise is void

ledger == <<asked, shown, loose>>

Init == asked = {} /\ shown = {} /\ loose = FALSE

Ask == \E t \in Totals : asked' = asked \cup {t} /\ UNCHANGED <<shown, loose>>

\* An entry appears where there was none, or takes the place of the only one.
Show ==
  /\ \E e \in shown' : e[2] \in asked /\ shown' = {e}
  /\ (\A e, f \in shown : e = f) /\ UNCHANGED <<asked, loose>>

Withdraw == shown' = {} /\ UNCHANGED <<asked, loose>>

Loosen == loose' = TRUE /\ UNCHANGED asked

\* Once void, the promise stays void.
Void == loose /\ loose' = TRUE

Next == Void \/ Ask \/ Show \/ Withdraw \/ Loosen

Spec == Init /\ [][Next]_ledger
=============================================================================
