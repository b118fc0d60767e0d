------------------------- MODULE MCPayrollDelivery -------------------------
(***************************************************************************)
(* Small instances of PayrollDelivery.                                     *)
(***************************************************************************)
EXTENDS PayrollDelivery, TLC

\* Threads and destinations are interchangeable.
ThreadAndRecipientSymmetry == Permutations(Workers) \cup Permutations(Recipients)
=============================================================================
