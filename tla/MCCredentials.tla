---------------------------- MODULE MCCredentials ----------------------------
(***************************************************************************)
(* Small instances of Credentials, one per question, drawn at Init: one    *)
(* grant through expiry and faults; the same under a key that reaches the  *)
(* replicas one by one; a second authorization while the first is          *)
(* refreshed; a second authorization beside a rewrap.  The vault is the    *)
(* same for every provider and for both kinds of row, so a rotation        *)
(* follows one row; Asana's member flow differs from its site's in no step *)
(* that a refresh meets, so a member reconnects beside the rewrap only.    *)
(* The extended module's Fairness is that of the scenarios: each of its    *)
(* actions, once begun, has a way to go on that needs no budget.           *)
(***************************************************************************)
EXTENDS Credentials

VARIABLE scenario

Refreshing == INSTANCE Credentials WITH MaxGrants <- 1, MaxRotations <- 0
Rotating == INSTANCE Credentials WITH MaxGrants <- 1, MaxFaults <- 0
Reconnecting == INSTANCE Credentials WITH MaxFaults <- 0, MaxRotations <- 0
Rewrapping == INSTANCE Credentials WITH MaxFaults <- 0, MaxExpiries <- 0

MCInit ==
  /\ Init
  /\ \/ scenario = "refresh"
     \/ scenario = "reconnect" /\ (provider = "asana" => subject = "site")
     \/ scenario = "rotate" /\ provider = "jira" /\ subject = "site"
     \/ scenario = "rewrap" /\ provider = "asana"
MCNext ==
  /\ UNCHANGED scenario
  /\ \/ scenario = "refresh" /\ Refreshing!Next
     \/ scenario = "rotate" /\ Rotating!Next
     \/ scenario = "reconnect" /\ Reconnecting!Next
     \/ scenario = "rewrap" /\ Rewrapping!Next
MCSpec == MCInit /\ [][MCNext]_<<vars, scenario>> /\ Fairness
=============================================================================
