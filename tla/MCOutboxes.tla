----------------------------- MODULE MCOutboxes -----------------------------
(***************************************************************************)
(* Four scenarios in one run, each Outboxes under bounds of its own.  The  *)
(* extended module carries the widest bounds; its Fairness asks no more of *)
(* a scenario than the scenario's own would: a step of a worker always has *)
(* a way to go without a fault, and a lease that only a fault could end    *)
(* ends once its holder is done.                                           *)
(***************************************************************************)
EXTENDS Outboxes

VARIABLE scenario

Worklogs == INSTANCE Outboxes WITH Kinds <- {"worklog"}, Modes <- {"hourly"},
                                   MaxSwitches <- 0
Comments == INSTANCE Outboxes WITH Kinds <- {"comment"}, Modes <- {"hourly"},
                                   MaxSwitches <- 0, MaxSeconds <- 1
Settings == INSTANCE Outboxes WITH Kinds <- {"worklog", "comment"}, MaxSeconds <- 1,
                                   MaxFaults <- 0
Sendings == INSTANCE Outboxes WITH Kinds <- {"message", "report"}, Modes <- {"hourly"},
                                   MaxSeconds <- 1, MaxSwitches <- 1,
                                   MaxChanges <- 1

MCInit ==
  \/ scenario = "worklogs" /\ Worklogs!Init
  \/ scenario = "comments" /\ Comments!Init
  \/ scenario = "settings" /\ Settings!Init
  \/ scenario = "sendings" /\ Sendings!Init
MCNext ==
  /\ UNCHANGED scenario
  /\ \/ scenario = "worklogs" /\ Worklogs!Next
     \/ scenario = "comments" /\ Comments!Next
     \/ scenario = "settings" /\ Settings!Next
     \/ scenario = "sendings" /\ Sendings!Next

MCSpec == MCInit /\ [][MCNext]_<<vars, scenario>> /\ Fairness
=============================================================================
