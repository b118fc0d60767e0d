--------------------------- MODULE MCWorkSessions ---------------------------
(***************************************************************************)
(* Small instances of WorkSessions: six scenarios share a run, each the    *)
(* specification for users, devices and constants of its own.  A phone and *)
(* a desktop of one user displace each other; the clock of a desktop may   *)
(* step back; a desktop leaves gaps between its events; a desktop's events *)
(* arrive twice and late; the administrators race the web timer and the    *)
(* field page, and two presses of the web timer at once.  A scenario with  *)
(* one request thread leaves the others untouched, so that the symmetry    *)
(* still holds.                                                            *)
(***************************************************************************)
EXTENDS WorkSessions, TLC

CONSTANTS
  r1,           \* the thread of a scenario with one
  MaxWithdrawn  \* bound on what the administrators hold withdrawn at a time

VARIABLE scenario

\* Who owns what: a desktop with a phone, a desktop alone, a web browser.
ThreeUsers == {"u1", "u2", "u3"}
OneProject == {"p1"}
FourDevices == {"desk1", "phone1", "desk2", "web1"}
MCOwner == [d \in Devices |-> CASE d = "desk2" -> "u2" [] d = "web1" -> "u3" [] OTHER -> "u1"]
MCKind == [d \in Devices |-> CASE d = "web1" -> "web" [] d = "phone1" -> "mobile"
                               [] OTHER -> "desktop"]
MCProjectOf == [t \in Tasks |-> "p1"]
OneTask == [t \in {"t1"} |-> "p1"]

RequestSymmetry == Permutations(Requests)
\* The row the administrators' scenarios do without.
MaxRow == 3
\* The identities of rows are alike and taken in order.
RowsInOrder ==
  \A i, j \in SessionIds : i < j /\ sessions[j] # NoSession => sessions[i] # NoSession

OneDevice == INSTANCE WorkSessions WITH
  Devices <- {"desk2"}, Requests <- {r1}, MaxTime <- 2, Idles <- {0, 2},
  AdminOps <- {"compact"}
Gap == INSTANCE WorkSessions WITH
  Devices <- {"desk2"}, Requests <- {r1}, Tasks <- {"t1"}, ProjectOf <- OneTask,
  Skew <- 0, Idles <- {0, 1}, ClockMayStepBack <- FALSE, AdminOps <- {}
Resend == INSTANCE WorkSessions WITH
  Devices <- {"desk2"}, Tasks <- {"t1"}, ProjectOf <- OneTask, MaxTime <- 1,
  MaxEvents <- 2, Idles <- {0, 1}, ClockMayStepBack <- FALSE,
  AdminOps <- {"compact"}
Admin == INSTANCE WorkSessions WITH
  Requests <- {r1}, Users <- {"u3"}, Devices <- {"web1"}, Tasks <- {"t1"}, ProjectOf <- OneTask,
  Skew <- 0, MaxTime <- 0, MaxEvents <- 1, Idles <- {0}, Reported <- {"active", "paused"},
  AdminOps <- AdminOps \ {"compact"}
Presses == INSTANCE WorkSessions WITH
  Users <- {"u3"}, Devices <- {"web1"}, Tasks <- {"t1"}, ProjectOf <- OneTask,
  Skew <- 0, MaxTime <- 0, MaxEvents <- 0, Pages <- {"dashboard"},
  AdminOps <- {"policy", "task", "project", "user"}
Switch == INSTANCE WorkSessions WITH
  Devices <- {"desk1", "phone1"}, Tasks <- {"t1"}, ProjectOf <- OneTask, Skew <- 0,
  MaxTime <- 1, MaxEvents <- 2, Idles <- {0}, Reported <- {"active", "stopped"},
  Pages <- {}, AdminOps <- {}, ClockMayStepBack <- FALSE

MCInit == Init /\ scenario \in {"one_device", "gap", "resend", "admin", "presses", "switch"}
\* What is disabled, archived or removed or about to be, and the policies that were set.
Withdrawn ==
  Cardinality({a \in Admins : admin[a] # NoClosing}) +
  Cardinality(Users \ usersEnabled) + Cardinality(Devices \ devicesEnabled)
    + Cardinality(Projects \ projectsEnabled) + Cardinality(Tasks \ tasksActive)
    + Cardinality((Users \X Projects) \ workers) + Cardinality({orgPolicy} \ {"all"})
    + Cardinality({u \in Users : memberPolicy[u] # "inherit"})

MCNext ==
  /\ UNCHANGED scenario
  /\ \/ scenario = "one_device" /\ OneDevice!Next
     \/ scenario = "gap" /\ Gap!Next
     \/ scenario = "resend" /\ Resend!Next
     \/ scenario = "admin" /\ Admin!Next /\ ~Exists(MaxRow)'
     \/ scenario = "presses" /\ Presses!Next /\ ~Exists(MaxRow)'
     \/ /\ scenario = "switch" /\ Switch!Next
        /\ journalled'["desk1"] + journalled'["phone1"] <= MaxEvents
  /\ RowsInOrder' /\ Withdrawn' <= MaxWithdrawn
MCSpec == MCInit /\ [][MCNext]_<<vars, scenario>>
=============================================================================
