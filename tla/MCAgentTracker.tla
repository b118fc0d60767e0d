--------------------------- MODULE MCAgentTracker ---------------------------
(***************************************************************************)
(* Small instances of AgentTracker, each a scope: presses and idle time    *)
(* racing the worker, in two; a crash, a relaunch and a refusal; an exit   *)
(* beside a blocked upload and a revoked token; samples before an idle     *)
(* stretch is noticed, and before a gap.                                   *)
(***************************************************************************)
EXTENDS AgentTracker

CONSTANTS p1, p2
BothProjects == {p1, p2}

None == [b \in Bounds |-> IF b = "launches" THEN 1 ELSE 0]
Scope(counts, projects, outlives) ==
  [b \in Bounds \cup {"projects", "outlives"} |->
     CASE b = "projects" -> projects
       [] b = "outlives" -> outlives
       [] b \in DOMAIN counts -> counts[b]
       [] OTHER -> None[b]]

Presses == Scope([actions |-> 3, changes |-> 1], {p1, p2}, FALSE)
Absences == Scope([actions |-> 2, changes |-> 2, failures |-> 1], {p1}, FALSE)
Restarts == Scope([actions |-> 2, crashes |-> 1, launches |-> 2, refusals |-> 1], {p1}, FALSE)
Shutdown == Scope([actions |-> 1, beats |-> 1, samples |-> 1, unknown |-> 3], {p1}, TRUE)
TwoSenders == Scope([actions |-> 2, samples |-> 1, refusals |-> 1], {p1}, TRUE)
Desk == Scope([actions |-> 2, changes |-> 1, samples |-> 1], {p1, p2}, FALSE)
Sleep == Scope([actions |-> 1, beats |-> 1, samples |-> 1, gaps |-> 1, crashes |-> 1, launches |-> 2], {p1}, FALSE)
LateWorker == Scope([actions |-> 1, beats |-> 1], {p1}, TRUE)

Revoked == Scope([actions |-> 1, unknown |-> 3], {p1}, TRUE)

ForSafety == {Presses, Absences, Restarts, Shutdown, TwoSenders, Desk, Sleep}
RestartOnce == Scope([actions |-> 1, crashes |-> 1, launches |-> 2, refusals |-> 1], {p1}, FALSE)
RestartTwice == Scope([actions |-> 2, crashes |-> 1, launches |-> 2], {p1}, FALSE)
Refused == Scope([actions |-> 2, refusals |-> 1], {p1}, FALSE)
ForProgress == {RestartOnce, RestartTwice, Refused, Revoked}
OnlyLateWorker == {LateWorker}
=============================================================================
