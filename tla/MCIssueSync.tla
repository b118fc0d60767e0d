----------------------------- MODULE MCIssueSync -----------------------------
(***************************************************************************)
(* Eight small instances of IssueSync in one run, drawn at Init.           *)
(*   - Two passes of each provider overtake, fail and die beside an edit,  *)
(*     for Asana with two faults, and for GitHub with a webhook: either    *)
(*     two edits without a fault, or one edit and one fault.               *)
(*   - One pass of each provider meets two operations of the owner         *)
(*     (mapping, disconnecting, closing a task, syncing now) and an edit.  *)
(*   - Five operations of the owner around single GitHub passes, for what  *)
(*     a longer story of mapping, disconnecting and reactivating does.     *)
(***************************************************************************)
EXTENDS IssueSync

Of(prov, edits, owner, faults, posts, workers) ==
  [provider |-> prov, edits |-> edits, owner |-> owner, faults |-> faults,
   hooks |-> posts, workers |-> workers]
One == {CHOOSE w \in Workers : TRUE}
All ==
  {Of("jira", 1, 0, 1, 0, Workers), Of("asana", 1, 0, 2, 0, Workers),
   Of("github", 2, 0, 0, 1, Workers), Of("github", 1, 0, 1, 1, Workers)}
    \cup {Of(prov, 1, 2, 0, 0, One) : prov \in {"jira", "asana", "github"}}
    \cup {Of("github", 0, 5, 0, 0, One)}

\* The projects are alike: the issue is mapped to the first.
MCInit == Init /\ mapping.project = CHOOSE p \in Projects : TRUE
\* Beside two passes no session is reported again while it runs, nor beside one of
\* Jira; beside two of Jira, or a fault and a webhook, none is started.
Sparing ==
  timer'.start # NoProject =>
    /\ scope.workers # One \/ provider = "jira" => timer.project = NoProject
    /\ scope.workers # One => provider # "jira" /\ (scope.faults = 0 \/ scope.hooks = 0)
MCSpec == MCInit /\ [][Next /\ Sparing]_vars /\ Fairness
=============================================================================
