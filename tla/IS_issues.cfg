SPECIFICATION MCSpec
CONSTANTS
  Workers = {w1, w2}
  Nobody = Nobody
  Gone = Gone
  Projects = {p1, p2}
  NoProject = NoProject
  Scopes <- All
CHECK_DEADLOCK FALSE
INVARIANTS OpenIssuesStay TimersStopWithTheTask
PROPERTIES SyncConverges
