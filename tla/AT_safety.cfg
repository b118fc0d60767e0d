SPECIFICATION Spec
CONSTANTS
  p1 = p1
  p2 = p2
  Projects <- BothProjects
  Configured = p1
  Scopes <- ForSafety
CHECK_DEADLOCK FALSE
INVARIANTS TimerIsJournalled JournalIsReplayed TimelyExitClosesTheSession
  SampleFindsItsSession
