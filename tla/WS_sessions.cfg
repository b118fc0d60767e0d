SPECIFICATION MCSpec
CONSTANTS
  r1 = r1
  MaxWithdrawn = 2
  Users <- ThreeUsers
  Devices <- FourDevices
  Projects <- OneProject
  Tasks = {"t1", "t2"}
  Owner <- MCOwner
  Kind <- MCKind
  ProjectOf <- MCProjectOf
  Requests = {r1, r2}
  Admins = {a1}
  SessionIds = {1, 2, 3}
  NoSession = NoSession
  NoEvent = NoEvent
  NoClosing = NoClosing
  Interval = 1
  Lease = 2
  Skew = 1
  MaxTime = 5
  MaxEvents = 3
  Idles = {0, 1, 2}
  Reported = {"active", "paused", "stopped"}
  Pages = {"dashboard", "field"}
  ClockMayStepBack = TRUE
  AdminOps = {"policy", "task", "project", "member", "user", "device", "compact"}
SYMMETRY RequestSymmetry
CHECK_DEADLOCK FALSE
INVARIANTS OneOpenSessionPerUser LoneDeviceTimeDisjoint CountsExactlyWhileActive
  SnapshotStaysSound DesktopOnlyEnforced CreditIsWitnessed
PROPERTIES AppliedOnceForward ClosedTimeIsFinal ResendIsRecognised
