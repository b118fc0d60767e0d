SPECIFICATION MCSpec
CONSTANTS
  Callers = {c1, c2}
  Nobody = Nobody
  MaxGrants = 2
  MaxExpiries = 1
  MaxFaults = 1
  MaxRotations = 1
  MaxPolls = 1
CHECK_DEADLOCK FALSE
INVARIANTS NewestTokenKept OneSpender
PROPERTIES CallbackDecides AccessComesBack
