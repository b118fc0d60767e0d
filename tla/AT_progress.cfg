SPECIFICATION Spec
CONSTANTS
  p1 = p1
  p2 = p2
  Projects <- BothProjects
  Configured = p1
  Scopes <- ForProgress
CHECK_DEADLOCK FALSE
PROPERTIES ServerConverges EndsOnceStopped
