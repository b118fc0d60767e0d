SPECIFICATION Spec
CONSTANTS
  MaxItems = 2
  MaxCaptures = 4
  MaxFaults = 2
  Legacy = 2
CHECK_DEADLOCK FALSE
INVARIANTS NothingLost FilesMatchRows PendingIsExact
PROPERTIES DropsTheOldest EveryCaptureLeaves
