CONSTANTS
  Workers = {w1, w2}
  Nobody = Nobody
  Kinds = {"worklog", "comment", "message", "report"}
  Modes = {"hourly", "daily", "delayed", "completed"}
  MaxSeconds = 2
  MaxChanges = 2
  MaxSwitches = 2
  MaxFaults = 2
  DiscardAfter = 2
SPECIFICATION MCSpec
INVARIANTS DeliveredIsShown SentOnce
PROPERTIES KeepsTheLedger EverythingGoesOut
