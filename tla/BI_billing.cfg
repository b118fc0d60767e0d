SPECIFICATION MCSpec
CONSTANTS
  e1 = e1
  i1 = i1
  Scenarios = {"approved", "free", "zones", "claims", "document"}
  LastDay = 1
  Periods <- TwoPeriods
  EntryIds = {e1}
  Spans <- MorningAndNight
  LateSpans <- Morning
  Threads = {t1, t2}
  Zones = {0, 1}
  NeedsApproval = TRUE
  Invoices = {i1, i2}
  Tabs = {w1, w2}
  Prices = {1, 2}
  MaxVersions = 4
  Versioned = FALSE
SYMMETRY Symmetry
CHECK_DEADLOCK FALSE
INVARIANTS NoInstantPaidTwice PaidEntriesStand TimeIsBilledOnce LoneSealHeals
