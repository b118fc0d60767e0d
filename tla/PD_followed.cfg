SPECIFICATION FairSpec
CONSTANTS
  Providers = {"wise"}
  Workers = {w1, w2}
  Recipients = {a}
  NoRecipient = NoRecipient
  MaxSends = 2
  MaxTransfers = 2
  MaxMoves = 3
  MayCrash = FALSE
  MayReconfigure = TRUE
  MayStall = TRUE
PROPERTIES ProcessingIsResolved
CHECK_DEADLOCK FALSE
