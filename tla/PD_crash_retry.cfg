SPECIFICATION Spec
CONSTANTS
  Providers = {"wise"}
  Workers = {w1}
  Recipients = {a}
  NoRecipient = NoRecipient
  MaxSends = 2
  MaxTransfers = 2
  MaxMoves = 3
  MayCrash = TRUE
  MayReconfigure = FALSE
  MayStall = FALSE
INVARIANTS ProcessingIsFollowed
CHECK_DEADLOCK FALSE
