SPECIFICATION Spec
CONSTANTS
  Providers = {"paypal", "wise", "webhook"}
  Workers = {w1, w2}
  Recipients = {a, b}
  NoRecipient = NoRecipient
  MaxSends = 2
  MaxTransfers = 2
  MaxMoves = 4
  MayCrash = TRUE
  MayReconfigure = TRUE
  MayStall = TRUE
INVARIANTS OutcomesHappened NoDoublePayout PaidToFrozenRecipient
PROPERTIES SettledFactsStay
SYMMETRY ThreadAndRecipientSymmetry
CHECK_DEADLOCK FALSE
