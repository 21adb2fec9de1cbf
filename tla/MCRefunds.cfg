SPECIFICATION RefundSpec
CONSTANTS
  Share = {ann, bob}
  Worker = {w1}
  MaxTxn = 2
  Total = 2
  Method = "cash"
  ProviderStatus = {"completed"}
  Stray = {unknown}
  MaxCrashes = 1
  MaxRefund = 3
INVARIANT RefundsAreExact
INVARIANT DeliveredCashIsCollected
PROPERTY RefundsFollowTheMachine
CHECK_DEADLOCK FALSE
