SPECIFICATION RefundSpec
CONSTANTS
  Share = {ann, bob}
  Worker = {w1}
  MaxTxn = 2
  Total = 2
  Method = "online"
  ProviderStatus = {"completed"}
  Stray = {}
  MaxCrashes = 0
  MaxRefund = 2
INVARIANT RefundableIsCollectedLessRefunded
CHECK_DEADLOCK FALSE
