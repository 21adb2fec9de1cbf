SPECIFICATION Spec
CONSTANTS
  ann = ann
  bob = bob
  w1 = w1
  w2 = w2
  unknown = unknown
  Share = {ann, bob}
  Worker = {w1, w2}
  MaxTxn = 3
  Total = 2
  Method = "online"
  ProviderStatus = {"completed", "failed"}
  Stray = {}
  MaxCrashes = 0
INVARIANT NotificationIsApplied
SYMMETRY Symmetry
CHECK_DEADLOCK FALSE
