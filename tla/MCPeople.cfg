SPECIFICATION Spec
CONSTANTS
  Code = {1, 2}
  Session = {1, 2}
  ACCOUNT_VERIFICATION_MAX_ATTEMPTS = 2
  MaxSecret = 2
  EarningOrder = {1, 2}
  Worth = 2
  Cost = 3
  MaxCodes = 2
  MaxAdjust = 2
  MaxExpiries = 2
  Sub = {"s1", "s2"}
  Payment = {"p1", "p2", "p3"}
  Period = 2
  LastPeriod = 6
  Guest = {"u1", "u2"}
  Dish = {"d1"}
  MaxQuantity = 2
  Person = {"p1", "p2"}
  Sender = {1, 2}
  MaxText = 2
  LastMinute = 3
  Device = {1, 2}
  Owner = {"u", "v"}
  Recipient = "u"
  MaxRetries = 2
  MaxCrashes = 1
  Publisher = {1, 2}
  BACKLOG_SIZE = 1
  MaxSeq = 2
  MaxEpoch = 2
  Customer = "c"
  Courier = {"k1", "k2"}
  MaxCall = 2
  Nobody = "nobody"
  Desk = {1}
  Return = {1}
  Total = 2
  Amount = {1, 3}
  Place = {0, 2}
  CLOCK_SKEW_AHEAD = 1
  CLOCK_SKEW_BEHIND = 1
  TRACKING_MIN_WRITE_SECONDS = 2
  TRACKING_MIN_WRITE_METERS = 2
  Ping = {1, 2}
  LastSecond = 1
  MaxPings = 2
  Friend = {1, 2, 3}
  Creator = 1
  max_members = 2
  SocialRequest = {1, 2}
  MaxPosts = 2
  Order = {1, 2, 3}
  Achievement = {1, 2}
  condition_value <- Thresholds
  target_value = 2
  points_required = 3
  Reviewer = {"a", "b"}
  Rating = {1, 4}
  ReviewRequest = {1, 2}
  Txn = {1, 2}
  Billed = 2
  Worker = {1, 2}
  Claim = {"completed"}
INVARIANT AccountsAreGuarded
INVARIANT RewardsAreEarned
INVARIANT PaidMeansPaid
INVARIANT OrderIsTheCart
PROPERTY SentOnceAndAsAgreed
INVARIANT ScreensKeepUp
PROPERTY AnswersStand
INVARIANT CountsAreReal
CHECK_DEADLOCK FALSE
