SPECIFICATION Spec
CONSTANTS
  None = None
  Member = {"a1", "a2", "a3"}
  Role = {"rw", "rx"}
  Permission = {"write", "q"}
  Branch = {"r1", "r2"}
  District = {"c"}
  Country = {"k"}
  district <- Places
  country <- Countries
  Granted <- GrantedRows
  RolePermissions <- FirstPermissions
  Write = "write"
  MaxChanges = 2
  MaxDocument = 2
  MaxDay = 2
  Worker = {1, 2}
  Course = {1, 2, 3, 4}
  Fee = 1
  Withdrawal = {1, 2}
  Score = {1, 4, 5}
  Opened <- OneOpened
  Copied <- TwoCopied
  Customer = {"c1", "c2"}
  Courier = {"k1", "k2"}
  Clerk = "s"
  HeadOffice = "h"
  Establishment = {"r1", "r2"}
  city <- Cities
  Rights <- ClerkRights
  DayLength = 3
  Week = 2
  Horizon = 3
  Mapped <- TwoZones
  Crowded <- ThreeKitchens
  Amount = {0, 1, 7, 15}
  Percent = {10, 33, 100}
  Length = {0, 50, 333}
  Share = 70
  Participants = {1, 2, 3}
  Stated <- Given
INVARIANT RightsAreGranted
PROPERTY FilesAreRead
INVARIANT CourierIsOwedWhatWasEarned
PROPERTY KitchensAreKnownAndComplete
PROPERTY EachToTheirOwnRows
INVARIANT OrderableInService
INVARIANT FoundKitchenServes
INVARIANT AmountsAdd
CHECK_DEADLOCK FALSE
