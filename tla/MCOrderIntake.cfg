\* One unit of the tracked item and one use of the code for two customers; a
\* process may be lost.
SPECIFICATION FairSpec
CONSTANTS
  ann = ann
  bob = bob
  k1 = k1
  k2 = k2
  r1 = r1
  r2 = r2
  burger = burger
  soda = soda
  Customer = {ann, bob}
  Item = {burger, soda}
  Key = {k1, k2}
  Request = {r1, r2}
  Owner <- TwoCustomers
  Tracked = {burger}
  InitialStock = 1
  UsageLimit = 1
  UserLimit = 1
  MaxOrder = 2
  MaxCrashes = 1
  MaxBroken = 1
INVARIANTS OneOrderPerKey StockIsAccountedFor QuotaIsRespected
PROPERTIES OrderEntersAnOpenKitchen KeyIsSettled
