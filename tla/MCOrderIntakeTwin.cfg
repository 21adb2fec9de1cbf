\* One customer whose order is committed and whose broadcast raises.
SPECIFICATION Spec
CONSTANTS
  ann = ann
  bob = bob
  k1 = k1
  k2 = k2
  r1 = r1
  r2 = r2
  burger = burger
  soda = soda
  Customer = {ann}
  Item = {soda}
  Key = {k1}
  Request = {r1}
  Owner <- OneCustomer
  Tracked = {}
  InitialStock = 1
  UsageLimit = 1
  UserLimit = 1
  MaxOrder = 2
  MaxCrashes = 0
  MaxBroken = 1
INVARIANT ReplayCreatesNoSecondOrder
