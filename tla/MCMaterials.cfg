SPECIFICATION Spec
CONSTANTS
  o1 = o1
  o2 = o2
  onion = onion
  cheese = cheese
  cook = cook
  chef = chef
  monday = monday
  friday = friday
  loss = loss
  Order = {o1, o2}
  Ingredient = {onion, cheese}
  Staff = {cook, chef}
  ReceiptKey = {monday, friday}
  DeclareKey = {loss}
  Ceiling = 1
  MaxPortion = 2
  MaxOnHand = 2
INVARIANTS PromisesAreExact PromiseIsKept KeyWritesOnce
SYMMETRY Symmetry
