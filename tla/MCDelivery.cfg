SPECIFICATION Spec
CONSTANTS
  ali = ali
  eva = eva
  p1 = p1
  p2 = p2
  Courier = {ali}
  Process = {p1, p2}
  MaxOrder = 2
  MaxCourse = 2
  Fee = 1
  RATTRAPAGE_MAX = 2
  Serves <- ServesAll
INVARIANT OneActivePerOrder
INVARIANT OneEngagedPerCourier
INVARIANT CancelledOrderHasNoLiveCourse
INVARIANT OrderKeepsUpWithCourse
INVARIANT CreditedOncePerDelivery
PROPERTY OnlyLateAnswersEscapeTheMachine
SYMMETRY Symmetry
