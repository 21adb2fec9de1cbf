---------------------------- MODULE DeliveryProofs ----------------------------
(***************************************************************************)
(* Theorems about Delivery, for any orders, couriers, courses, processes   *)
(* and service areas.                                                      *)
(***************************************************************************)
EXTENDS Delivery, SumTheorems

-----------------------------------------------------------------------------
(* The two machines, read as relations *)

\* The order cannot be cancelled once it has left the kitchen, and never goes
\* back from there.
LEMMA OrderMachine ==
  ASSUME NEW s \in OrderStatus, NEW t, can(ORDER_TRANSITIONS, s, t)
  PROVE  /\ t \in OrderStatus
         /\ t = "cancelled" => s \in {"pending", "confirmed", "preparing", "ready"}
         /\ s \notin {"delivered", "cancelled"}
         /\ s = "picked_up" => t = "on_the_way"
         /\ s = "on_the_way" => t = "delivered"
  BY DEF OrderStatus, ORDER_TRANSITIONS, can

\* A finished course does not move, and one is engaged by being accepted.
LEMMA DeliveryMachine ==
  ASSUME NEW s \in DeliveryStatus, NEW t, can(DELIVERY_TRANSITIONS, s, t)
  PROVE  /\ t \in DeliveryStatus
         /\ s \notin TERMINAL_STATUSES
         /\ t \in ENGAGED_STATUSES => t = "accepted" \/ s \in ENGAGED_STATUSES
         /\ t # "offered"
  BY DEF DeliveryStatus, DELIVERY_TRANSITIONS, TERMINAL_STATUSES, ENGAGED_STATUSES, can

-----------------------------------------------------------------------------
(* The invariant *)

CourseTypes ==
  /\ ostatus \in [Order -> OrderStatus]
  /\ astatus \in [Course -> DeliveryStatus \cup {"none"}]
  /\ aorder \in [Course -> Order \cup {0}]
  /\ acourier = [a \in Course |-> acourier[a]]
  /\ accepting \subseteq Course
  /\ declining \subseteq Course
  /\ target \in [Process -> Order \cup {0}]

\* A row that was not inserted is nobody's.
RowsBelong == \A a \in Course : astatus[a] # "none" => aorder[a] \in Order

\* What an acceptance that holds the lock of its order can rely on: its course
\* was proposed (a late decline may have closed it since), it is the only
\* acceptance and the only course of the order, and the order is not cancelled.
AcceptingHolds ==
  \A a \in accepting :
    /\ astatus[a] \in {"offered", "declined"}
    /\ ostatus[aorder[a]] # "cancelled"
    /\ \A b \in Course : aorder[b] = aorder[a] /\ (b \in accepting \/ Live(b)) => b = a

\* A decline was checked on a row that exists.
DecliningExists == \A a \in declining : astatus[a] # "none"

\* The inductive strengthening.
CourseInv ==
  /\ CourseTypes
  /\ RowsBelong
  /\ AcceptingHolds
  /\ DecliningExists
  /\ OneActivePerOrder
  /\ OneEngagedPerCourier
  /\ CancelledOrderHasNoLiveCourse
  /\ OrderKeepsUpWithCourse

\* No course is proposed yet.
LEMMA CourseInvInit == Init => CourseInv
  BY DeliveryAssumption
  DEF Init, CourseInv, CourseTypes, RowsBelong, AcceptingHolds, DecliningExists, OneActivePerOrder,
      OneEngagedPerCourier, CancelledOrderHasNoLiveCourse, OrderKeepsUpWithCourse, active_for,
      engaged_for, Live, Engaged, ENGAGED_STATUSES, OrderStatus, ORDER_TRANSITIONS

\* Every action preserves the invariant, decline and its late write included.
LEMMA CourseInvNext == CourseInv /\ [Next]_vars => CourseInv'
  <1> SUFFICES ASSUME CourseInv, [Next]_vars
               PROVE  CourseInv'
    OBVIOUS
  <1> USE DeliveryAssumption
      DEF CourseInv, CourseTypes, RowsBelong, AcceptingHolds, DecliningExists, OneActivePerOrder,
          OneEngagedPerCourier, CancelledOrderHasNoLiveCourse, OrderKeepsUpWithCourse, active_for,
          engaged_for, Live, Engaged, Held, ENGAGED_STATUSES, TERMINAL_STATUSES, courseVars,
          courierVars, planVars
  <1>1. CASE \E p \in Process, o \in Order : dispatch(p, o) \/ dispatch_waiting(p, o)
    BY <1>1 DEF dispatch, dispatch_waiting
  <1>2. CASE \E p \in Process, o \in Order, c \in Courier : staff_offers(p, o, c)
    BY <1>2 DEF staff_offers
  <1>3. CASE \E p \in Process : offer(p)
    <2>1. PICK p \in Process : offer(p)
      BY <1>3
    <2> DEFINE o == target[p]
    <2>2. o \in Order
      BY <2>1 DEF offer
    <2>3. PICK a \in Course :
            /\ Fresh(a)
            /\ astatus' = [astatus EXCEPT ![a] = "offered"]
            /\ aorder' = [aorder EXCEPT ![a] = o]
            /\ acourier' = [acourier EXCEPT ![a] = Head(plan[p])]
      BY <2>1 DEF offer
    <2>4. UNCHANGED <<ostatus, accepting, declining>> /\ ~ Held(o) /\ offerable(o, Head(plan[p]))
      BY <2>1 DEF offer
    <2>5. CourseTypes'
      BY <2>1, <2>2, <2>3, <2>4 DEF offer, DeliveryStatus, DELIVERY_TRANSITIONS
    <2>6. RowsBelong' /\ DecliningExists'
      BY <2>2, <2>3, <2>4
    <2>7. AcceptingHolds'
      BY <2>2, <2>3, <2>4 DEF Fresh
    <2>8. OneActivePerOrder'
      BY <2>2, <2>3, <2>4 DEF Fresh, offerable
    <2>9. OneEngagedPerCourier'
      BY <2>2, <2>3, <2>4 DEF Fresh
    <2>10. CancelledOrderHasNoLiveCourse' /\ OrderKeepsUpWithCourse'
      BY <2>2, <2>3, <2>4 DEF Fresh, offerable
    <2>11. QED
      BY <2>5, <2>6, <2>7, <2>8, <2>9, <2>10
  <1>4. CASE \E p \in Process : offer_refused(p)
    BY <1>4 DEF offer_refused
  <1>5. CASE \E a \in Course : expire(a)
    BY <1>5 DEF expire, DeliveryStatus, DELIVERY_TRANSITIONS
  <1>6. CASE \E a \in Course : accept_reads(a)
    BY <1>6 DEF accept_reads
  <1>7. CASE \E a \in Course : accept(a)
    BY <1>7 DEF accept, one_engaged_assignment_per_courier, DeliveryStatus, DELIVERY_TRANSITIONS
  <1>8. CASE \E a \in Course : decline_reads(a)
    BY <1>8 DEF decline_reads
  <1>9. CASE \E a \in Course : decline(a)
    BY <1>9 DEF decline, DeliveryStatus, DELIVERY_TRANSITIONS
  <1>10. CASE \E a \in Course, t \in DeliveryStatus : transition_to(a, t)
    <2>1. PICK a \in Course, t \in DeliveryStatus : transition_to(a, t)
      BY <1>10
    <2> DEFINE o == aorder[a]
               s == astatus[a]
    <2>2. /\ s \in DeliveryStatus /\ s # "none" /\ o \in Order /\ ~ Held(o)
          /\ can(DELIVERY_TRANSITIONS, s, t)
          /\ ostatus[o] = "cancelled" => t = "cancelled"
          /\ t = "accepted" => one_engaged_assignment_per_courier(a)
          /\ exiger_une_commande_qui_suit(o, t) /\ project(o, t)
      BY <2>1 DEF transition_to, playable
    <2>3. /\ astatus' = [astatus EXCEPT ![a] = t]
          /\ UNCHANGED <<aorder, acourier, accepting, declining, target>>
      BY <2>1 DEF transition_to
    <2>4. /\ s \notin TERMINAL_STATUSES
          /\ t \in ENGAGED_STATUSES => t = "accepted" \/ s \in ENGAGED_STATUSES
          /\ t # "offered"
      BY <2>2, DeliveryMachine
    <2>5. /\ ostatus' \in [Order -> OrderStatus]
          /\ \A p \in Order : p # o => ostatus'[p] = ostatus[p]
          /\ projects(t) => ostatus'[o] = t
          /\ ~ projects(t) => ostatus'[o] = ostatus[o]
          /\ ostatus'[o] = ostatus[o] \/ can(ORDER_TRANSITIONS, ostatus[o], ostatus'[o])
      BY <2>2, OrderMachine DEF project, projects, exiger_une_commande_qui_suit, ORDER_STATUS_PROJECTION
    <2>6. projects(t) <=> t \in {"picked_up", "on_the_way", "delivered"}
      BY DEF projects, ORDER_STATUS_PROJECTION
    <2>7. CourseTypes' /\ RowsBelong' /\ DecliningExists'
      BY <2>2, <2>3, <2>5 DEF DeliveryStatus, DELIVERY_TRANSITIONS
    <2>8. AcceptingHolds'
      BY <2>2, <2>3, <2>4, <2>5, <2>6
    <2>9. OneActivePerOrder'
      BY <2>2, <2>3, <2>4
    <2>10. OneEngagedPerCourier'
      BY <2>2, <2>3, <2>4 DEF one_engaged_assignment_per_courier
    <2>11. CancelledOrderHasNoLiveCourse'
      BY <2>2, <2>3, <2>4, <2>5, <2>6
    <2>12. OrderKeepsUpWithCourse'
      <3>1. /\ ostatus[o] = "picked_up" => ostatus'[o] \in {"picked_up", "on_the_way"}
            /\ ostatus[o] = "on_the_way" => ostatus'[o] \in {"on_the_way", "delivered"}
            /\ ostatus[o] = "delivered" => ostatus'[o] = "delivered"
        BY <2>2, <2>5, OrderMachine
      <3>2. QED
        BY <2>2, <2>3, <2>5, <2>6, <3>1
    <2>13. QED
      BY <2>7, <2>8, <2>9, <2>10, <2>11, <2>12
  <1>11. CASE \E o \in Order, t \in OrderStatus : order_moves(o, t)
    BY <1>11, OrderMachine DEF order_moves
  <1>12. CASE \E o \in Order : order_cancelled(o)
    BY <1>12, OrderMachine
    DEF order_cancelled, close_for_cancelled_order, DeliveryStatus, DELIVERY_TRANSITIONS
  <1>13. CASE \E c \in Courier : can_accept_orders(c)
    BY <1>13 DEF can_accept_orders
  <1>14. CASE UNCHANGED vars
    BY <1>14 DEF vars
  <1>15. QED
    BY <1>1, <1>2, <1>3, <1>4, <1>5, <1>6, <1>7, <1>8, <1>9, <1>10, <1>11, <1>12, <1>13,
       <1>14 DEF Next

\* L2 without the unique index, L6 with it: the lock of the order under offer,
\* accept, expire and transition_to leaves it one live course, and the index
\* leaves a courier one course to carry, although decline takes no lock.
THEOREM CoursesAreExclusive == Spec => [](OneActivePerOrder /\ OneEngagedPerCourier)
  <1>1. CourseInv => OneActivePerOrder /\ OneEngagedPerCourier
    BY DEF CourseInv
  <1>2. QED
    BY CourseInvInit, CourseInvNext, <1>1, PTL DEF Spec

\* An acceptance and a cancellation of the order never both succeed: a
\* cancelled order has no course left to run.
THEOREM CancelledOrderHasNoLiveCourseInvariant == Spec => []CancelledOrderHasNoLiveCourse
  <1>1. CourseInv => CancelledOrderHasNoLiveCourse
    BY DEF CourseInv
  <1>2. QED
    BY CourseInvInit, CourseInvNext, <1>1, PTL DEF Spec

\* C4: no course is ahead of its order, whoever moves the order by hand.
THEOREM OrderKeepsUpWithCourseInvariant == Spec => []OrderKeepsUpWithCourse
  <1>1. CourseInv => OrderKeepsUpWithCourse
    BY DEF CourseInv
  <1>2. QED
    BY CourseInvInit, CourseInvNext, <1>1, PTL DEF Spec

\* The only undeclared transitions of a course come from a decline that takes
\* no lock, or from the acceptance it crosses.
THEOREM OnlyLateAnswersEscape == Spec => OnlyLateAnswersEscapeTheMachine
  <1> DEFINE Declared(a) ==
        \/ astatus[a] = "none"
        \/ astatus'[a] = astatus[a]
        \/ can(DELIVERY_TRANSITIONS, astatus[a], astatus'[a])
        \/ a \in declining /\ astatus'[a] = "declined"
        \/ a \in accepting /\ astatus[a] = "declined" /\ astatus'[a] = "accepted"
  <1>1. CourseInv /\ [Next]_vars => [\A a \in Course : Declared(a)]_vars
    <2> SUFFICES ASSUME CourseInv, Next
                 PROVE  \A a \in Course : Declared(a)
      OBVIOUS
    <2> USE DEF CourseInv, CourseTypes, courseVars
    <2>1. CASE \E p \in Process : offer(p)
      BY <2>1 DEF offer, Fresh
    <2>2. CASE \E a \in Course : expire(a)
      BY <2>2 DEF expire, can, DELIVERY_TRANSITIONS
    <2>3. CASE \E a \in Course : accept(a)
      BY <2>3 DEF accept, AcceptingHolds, can, DELIVERY_TRANSITIONS
    <2>4. CASE \E a \in Course : decline(a)
      BY <2>4 DEF decline
    <2>5. CASE \E a \in Course, t \in DeliveryStatus : transition_to(a, t)
      BY <2>5 DEF transition_to, playable
    <2>6. CASE \E o \in Order : order_cancelled(o)
      BY <2>6 DEF order_cancelled, close_for_cancelled_order, can, DELIVERY_TRANSITIONS
    <2>7. CASE astatus' = astatus
      BY <2>7
    <2>8. QED
      BY <2>1, <2>2, <2>3, <2>4, <2>5, <2>6, <2>7
      DEF Next, dispatch, dispatch_waiting, staff_offers, offer_refused, accept_reads, decline_reads,
          order_moves, can_accept_orders
  <1>2. QED
    BY CourseInvInit, CourseInvNext, <1>1, PTL DEF Spec, OnlyLateAnswersEscapeTheMachine

-----------------------------------------------------------------------------
(* Types *)

\* A plan is a list of couriers, and a process has one while it has an order.
PlansOK ==
  /\ DOMAIN plan = Process
  /\ \A p \in Process : plan[p] \in Seq(Courier) /\ (plan[p] = <<>> <=> target[p] = 0)

\* What a courier is owed is counted in naturals.
AccountsOK ==
  /\ fee \in [Course -> {0, Fee}]
  /\ deliveredAt \in [Course -> BOOLEAN]
  /\ completed \in [Courier -> Nat]
  /\ earnings \in [Courier -> Nat]
  /\ eligible \in [Courier -> BOOLEAN]

CouriersOK == acourier \in [Course -> Courier \cup {0}]

\* The couriers that may be asked, in whatever order, are a list.
LEMMA CandidatesAreLists ==
  ASSUME NEW o, NEW s \in candidates(o)
  PROVE  s \in Seq(Courier)
  <1> DEFINE S == available_for(o)
  <1>1. IsFiniteSet(S)
    BY DeliveryAssumption, FS_Subset DEF available_for
  <1>2. Cardinality(S) \in Nat
    BY <1>1, FS_CardinalityType
  <1>3. s \in [1 .. Cardinality(S) -> S]
    BY DEF candidates, Bijection, Injection, Surjection, IsInjective
  <1>4. S \subseteq Courier
    BY DEF available_for
  <1>5. QED
    BY <1>2, <1>3, <1>4

LEMMA PlansInit == Init => PlansOK
  BY DEF Init, PlansOK

\* A dispatch takes its list with the order, and drops both together.
LEMMA PlansNext == CourseInv /\ PlansOK /\ [Next]_vars => PlansOK'
  <1> SUFFICES ASSUME CourseInv, PlansOK, [Next]_vars
               PROVE  PlansOK'
    OBVIOUS
  <1>0. target \in [Process -> Order \cup {0}] /\ 0 \notin Order
    BY DeliveryAssumption DEF CourseInv, CourseTypes, Order
  <1>1. ASSUME NEW p \in Process, NEW l \in Seq(Courier), NEW x,
               plan' = [plan EXCEPT ![p] = l], target' = [target EXCEPT ![p] = x],
               l = <<>> <=> x = 0
        PROVE  PlansOK'
    BY <1>0, <1>1 DEF PlansOK
  <1>2. ASSUME NEW p \in Process, NEW o \in Order, dispatch(p, o) \/ dispatch_waiting(p, o)
        PROVE  PlansOK'
    <2>1. PICK s \in candidates(o) \ {<<>>} : plan' = [plan EXCEPT ![p] = s]
      BY <1>2 DEF dispatch, dispatch_waiting
    <2>2. target' = [target EXCEPT ![p] = o]
      BY <1>2 DEF dispatch, dispatch_waiting
    <2>3. QED
      BY <1>0, <1>1, <2>1, <2>2, CandidatesAreLists
  <1>3. ASSUME NEW p \in Process, NEW o \in Order, NEW c \in Courier, staff_offers(p, o, c)
        PROVE  PlansOK'
    <2>1. <<c>> \in Seq(Courier) /\ <<c>> # <<>>
      OBVIOUS
    <2>2. QED
      BY <1>0, <1>1, <1>3, <2>1 DEF staff_offers
  <1>4. ASSUME NEW p \in Process, offer(p)
        PROVE  PlansOK'
    <2>1. <<>> \in Seq(Courier)
      OBVIOUS
    <2>2. QED
      BY <1>1, <1>4, <2>1 DEF offer
  <1>5. ASSUME NEW p \in Process, offer_refused(p)
        PROVE  PlansOK'
    <2> DEFINE o == target[p]
               rest == IF active_for(o) # {} THEN <<>> ELSE Tail(plan[p])
    <2>1. plan[p] \in Seq(Courier) /\ plan[p] # <<>>
      BY <1>5 DEF offer_refused, PlansOK
    <2>2. rest \in Seq(Courier)
      BY <2>1
    <2>3. o # 0 /\ plan' = [plan EXCEPT ![p] = rest]
             /\ target' = [target EXCEPT ![p] = IF rest = <<>> THEN 0 ELSE o]
      BY <1>5 DEF offer_refused
    <2>4. rest = <<>> <=> (IF rest = <<>> THEN 0 ELSE o) = 0
      BY <2>3
    <2> HIDE DEF rest
    <2>5. QED
      BY <1>1, <2>2, <2>3, <2>4
  <1>6. CASE UNCHANGED planVars
    BY <1>6 DEF PlansOK, planVars
  <1>7. QED
    BY <1>2, <1>3, <1>4, <1>5, <1>6
    DEF Next, vars, expire, accept_reads, accept, decline_reads, decline, transition_to, order_moves,
        order_cancelled, can_accept_orders

LEMMA AccountsInit == Init => AccountsOK
  BY DEF Init, AccountsOK

\* A course that is credited twice, or to nobody, would still leave numbers;
\* what they are is CreditedOncePerDelivery.
LEMMA AccountsNext == AccountsOK /\ [Next]_vars => AccountsOK'
  <1> SUFFICES ASSUME AccountsOK, [Next]_vars
               PROVE  AccountsOK'
    OBVIOUS
  <1> USE DeliveryAssumption DEF AccountsOK
  <1>1. ASSUME NEW a \in Course, accept(a)
        PROVE  AccountsOK'
    BY <1>1 DEF accept, courierVars
  <1>2. ASSUME NEW a \in Course, NEW t \in DeliveryStatus, transition_to(a, t)
        PROVE  AccountsOK'
    <2>1. fee[a] \in Nat
      OBVIOUS
    <2>2. completed' \in [Courier -> Nat] /\ earnings' \in [Courier -> Nat]
      BY <1>2, <2>1 DEF transition_to, credit, courierVars
    <2>3. deliveredAt' = [deliveredAt EXCEPT ![a] = @ \/ t = "delivered"] /\ UNCHANGED <<fee, eligible>>
      BY <1>2 DEF transition_to
    <2>4. deliveredAt' \in [Course -> BOOLEAN]
      BY <2>3, Zenon
    <2>5. QED
      BY <2>2, <2>3, <2>4
  <1>3. ASSUME NEW c \in Courier, can_accept_orders(c)
        PROVE  AccountsOK'
    <2>1. eligible' = [eligible EXCEPT ![c] = ~ @]
          /\ UNCHANGED <<fee, deliveredAt, completed, earnings>>
      BY <1>3 DEF can_accept_orders, courseVars, courierVars
    <2>2. eligible' \in [Courier -> BOOLEAN]
      BY <2>1, Zenon
    <2>3. QED
      BY <2>1, <2>2
  <1>4. CASE UNCHANGED <<fee, deliveredAt, courierVars, eligible>>
    BY <1>4 DEF courierVars
  <1>5. QED
    BY <1>1, <1>2, <1>3, <1>4
    DEF Next, vars, courseVars, dispatch, dispatch_waiting, staff_offers, offer, offer_refused, expire,
        accept_reads, decline_reads, decline, order_moves, order_cancelled

\* Only offer names the courier of a course, from its plan.
LEMMA CouriersNext == PlansOK /\ CouriersOK /\ [Next]_vars => CouriersOK'
  <1> SUFFICES ASSUME PlansOK, CouriersOK, [Next]_vars
               PROVE  CouriersOK'
    OBVIOUS
  <1>1. ASSUME NEW p \in Process, offer(p)
        PROVE  CouriersOK'
    <2>1. plan[p] \in Seq(Courier) /\ plan[p] # <<>>
      BY <1>1 DEF offer, PlansOK
    <2>2. Head(plan[p]) \in Courier
      BY <2>1
    <2>3. QED
      BY <1>1, <2>2 DEF offer, CouriersOK
  <1>2. CASE UNCHANGED acourier
    BY <1>2 DEF CouriersOK
  <1>3. QED
    BY <1>1, <1>2
    DEF Next, vars, courseVars, dispatch, dispatch_waiting, staff_offers, offer_refused, expire,
        accept_reads, accept, decline_reads, decline, transition_to, order_moves, order_cancelled,
        can_accept_orders

\* Every column keeps to its values: a process that is proposing an order has
\* couriers left to try, a row names a courier of the fleet, and what is
\* counted for a courier never goes below zero (DispatchService,
\* AssignmentService).
THEOREM DeliveryTypes == Spec => []TypeOK
  <1>1. Init => CouriersOK
    BY DEF Init, CouriersOK
  <1>2. CourseInv /\ PlansOK /\ AccountsOK /\ CouriersOK => TypeOK
    BY DEF CourseInv, CourseTypes, PlansOK, AccountsOK, CouriersOK, TypeOK
  <1>3. QED
    BY CourseInvInit, CourseInvNext, PlansInit, PlansNext, AccountsInit, AccountsNext, <1>1,
       CouriersNext, <1>2, PTL DEF Spec

-----------------------------------------------------------------------------
(* What the couriers are credited with *)

\* The courses that courier c has delivered.
Done(c) == {a \in Course : acourier[a] = c /\ deliveredAt[a]}

\* A course that was delivered is over, even if a late decline has written
\* over its status, and no acceptance holds it: it is never delivered again,
\* and its fee and its courier no longer change.
DeliveredIsOver ==
  /\ \A a \in Course : deliveredAt[a] => astatus[a] \in {"delivered", "declined"}
  /\ \A a \in accepting : ~ deliveredAt[a]

LEMMA DeliveredIsOverNext ==
  CourseInv /\ AccountsOK /\ DeliveredIsOver /\ [Next]_vars => DeliveredIsOver'
  <1> SUFFICES ASSUME CourseInv, AccountsOK, DeliveredIsOver, [Next]_vars
               PROVE  DeliveredIsOver'
    OBVIOUS
  <1> USE DEF CourseInv, CourseTypes, AccountsOK, DeliveredIsOver
  <1>1. ASSUME NEW p \in Process, offer(p)
        PROVE  DeliveredIsOver'
    BY <1>1 DEF offer, Fresh
  <1>2. ASSUME NEW a \in Course, expire(a) \/ accept_reads(a) \/ accept(a) \/ decline(a)
        PROVE  DeliveredIsOver'
    BY <1>2 DEF expire, accept_reads, accept, decline, courseVars
  <1>3. ASSUME NEW a \in Course, NEW t \in DeliveryStatus, transition_to(a, t)
        PROVE  DeliveredIsOver'
    <2>1. astatus[a] \in DeliveryStatus /\ can(DELIVERY_TRANSITIONS, astatus[a], t)
      BY <1>3 DEF transition_to, playable
    <2>2. astatus[a] \notin {"delivered", "declined"}
      BY <2>1, DeliveryMachine DEF TERMINAL_STATUSES
    <2>3. astatus' = [astatus EXCEPT ![a] = t] /\ accepting' = accepting
          /\ deliveredAt' = [deliveredAt EXCEPT ![a] = @ \/ t = "delivered"]
      BY <1>3 DEF transition_to
    <2>4. ~ deliveredAt[a]
      BY <2>2
    <2>5. deliveredAt'[a] <=> t = "delivered"
      BY <2>3, <2>4
    <2>6. \A b \in Course : b # a => (deliveredAt'[b] <=> deliveredAt[b])
      BY <2>3
    <2>7. a \notin accepting
      BY <1>3, <2>1 DEF transition_to, Held
    <2>8. QED
      BY <2>3, <2>5, <2>6, <2>7
  <1>4. ASSUME NEW o \in Order, order_cancelled(o)
        PROVE  DeliveredIsOver'
    BY <1>4 DEF order_cancelled, close_for_cancelled_order
  <1>5. CASE UNCHANGED <<astatus, deliveredAt, accepting>>
    BY <1>5
  <1>6. QED
    BY <1>1, <1>2, <1>3, <1>4, <1>5
    DEF Next, vars, courseVars, dispatch, dispatch_waiting, staff_offers, offer_refused,
        decline_reads, order_moves, can_accept_orders

\* What the property says, with the sum over the column of the fees.
CreditsAdd(c) ==
  /\ completed[c] = Cardinality(Done(c))
  /\ earnings[c] = SumFunctionOnSet(fee, Done(c))

LEMMA CreditsAreSums ==
  CreditedOncePerDelivery <=> \A c \in Courier : CreditsAdd(c)
  <1> SUFFICES ASSUME NEW c \in Courier
               PROVE  SumFunction([a \in Done(c) |-> fee[a]]) = SumFunctionOnSet(fee, Done(c))
    BY DEF CreditedOncePerDelivery, CreditsAdd, Done
  <1> DEFINE f == [a \in Done(c) |-> fee[a]]
  <1>1. IsFiniteSet(Course)
    BY DeliveryAssumption, FS_Interval DEF Course
  <1>2. IsFiniteSet(Done(c))
    BY <1>1, FS_Subset DEF Done
  <1>3. DOMAIN f = Done(c) /\ \A a \in DOMAIN f : f[a] = fee[a]
    OBVIOUS
  <1> HIDE DEF f
  <1>4. SumFunction(f) = SumFunctionOnSet(fee, DOMAIN f)
    BY <1>2, <1>3, SumOfFunction
  <1>5. QED
    BY <1>3, <1>4 DEF f

LEMMA CreditsNext ==
  CourseInv /\ AccountsOK /\ DeliveredIsOver /\ CreditedOncePerDelivery /\ [Next]_vars
    => CreditedOncePerDelivery'
  <1>p. CreditedOncePerDelivery' <=> (\A c \in Courier : CreditsAdd(c))'
    BY CreditsAreSums, PTL
  <1> SUFFICES ASSUME CourseInv, AccountsOK, DeliveredIsOver, CreditedOncePerDelivery, [Next]_vars,
                      NEW c \in Courier
               PROVE  CreditsAdd(c)'
    BY <1>p
  <1>0. CreditsAdd(c)
    BY CreditsAreSums
  <1>a. IsFiniteSet(Done(c)) /\ \A a \in Done(c) : a \in Course /\ fee[a] \in Nat
    <2>1. IsFiniteSet(Course)
      BY DeliveryAssumption, FS_Interval DEF Course
    <2>2. Done(c) \in SUBSET Course
      BY DEF Done
    <2>3. \A a \in Course : fee[a] \in Nat
      BY DeliveryAssumption DEF AccountsOK
    <2>4. QED
      BY <2>1, <2>2, <2>3, FS_Subset
  <1>1. ASSUME Done(c)' = Done(c), \A a \in Done(c) : fee'[a] = fee[a],
               completed'[c] = completed[c], earnings'[c] = earnings[c]
        PROVE  CreditsAdd(c)'
    <2>1. SumFunctionOnSet(fee', Done(c)) = SumFunctionOnSet(fee, Done(c))
      BY <1>a, <1>1, SumSame
    <2>2. QED
      BY <1>0, <1>1, <2>1 DEF CreditsAdd
  <1>2. ASSUME NEW p \in Process, offer(p)
        PROVE  CreditsAdd(c)'
    <2>1. PICK a \in Course : Fresh(a) /\ acourier' = [acourier EXCEPT ![a] = Head(plan[p])]
      BY <1>2 DEF offer
    <2>2. ~ deliveredAt[a]
      BY <2>1 DEF Fresh, DeliveredIsOver
    <2>3. UNCHANGED <<deliveredAt, fee, completed, earnings>>
      BY <1>2 DEF offer, courierVars
    <2>4. Done(c)' = Done(c)
      BY <2>1, <2>2, <2>3 DEF Done, CourseInv, CourseTypes
    <2>5. QED
      BY <1>1, <2>3, <2>4
  <1>3. ASSUME NEW a \in Course, accept(a)
        PROVE  CreditsAdd(c)'
    <2>1. a \notin Done(c)
      BY <1>3 DEF accept, DeliveredIsOver, Done
    <2>2. UNCHANGED <<acourier, deliveredAt, completed, earnings>>
      BY <1>3 DEF accept, courierVars
    <2>3. \A b \in Done(c) : fee'[b] = fee[b]
      BY <1>a, <1>3, <2>1 DEF accept, AccountsOK
    <2>4. Done(c)' = Done(c)
      BY <2>2 DEF Done
    <2>5. QED
      BY <1>1, <2>2, <2>3, <2>4
  <1>4. ASSUME NEW a \in Course, NEW t \in DeliveryStatus, transition_to(a, t)
        PROVE  CreditsAdd(c)'
    <2>1. astatus[a] \in DeliveryStatus /\ can(DELIVERY_TRANSITIONS, astatus[a], t)
      BY <1>4 DEF transition_to, playable, CourseInv, CourseTypes
    <2>2. ~ deliveredAt[a]
      BY <2>1, DeliveryMachine DEF TERMINAL_STATUSES, DeliveredIsOver
    <2>3. deliveredAt' = [deliveredAt EXCEPT ![a] = @ \/ t = "delivered"]
          /\ UNCHANGED <<acourier, fee>>
      BY <1>4 DEF transition_to
    <2>4. (deliveredAt'[a] <=> t = "delivered")
          /\ \A b \in Course : b # a => (deliveredAt'[b] <=> deliveredAt[b])
      BY <2>2, <2>3 DEF AccountsOK
    <2>5. CASE t = "delivered" /\ acourier[a] = c
      \* The one step that credits, on a course that was not delivered yet.
      <3>1. Done(c)' = Done(c) \cup {a} /\ a \notin Done(c)
        BY <2>2, <2>3, <2>4, <2>5 DEF Done
      <3>2. completed'[c] = completed[c] + 1 /\ earnings'[c] = earnings[c] + fee[a]
        BY <1>4, <2>5 DEF transition_to, credit, AccountsOK
      <3>3. Cardinality(Done(c) \cup {a}) = Cardinality(Done(c)) + 1
        BY <1>a, <3>1, FS_AddElement
      <3>4. \A b \in Done(c) \cup {a} : fee[b] \in Int
        BY DeliveryAssumption, <1>a DEF AccountsOK
      <3>5. SumFunctionOnSet(fee, Done(c) \cup {a}) = fee[a] + SumFunctionOnSet(fee, Done(c))
        BY <1>a, <3>1, <3>4, SumAdd
      <3>6. earnings[c] \in Nat /\ fee[a] \in Int
        BY <3>4 DEF AccountsOK
      <3>7. QED
        BY <1>0, <2>3, <3>1, <3>2, <3>3, <3>5, <3>6 DEF CreditsAdd
    <2>6. CASE ~ (t = "delivered" /\ acourier[a] = c)
      <3>1. Done(c)' = Done(c)
        BY <2>2, <2>3, <2>4, <2>6 DEF Done
      <3>2. completed'[c] = completed[c] /\ earnings'[c] = earnings[c]
        BY <1>4, <2>6 DEF transition_to, credit, courierVars, AccountsOK
      <3>3. QED
        BY <1>1, <2>3, <3>1, <3>2
    <2>7. QED
      BY <2>5, <2>6
  <1>5. CASE UNCHANGED <<acourier, deliveredAt, fee, courierVars>>
    BY <1>1, <1>5 DEF Done, courierVars
  <1>6. QED
    BY <1>2, <1>3, <1>4, <1>5
    DEF Next, vars, courseVars, dispatch, dispatch_waiting, staff_offers, offer_refused, expire,
        accept_reads, decline_reads, decline, order_moves, order_cancelled, can_accept_orders

\* L4: whatever steps are replayed and whatever late refusals are written over
\* a delivered course, a courier is credited once for each course he delivered,
\* with the fee written on it (_credit).
THEOREM CreditedOncePerDeliveryInvariant == Spec => []CreditedOncePerDelivery
  <1>1. Init => DeliveredIsOver
    BY DEF Init, DeliveredIsOver
  <1>2. Init => CreditedOncePerDelivery
    <2> SUFFICES ASSUME Init, NEW c \in Courier PROVE CreditsAdd(c)
      BY CreditsAreSums
    <2>1. Done(c) = {}
      BY DEF Init, Done
    <2>2. QED
      BY <2>1, SumEmpty, FS_EmptySet DEF Init, CreditsAdd
  <1>3. QED
    BY CourseInvInit, CourseInvNext, AccountsInit, AccountsNext, DeliveredIsOverNext, CreditsNext,
       <1>1, <1>2, PTL DEF Spec
=============================================================================
