------------------------------ MODULE Delivery ------------------------------
(***************************************************************************)
(* How ready orders find a courier and reach the customer:                 *)
(* apps/delivery/services.py (AssignmentService) and dispatch.py           *)
(* (DispatchService, with the clock of tasks.py).  A course is a row of    *)
(* Assignment.                                                             *)
(*                                                                         *)
(* offer, expire, transition_to and the cancellation of an order take the  *)
(* row lock of the ORDER first and read everything afterwards: each is one *)
(* action.  Three readings escape that lock and have steps of their own:   *)
(* the courier's eligibility (read before offer and accept are called),    *)
(* the course in accept (locked by nobody), and the whole of decline.      *)
(***************************************************************************)
EXTENDS StateMachines, Integers, FiniteSets, FiniteSetsExt, Functions, Sequences

CONSTANTS
  MaxOrder,        \* orders, numbered by placed_at
  Courier,
  Serves,          \* <<courier, order>>: same kitchen, zone within the perimeter
  Process,         \* web workers and clock that propose courses
  MaxCourse,       \* bound: courses ever proposed
  Fee,             \* courier_fee_for(order)
  RATTRAPAGE_MAX   \* waiting orders one turn of the clock looks at

ASSUME DeliveryAssumption ==
  /\ MaxOrder \in Nat \ {0}
  /\ MaxCourse \in Nat \ {0}
  /\ Fee \in Nat \ {0}
  /\ RATTRAPAGE_MAX \in Nat \ {0}
  /\ Serves \subseteq Courier \X (1 .. MaxOrder)
  /\ 0 \notin Courier
  /\ IsFiniteSet(Courier)

Order  == 1 .. MaxOrder
Course == 1 .. MaxCourse

VARIABLES
  ostatus,     \* Order.status
  astatus,     \* Assignment.status, "none" for a row not yet inserted
  aorder,      \* Assignment.order
  acourier,    \* Assignment.courier, 0 before the row exists
  fee,         \* Assignment.courier_fee, 0 for null
  deliveredAt, \* Assignment.delivered_at is set
  completed,   \* CourierProfile.deliveries_completed
  earnings,    \* CourierProfile.total_earnings
  eligible,    \* CourierProfile.can_accept_orders
  target,      \* the order a process is proposing, 0 when it is idle
  plan,        \* the couriers it has left to try, as it read them
  accepting,   \* courses whose accept has the order lock and passed its checks
  declining    \* courses whose decline was checked and is not yet written

courseVars  == <<astatus, aorder, acourier, fee, deliveredAt>>
courierVars == <<completed, earnings>>
planVars    == <<target, plan>>
vars == <<ostatus, courseVars, courierVars, eligible, planVars, accepting, declining>>

-----------------------------------------------------------------------------
(* Reading the courses *)

Live(a)    == astatus[a] \notin TERMINAL_STATUSES \cup {"none"}
Engaged(a) == astatus[a] \in ENGAGED_STATUSES

\* AssignmentService._active_for and _engaged_for.
active_for(o)  == {a \in Course : aorder[a] = o /\ Live(a)}
engaged_for(c) == {a \in Course : acourier[a] = c /\ Engaged(a)}

\* accept holds the row lock of the order until it commits.
Held(o) == \E a \in accepting : aorder[a] = o

\* CourierService.available_for
available_for(o) ==
  {c \in Courier : <<c, o>> \in Serves /\ eligible[c] /\ engaged_for(c) = {}}

\* Who already declined this order, who has another proposal to answer.
a_refuse(c, o) ==
  \E a \in Course : aorder[a] = o /\ acourier[a] = c /\ astatus[a] = "declined"
deja_sollicite(c) == \E a \in Course : acourier[a] = c /\ astatus[a] = "offered"

\* candidates: those who did not decline first, then those nothing is proposed
\* to; the distance to the kitchen, which breaks ties, is left open.
rank(c, o) == (IF a_refuse(c, o) THEN 2 ELSE 0) + (IF deja_sollicite(c) THEN 1 ELSE 0)

InRankOrder(s, o) ==
  \A i, j \in DOMAIN s : i < j => rank(s[i], o) <= rank(s[j], o)

candidates(o) ==
  {s \in Bijection(1 .. Cardinality(available_for(o)), available_for(o)) : InRankOrder(s, o)}

-----------------------------------------------------------------------------
(* Proposing *)

\* DispatchService.dispatch: the order is waiting, and the compatible couriers
\* are read.  Called after the commit that made the order ready, after a
\* refusal, and when a courier comes online; the call may be lost.
dispatch(p, o) ==
  /\ target[p] = 0
  /\ ostatus[o] = "ready"
  /\ active_for(o) = {}
  /\ target' = [target EXCEPT ![p] = o]
  /\ \E s \in candidates(o) \ {<<>>} : plan' = [plan EXCEPT ![p] = s]
  /\ UNCHANGED <<ostatus, courseVars, courierVars, eligible, accepting, declining>>

\* dispatch_waiting: the clock looks at the oldest waiting orders.
Waiting == {o \in Order : ostatus[o] = "ready" /\ active_for(o) = {}}

dispatch_waiting(p, o) ==
  /\ o \in Waiting
  /\ Cardinality({w \in Waiting : w < o}) < RATTRAPAGE_MAX
  /\ dispatch(p, o)

\* OfferAssignmentView: the staff names a courier for an order.
staff_offers(p, o, c) ==
  /\ target[p] = 0
  /\ <<c, o>> \in Serves
  /\ eligible[c]
  /\ target' = [target EXCEPT ![p] = o]
  /\ plan' = [plan EXCEPT ![p] = <<c>>]
  /\ UNCHANGED <<ostatus, courseVars, courierVars, eligible, accepting, declining>>

\* Mutant: the courses of the order are not read again under the lock.
offerable_NotRechecked(o, c) ==
  /\ ostatus[o] = "ready"
  /\ engaged_for(c) = {}

\* The checks of AssignmentService.offer under the lock of the order.  The
\* courier's own file is not among them: it was read with the plan.
offerable(o, c) ==
  /\ ostatus[o] = "ready"
  /\ engaged_for(c) = {}
  /\ active_for(o) = {}

Fresh(a) == astatus[a] = "none" /\ \A b \in 1 .. (a - 1) : astatus[b] # "none"

\* AssignmentService.offer succeeds: a course is inserted.
offer(p) ==
  LET o == target[p]
      c == Head(plan[p])
  IN
  /\ o # 0
  /\ ~ Held(o)
  /\ offerable(o, c)
  /\ \E a \in Course :
       /\ Fresh(a)
       /\ astatus' = [astatus EXCEPT ![a] = "offered"]
       /\ aorder' = [aorder EXCEPT ![a] = o]
       /\ acourier' = [acourier EXCEPT ![a] = c]
  /\ target' = [target EXCEPT ![p] = 0]
  /\ plan' = [plan EXCEPT ![p] = <<>>]
  /\ UNCHANGED <<ostatus, fee, deliveredAt, courierVars, eligible, accepting, declining>>

\* offer is refused: dispatch stops if the order has a course by now, and
\* otherwise goes on with the next courier of its list.
offer_refused(p) ==
  LET o == target[p] IN
  /\ o # 0
  /\ ~ Held(o)
  /\ ~ offerable(o, Head(plan[p]))
  /\ LET rest == IF active_for(o) # {} THEN <<>> ELSE Tail(plan[p]) IN
       /\ plan' = [plan EXCEPT ![p] = rest]
       /\ target' = [target EXCEPT ![p] = IF rest = <<>> THEN 0 ELSE o]
  /\ UNCHANGED <<ostatus, courseVars, courierVars, eligible, accepting, declining>>

\* Mutant: a proposal is closed only if somebody else can take the course.
expire_IfReplaceable(a) ==
  /\ astatus[a] = "offered"
  /\ ~ Held(aorder[a])
  /\ available_for(aorder[a]) \ {acourier[a]} # {}
  /\ astatus' = [astatus EXCEPT ![a] = "declined"]
  /\ UNCHANGED <<ostatus, aorder, acourier, fee, deliveredAt, courierVars, eligible,
                 planVars, accepting, declining>>

\* Mutant: the course is not read again under the lock of the order.
expire_NotReread(a) ==
  /\ Live(a)
  /\ ~ Held(aorder[a])
  /\ astatus' = [astatus EXCEPT ![a] = "declined"]
  /\ UNCHANGED <<ostatus, aorder, acourier, fee, deliveredAt, courierVars, eligible,
                 planVars, accepting, declining>>

\* DispatchService.expire on a proposal older than DELIVERY_OFFER_TTL_SECONDS;
\* its age is left open.
expire(a) ==
  /\ astatus[a] = "offered"
  /\ ~ Held(aorder[a])
  /\ astatus' = [astatus EXCEPT ![a] = "declined"]
  /\ UNCHANGED <<ostatus, aorder, acourier, fee, deliveredAt, courierVars, eligible,
                 planVars, accepting, declining>>

-----------------------------------------------------------------------------
(* The courier answers *)

\* accept, up to its write: the order is locked, the file and the course are
\* read and checked.
accept_reads(a) ==
  /\ a \notin accepting
  /\ astatus[a] = "offered"
  /\ ~ Held(aorder[a])
  /\ ostatus[aorder[a]] # "cancelled"
  /\ eligible[acourier[a]]
  /\ engaged_for(acourier[a]) = {}
  /\ accepting' = accepting \cup {a}
  /\ UNCHANGED <<ostatus, courseVars, courierVars, eligible, planVars, declining>>

\* Mutant: without the partial unique index on the courier.
one_engaged_NoIndex(a) == TRUE

\* UniqueConstraint one_engaged_assignment_per_courier, for the write of a.
one_engaged_assignment_per_courier(a) == engaged_for(acourier[a]) \subseteq {a}

\* accept writes, and the fee of the course is frozen; or the index refuses
\* and everything is rolled back.
accept(a) ==
  /\ a \in accepting
  /\ accepting' = accepting \ {a}
  /\ IF one_engaged_assignment_per_courier(a)
     THEN /\ astatus' = [astatus EXCEPT ![a] = "accepted"]
          /\ fee' = [fee EXCEPT ![a] = Fee]
     ELSE UNCHANGED <<astatus, fee>>
  /\ UNCHANGED <<ostatus, aorder, acourier, deliveredAt, courierVars, eligible,
                 planVars, declining>>

\* decline validates the course the view read, without a lock ...
decline_reads(a) ==
  /\ astatus[a] = "offered"
  /\ a \notin declining
  /\ declining' = declining \cup {a}
  /\ UNCHANGED <<ostatus, courseVars, courierVars, eligible, planVars, accepting>>

\* ... and writes its status whatever the row has become.
decline(a) ==
  /\ a \in declining
  /\ declining' = declining \ {a}
  /\ astatus' = [astatus EXCEPT ![a] = "declined"]
  /\ UNCHANGED <<ostatus, aorder, acourier, fee, deliveredAt, courierVars, eligible,
                 planVars, accepting>>

-----------------------------------------------------------------------------
(* The course and the order advance *)

projects(t) == t \in DOMAIN ORDER_STATUS_PROJECTION

\* _exiger_une_commande_qui_suit
exiger_une_commande_qui_suit(o, t) ==
  projects(t) => LET to == ORDER_STATUS_PROJECTION[t] IN
                   ostatus[o] = to \/ can(ORDER_TRANSITIONS, ostatus[o], to)

\* Mutant: the order only hears of the end of the course.
project_AtTheEnd(o, t) ==
  ostatus' = IF t = "delivered" /\ can(ORDER_TRANSITIONS, ostatus[o], t)
             THEN [ostatus EXCEPT ![o] = t] ELSE ostatus

\* _project: nothing is written when the order is already there or (which the
\* check above excludes) cannot follow.
project(o, t) ==
  ostatus' = IF projects(t) /\ can(ORDER_TRANSITIONS, ostatus[o], ORDER_STATUS_PROJECTION[t])
             THEN [ostatus EXCEPT ![o] = ORDER_STATUS_PROJECTION[t]] ELSE ostatus

\* _credit, under the lock of the courier.
credit(a) ==
  /\ completed' = [completed EXCEPT ![acourier[a]] = @ + 1]
  /\ earnings' = [earnings EXCEPT ![acourier[a]] = @ + fee[a]]

\* Mutant: a step that is played again goes through (C3).
playable_Replayed(s, t) == is_noop(s, t) \/ can(DELIVERY_TRANSITIONS, s, t)

\* DELIVERY_MACHINE: a repeated step writes nothing, another must be declared.
playable(s, t) == ~ is_noop(s, t) /\ can(DELIVERY_TRANSITIONS, s, t)

\* AssignmentService.transition_to, by the courier's status route (any target
\* of the machine) or by the staff's cancellation; course, order and courier
\* are locked by one query.
transition_to(a, t) ==
  LET o == aorder[a] IN
  /\ astatus[a] # "none"
  /\ ~ Held(o)
  /\ playable(astatus[a], t)
  /\ ostatus[o] = "cancelled" => t = "cancelled"
  /\ exiger_une_commande_qui_suit(o, t)
  /\ t = "accepted" => one_engaged_assignment_per_courier(a)
  /\ astatus' = [astatus EXCEPT ![a] = t]
  /\ deliveredAt' = [deliveredAt EXCEPT ![a] = @ \/ t = "delivered"]
  /\ project(o, t)
  /\ IF t = "delivered" THEN credit(a) ELSE UNCHANGED courierVars
  /\ UNCHANGED <<aorder, acourier, fee, eligible, planVars, accepting, declining>>

\* The staff moves an order by hand.
order_moves(o, t) ==
  /\ ~ Held(o)
  /\ t # "cancelled"
  /\ can(ORDER_TRANSITIONS, ostatus[o], t)
  /\ ostatus' = [ostatus EXCEPT ![o] = t]
  /\ UNCHANGED <<courseVars, courierVars, eligible, planVars, accepting, declining>>

\* Mutant: only the proposals are closed, not the course a courier accepted.
close_OfferedOnly(o) ==
  astatus' = [a \in Course |->
    IF aorder[a] = o /\ astatus[a] = "offered" THEN "cancelled" ELSE astatus[a]]

\* close_for_cancelled_order, in the transaction of the cancellation.
close_for_cancelled_order(o) ==
  astatus' = [a \in Course |->
    IF aorder[a] = o /\ astatus[a] \in {"offered", "accepted"} THEN "cancelled" ELSE astatus[a]]

\* The order is cancelled, by the staff or the customer.
order_cancelled(o) ==
  /\ ~ Held(o)
  /\ can(ORDER_TRANSITIONS, ostatus[o], "cancelled")
  /\ ostatus' = [ostatus EXCEPT ![o] = "cancelled"]
  /\ close_for_cancelled_order(o)
  /\ UNCHANGED <<aorder, acourier, fee, deliveredAt, courierVars, eligible, planVars,
                 accepting, declining>>

\* The courier's file, his switch or his account changes what he may do.
can_accept_orders(c) ==
  /\ eligible' = [eligible EXCEPT ![c] = ~ @]
  /\ UNCHANGED <<ostatus, courseVars, courierVars, planVars, accepting, declining>>

-----------------------------------------------------------------------------
\* The fleet is in service and the orders are in the kitchen.
Init ==
  /\ ostatus = [o \in Order |-> "preparing"]
  /\ astatus = [a \in Course |-> "none"]
  /\ aorder = [a \in Course |-> 0]
  /\ acourier = [a \in Course |-> 0]
  /\ fee = [a \in Course |-> 0]
  /\ deliveredAt = [a \in Course |-> FALSE]
  /\ completed = [c \in Courier |-> 0]
  /\ earnings = [c \in Courier |-> 0]
  /\ eligible = [c \in Courier |-> TRUE]
  /\ target = [p \in Process |-> 0]
  /\ plan = [p \in Process |-> <<>>]
  /\ accepting = {}
  /\ declining = {}

Next ==
  \/ \E p \in Process :
       \/ \E o \in Order :
            \/ dispatch(p, o)
            \/ dispatch_waiting(p, o)
            \/ \E c \in Courier : staff_offers(p, o, c)
       \/ offer(p)
       \/ offer_refused(p)
  \/ \E a \in Course :
       \/ expire(a)
       \/ accept_reads(a)
       \/ accept(a)
       \/ decline_reads(a)
       \/ decline(a)
       \/ \E t \in DeliveryStatus : transition_to(a, t)
  \/ \E o \in Order :
       \/ \E t \in OrderStatus : order_moves(o, t)
       \/ order_cancelled(o)
  \/ \E c \in Courier : can_accept_orders(c)

Spec == Init /\ [][Next]_vars

\* Celery beat runs the clock every minute, whatever else happens, and a
\* request that was accepted runs to its end.
Fairness ==
  /\ \A o \in Order : WF_vars(\E p \in Process : dispatch_waiting(p, o))
  /\ \A p \in Process : WF_vars(offer(p) \/ offer_refused(p))
  /\ \A a \in Course : WF_vars(expire(a)) /\ WF_vars(accept(a)) /\ WF_vars(decline(a))

FairSpec == Spec /\ Fairness

-----------------------------------------------------------------------------
(* Properties *)

\* Every variable keeps its type, and a plan names the order it is for.
TypeOK ==
  /\ ostatus \in [Order -> OrderStatus]
  /\ astatus \in [Course -> DeliveryStatus \cup {"none"}]
  /\ aorder \in [Course -> Order \cup {0}]
  /\ acourier \in [Course -> Courier \cup {0}]
  /\ fee \in [Course -> {0, Fee}]
  /\ deliveredAt \in [Course -> BOOLEAN]
  /\ completed \in [Courier -> Nat]
  /\ earnings \in [Courier -> Nat]
  /\ eligible \in [Courier -> BOOLEAN]
  /\ target \in [Process -> Order \cup {0}]
  /\ \A p \in Process : plan[p] \in Seq(Courier) /\ (plan[p] = <<>> <=> target[p] = 0)
  /\ accepting \subseteq Course
  /\ declining \subseteq Course

\* L2.  An order never has two live courses.  The partial unique index of the
\* table is left out of the model on purpose: the lock of the order and the
\* checks made under it are enough.
OneActivePerOrder == \A o \in Order : \A a, b \in active_for(o) : a = b

\* L6.  A courier never carries two courses at once, although the two
\* acceptances hold the locks of two different orders.
OneEngagedPerCourier == \A c \in Courier : \A a, b \in engaged_for(c) : a = b

\* A cancelled order has no course left to accept or to run: an acceptance and
\* a cancellation that cross each other never both succeed.
CancelledOrderHasNoLiveCourse ==
  \A o \in Order : ostatus[o] = "cancelled" => active_for(o) = {}

\* C4.  A course is never ahead of its order: what the courier has picked up,
\* taken away or delivered, the order shows.
OrderKeepsUpWithCourse ==
  \A a \in Course : astatus[a] \in {"picked_up", "on_the_way", "delivered"} =>
    ostatus[aorder[a]] \in CASE astatus[a] = "picked_up" -> {"picked_up", "on_the_way", "delivered"}
                             [] astatus[a] = "on_the_way" -> {"on_the_way", "delivered"}
                             [] OTHER -> {"delivered"}

\* L4.  A courier is credited once for each course he delivered, with the fee
\* written on it, however often and by whomever the last step is replayed.
CreditedOncePerDelivery ==
  \A c \in Courier :
    LET done == {a \in Course : acourier[a] = c /\ deliveredAt[a]} IN
    /\ completed[c] = Cardinality(done)
    /\ earnings[c] = SumFunction([a \in done |-> fee[a]])

\* A course takes declared transitions only, except where an answer of its
\* courier was checked before somebody else's write and is saved after it:
\* a decline, or an acceptance that crosses it.
OnlyLateAnswersEscapeTheMachine ==
  [][\A a \in Course :
       \/ astatus[a] = "none"
       \/ astatus'[a] = astatus[a]
       \/ can(DELIVERY_TRANSITIONS, astatus[a], astatus'[a])
       \/ a \in declining /\ astatus'[a] = "declined"
       \/ a \in accepting /\ astatus[a] = "declined" /\ astatus'[a] = "accepted"]_vars

\* The bound of the model, not of the code.
CoursesLeft == \E a \in Course : astatus[a] = "none"

\* A ready order without a course, for which some courier is available, is
\* proposed to somebody (unless the order or the couriers change first).
WaitingOrderIsProposed ==
  \A o \in Order :
    (o \in Waiting /\ CoursesLeft /\ available_for(o) # {})
      ~> (o \notin Waiting \/ ~ CoursesLeft \/ available_for(o) = {})

\* A proposal does not stay open for ever: somebody answers or it is closed.
ProposalIsClosed == \A a \in Course : astatus[a] = "offered" ~> astatus[a] # "offered"

\* What the courier is owed is frozen when he accepts.  (Violated: the status
\* route accepts a course without going through accept.)
FeeIsFrozenAtAcceptance == \A a \in Course : Engaged(a) => fee[a] = Fee
=============================================================================
