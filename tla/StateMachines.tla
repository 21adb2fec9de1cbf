---------------------------- MODULE StateMachines ----------------------------
(***************************************************************************)
(* The declarative state machines of the backend (common/state_machine.py) *)
(* and the transition tables declared with them.  A machine is the         *)
(* function from a state to the set of states it may move to; its domain   *)
(* is the set of declared states.                                          *)
(***************************************************************************)

\* StateMachine.is_noop: the requested state is the current one.
is_noop(source, target) == source = target

\* StateMachine.can: the transition is declared.
can(machine, source, target) == target \in machine[source]

\* apps/orders/states.py
ORDER_TRANSITIONS ==
  [ pending    |-> {"confirmed", "cancelled"},
    confirmed  |-> {"preparing", "cancelled"},
    preparing  |-> {"ready", "cancelled"},
    ready      |-> {"picked_up", "cancelled"},
    picked_up  |-> {"on_the_way"},
    on_the_way |-> {"delivered"},
    delivered  |-> {},
    cancelled  |-> {} ]

OrderStatus == DOMAIN ORDER_TRANSITIONS

\* apps/payments/models.py
PAYMENT_TRANSITIONS ==
  [ pending    |-> {"processing", "failed", "cancelled"},
    processing |-> {"completed", "failed"},
    completed  |-> {"refunded"},
    refunded   |-> {},
    failed     |-> {},
    cancelled  |-> {} ]

PaymentStatus == DOMAIN PAYMENT_TRANSITIONS

\* apps/delivery/states.py
DELIVERY_TRANSITIONS ==
  [ offered    |-> {"accepted", "declined", "cancelled"},
    accepted   |-> {"picked_up", "cancelled"},
    picked_up  |-> {"on_the_way"},
    on_the_way |-> {"delivered"},
    delivered  |-> {},
    declined   |-> {},
    cancelled  |-> {} ]

DeliveryStatus == DOMAIN DELIVERY_TRANSITIONS

\* The steps during which a courier carries the course, and the last ones.
ENGAGED_STATUSES  == {"accepted", "picked_up", "on_the_way"}
TERMINAL_STATUSES == {"declined", "cancelled", "delivered"}

\* The steps of a course that move its order, and where.
ORDER_STATUS_PROJECTION ==
  [ picked_up |-> "picked_up", on_the_way |-> "on_the_way", delivered |-> "delivered" ]
=============================================================================
