---------------------------- MODULE OrderLifecycle ----------------------------
(***************************************************************************)
(* What the rest of the platform may rely on about the status of one       *)
(* order: it is born pending and only ever takes a declared transition     *)
(* (apps/orders/states.py).  Every module that writes the status through   *)
(* OrderService.transition_to is shown to implement this specification.    *)
(***************************************************************************)
EXTENDS StateMachines

VARIABLE status

Init == status = "pending"

Advance(target) ==
  /\ can(ORDER_TRANSITIONS, status, target)
  /\ status' = target

Next == \E target \in OrderStatus : Advance(target)

Spec == Init /\ [][Next]_status
=============================================================================
