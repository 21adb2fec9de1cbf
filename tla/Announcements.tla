---------------------------- MODULE Announcements ----------------------------
(***************************************************************************)
(* Who is told of what (apps/notifications/receivers.py), beside the views *)
(* that open it (module Routes).                                           *)
(*                                                                         *)
(* A receiver runs in the transaction of what it announces, and names its  *)
(* recipients: the row's customer, its courier, the staff of its           *)
(* restaurant that a permission entitles.  What is written and when is     *)
(* left out; the way to the devices is module Push.                        *)
(***************************************************************************)
EXTENDS Routes

\* An active member of the staff who has the permission in the perimeter of
\* the restaurant, and every superuser.
staff_to_alert(permission) ==
  {HeadOffice} \cup {u \in {Clerk} : clerk.active /\ has_permission(u, permission)
                                /\ row.restaurant \in staff_restaurant_ids}

TheCustomer == {row.customer}
TheCourier == {row.courier}

-----------------------------------------------------------------------------
(* Orders, payments and courses *)

CUSTOMER_ANNOUNCEMENTS == {"confirmed", "on_the_way", "delivered", "cancelled"}
STAFF_ANNOUNCEMENTS == {"confirmed", "cancelled"}
OrderStatus == CUSTOMER_ANNOUNCEMENTS \cup {"preparing", "ready", "picked_up"}

on_order_status_changed(target) == IF target \in CUSTOMER_ANNOUNCEMENTS THEN TheCustomer ELSE {}
on_order_created_for_staff == staff_to_alert("orders.read")
on_order_status_changed_for_staff(target) ==
  IF target \in STAFF_ANNOUNCEMENTS THEN staff_to_alert("orders.read") ELSE {}
on_payment_failed == TheCustomer \cup staff_to_alert("orders.read")

\* Money the order did not call for: it is cancelled, or paid already.
on_payment_to_refund(called) == IF called THEN {} ELSE staff_to_alert("orders.read")
on_refund_settled == TheCustomer
on_assignment_accepted == TheCustomer
on_assignment_offered == TheCourier
on_assignment_cancelled == TheCourier

-----------------------------------------------------------------------------
(* Couriers and restaurants *)

\* Mutant: the staff that handles the orders.
on_withdrawal_requested_Orders == staff_to_alert("orders.read")

on_withdrawal_requested == staff_to_alert("payouts.read")
on_withdrawal_settled == TheCourier
on_withdrawal_failed == TheCourier

LIFECYCLE_ANNOUNCEMENTS == {"active", "inactive", "configuring", "ready"}
on_restaurant_status_changed(target) ==
  IF target \in LIFECYCLE_ANNOUNCEMENTS THEN staff_to_alert("restaurants.read") ELSE {}

on_document_expiring == TheCourier \cup staff_to_alert("couriers.read")

_DECISIONS_DE_DOSSIER == {"approved", "rejected", "suspended"}
on_verification_decided(status) == IF status \in _DECISIONS_DE_DOSSIER THEN TheCourier ELSE {}

-----------------------------------------------------------------------------
(* Support *)

on_ticket_answered == TheCustomer
on_ticket_status_changed(status) == IF status = "resolved" THEN TheCustomer ELSE {}
on_complaint_filed == staff_to_alert("support.read")
on_complaint_decided == TheCustomer
on_return_requested == staff_to_alert("support.read")
on_return_decided(status) == IF status \in {"approved", "rejected", "refunded"} THEN TheCustomer ELSE {}

-----------------------------------------------------------------------------
(* What happens to a row, and who is told *)

Told ==
  CASE on = "order" ->
         {on_order_created_for_staff, on_payment_failed, on_refund_settled, on_assignment_accepted}
         \cup {on_order_status_changed(t) \cup on_order_status_changed_for_staff(t) : t \in OrderStatus}
         \cup {on_payment_to_refund(called) : called \in BOOLEAN}
    [] on = "course" -> {on_assignment_offered, on_assignment_cancelled}
    [] on = "withdrawal" -> {on_withdrawal_requested, on_withdrawal_settled, on_withdrawal_failed}
    [] on = "restaurant" ->
         {on_restaurant_status_changed(t) : t \in LIFECYCLE_ANNOUNCEMENTS \cup {"draft"}}
    [] on = "courier" ->
         {on_document_expiring} \cup {on_verification_decided(s) : s \in _DECISIONS_DE_DOSSIER \cup {"pending"}}
    [] on = "ticket" ->
         {on_ticket_answered} \cup {on_ticket_status_changed(s) : s \in {"in_progress", "resolved"}}
    [] on = "complaint" -> {on_complaint_filed, on_complaint_decided}
    [] on = "return" ->
         {on_return_requested} \cup {on_return_decided(s) : s \in {"pending", "approved", "rejected", "refunded"}}
    [] OTHER -> {}

\* Something happens to the row, and its receivers tell who it concerns.
announce ==
  /\ row # None
  /\ \E told \in Told : last' = [by |-> Anonymous, op |-> "announce", told |-> told]
  /\ UNCHANGED <<clerk, row, on>>

NextAnnounced == Next \/ announce

SpecAnnounced == Init /\ [][NextAnnounced]_vars

-----------------------------------------------------------------------------
(* Property *)

\* What one is told of, one may open: the view of the row answers each
\* recipient, with the rights of the moment.  An alert that is refused when
\* it is followed leads nowhere (staff_to_alert).
WhoeverIsToldCanOpenIt ==
  last # None /\ last.op = "announce" =>
    \A u \in last.told : Served([by |-> u, op |-> "read", to |-> None])
=============================================================================
