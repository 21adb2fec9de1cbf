------------------------------ MODULE GroupCarts ------------------------------
(***************************************************************************)
(* A cart that several people fill until its host confirms it as one order *)
(* (apps/groupcarts).  Every service locks the row of the cart first; what *)
(* is read before that lock is the line a request is about (the view looks *)
(* it up) and the carts the expiry task goes through.                      *)
(*                                                                         *)
(* One cart.  A line is a member and a selection of a dish with its        *)
(* options; two identical selections of a member are one line.             *)
(***************************************************************************)
EXTENDS StateMachines, Naturals, Sequences

CONSTANTS
  User, Dish,
  MaxQuantity    \* bound: quantity of a line

VARIABLES
  host,        \* GroupCart.host, "nobody" before the cart is opened
  gstatus,     \* GroupCart.status, "none" before the cart is opened
  due,         \* closes_at is past
  members,     \* rows of GroupCartMember
  lines,       \* quantity of a line, 0 when it has no row
  asked,       \* requests about a line the view has found
  selected,    \* the expiry task has the cart in its list
  ordered      \* what the orders created from the cart hold, in order

vars == <<host, gstatus, due, members, lines, asked, selected, ordered>>

\* apps/groupcarts/states.py
GROUP_CART_TRANSITIONS ==
  [ open      |-> {"locked", "cancelled", "expired"},
    locked    |-> {"confirmed", "cancelled", "expired"},
    confirmed |-> {},
    cancelled |-> {},
    expired   |-> {} ]

\* Mutant: a cart that waits for its confirmation is forgotten.
EXPIRABLE_OpenOnly == {"open"}

EXPIRABLE == {"open", "locked"}

GroupCartLine == User \X Dish
NoLines == [l \in GroupCartLine |-> 0]

\* What a member may ask of a line: another quantity, or its removal.
QuantitySerializer == 1 .. MaxQuantity
LineRequest == [by : User, line : GroupCartLine, quantity : QuantitySerializer \cup {0}]

-----------------------------------------------------------------------------
_assert_contributable == gstatus = "open" /\ ~ due

_assert_host(u) == u = host

\* A line is changed by its owner or by the host.
_assert_may_touch(u, line) == u \in {line[1], host}

\* The routes of a cart only find the carts one is a member of.
get_queryset(u) == u \in members

-----------------------------------------------------------------------------
open(u) ==
  /\ gstatus = "none"
  /\ gstatus' = "open"
  /\ host' = u
  /\ members' = {u}
  /\ UNCHANGED <<due, lines, asked, selected, ordered>>

\* The deadline passes.
closes_at ==
  /\ gstatus # "none" /\ ~ due
  /\ due' = TRUE
  /\ UNCHANGED <<host, gstatus, members, lines, asked, selected, ordered>>

join(u) ==
  /\ _assert_contributable
  /\ members' = members \cup {u}
  /\ UNCHANGED <<host, gstatus, due, lines, asked, selected, ordered>>

\* An identical line of the member takes the quantity.
add_line(u, d, q) ==
  /\ get_queryset(u)
  /\ _assert_contributable
  /\ lines[<<u, d>>] + q <= MaxQuantity
  /\ lines' = [lines EXCEPT ![<<u, d>>] = @ + q]
  /\ UNCHANGED <<host, gstatus, due, members, asked, selected, ordered>>

\* The view finds the line of a request before the cart is locked; a client
\* sends one at a time.
_line(r) ==
  /\ get_queryset(r.by)
  /\ lines[r.line] > 0
  /\ \A s \in asked : s.by # r.by
  /\ asked' = asked \cup {r}
  /\ UNCHANGED <<host, gstatus, due, members, lines, selected, ordered>>

\* Mutant: the state of the cart was looked at when the line was found.
set_quantity_Trusting(r) ==
  /\ r \in asked /\ r.quantity > 0
  /\ _assert_may_touch(r.by, r.line)
  /\ lines' = [lines EXCEPT ![r.line] = r.quantity]
  /\ asked' = asked \ {r}
  /\ UNCHANGED <<host, gstatus, due, members, selected, ordered>>

set_quantity(r) ==
  /\ r \in asked /\ r.quantity > 0
  /\ _assert_contributable
  /\ _assert_may_touch(r.by, r.line)
  /\ lines' = [lines EXCEPT ![r.line] = r.quantity]
  /\ asked' = asked \ {r}
  /\ UNCHANGED <<host, gstatus, due, members, selected, ordered>>

\* The other requests about the row that disappears have nothing left to write.
remove_line(r) ==
  /\ r \in asked /\ r.quantity = 0
  /\ _assert_contributable
  /\ _assert_may_touch(r.by, r.line)
  /\ lines' = [lines EXCEPT ![r.line] = 0]
  /\ asked' = {s \in asked : s.line # r.line}
  /\ UNCHANGED <<host, gstatus, due, members, selected, ordered>>

\* A request that is refused, or whose process is lost.
refused(r) ==
  /\ r \in asked
  /\ asked' = asked \ {r}
  /\ UNCHANGED <<host, gstatus, due, members, lines, selected, ordered>>

_transition(target) ==
  /\ gstatus # "none"
  /\ \/ is_noop(gstatus, target) \/ can(GROUP_CART_TRANSITIONS, gstatus, target)
  /\ gstatus' = target
  /\ UNCHANGED <<host, due, members, lines, asked, ordered>>

lock(u)   == _assert_host(u) /\ _transition("locked") /\ UNCHANGED selected
cancel(u) == _assert_host(u) /\ _transition("cancelled") /\ UNCHANGED selected

\* An open cart is locked on the way; whatever the creation of the order
\* refuses (an empty cart to begin with) rolls everything back.  The deadline
\* is not looked at.
confirm(u) ==
  /\ _assert_host(u)
  /\ gstatus \in {"open", "locked"}
  /\ can(GROUP_CART_TRANSITIONS, "locked", "confirmed")
  /\ \E l \in GroupCartLine : lines[l] > 0
  /\ gstatus' = "confirmed"
  /\ ordered' = Append(ordered, lines)
  /\ UNCHANGED <<host, due, members, lines, asked, selected>>

\* The task lists the carts that are due ...
expire_group_carts ==
  /\ gstatus \in EXPIRABLE /\ due /\ ~ selected
  /\ selected' = TRUE
  /\ UNCHANGED <<host, gstatus, due, members, lines, asked, ordered>>

\* ... and closes each one under its lock, unless it was closed meanwhile.
expire_due ==
  /\ selected
  /\ selected' = FALSE
  /\ IF gstatus \in EXPIRABLE
     THEN _transition("expired")
     ELSE UNCHANGED <<host, gstatus, due, members, lines, asked, ordered>>

-----------------------------------------------------------------------------
Init ==
  /\ host = "nobody"
  /\ gstatus = "none"
  /\ due = FALSE
  /\ members = {}
  /\ lines = NoLines
  /\ asked = {}
  /\ selected = FALSE
  /\ ordered = <<>>

Next ==
  \/ \E u \in User :
       \/ open(u)
       \/ join(u)
       \/ lock(u)
       \/ cancel(u)
       \/ confirm(u)
       \/ \E d \in Dish, q \in QuantitySerializer : add_line(u, d, q)
  \/ closes_at
  \/ \E r \in LineRequest : _line(r) \/ set_quantity(r) \/ remove_line(r) \/ refused(r)
  \/ expire_group_carts
  \/ expire_due

Spec == Init /\ [][Next]_vars

\* Celery beat runs expire_group_carts every few minutes, and a task that
\* started goes through its list.
Fairness == WF_vars(expire_group_carts) /\ WF_vars(expire_due)

-----------------------------------------------------------------------------
(* Properties *)

\* A cart gives one order when it is confirmed and none otherwise, and the
\* order holds what the members put in the cart to the last line, whatever
\* request was looked up before the confirmation and is handled after it.
OrderIsTheCart ==
  /\ gstatus = "confirmed" => ordered = <<lines>>
  /\ gstatus # "confirmed" => ordered = <<>>

\* Once its deadline is past, a cart does not stay open to its members' money:
\* it is confirmed, cancelled or expired.
DueCartIsClosed ==
  (gstatus \in {"open", "locked"} /\ due) ~> gstatus \in {"confirmed", "cancelled", "expired"}
=============================================================================
