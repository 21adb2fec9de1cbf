-------------------------------- MODULE Calls --------------------------------
(***************************************************************************)
(* The calls between the customer of an order and its courier              *)
(* (apps/calls/services.py, models.py, states.py).                         *)
(*                                                                         *)
(* A request looks the call up, and answers, declines or hangs up what it  *)
(* saw: nothing locks the row in between.  One constraint of the database  *)
(* keeps the active calls of an order to one.                              *)
(***************************************************************************)
EXTENDS Naturals, FiniteSets

CONSTANTS
  Customer, Courier,   \* the customer of the order, and the couriers
  MaxCall,             \* bound: calls placed
  Nobody

Account == {Customer} \cup Courier
Call == 1..MaxCall

VARIABLES
  course,   \* the courier of the course under way, or Nobody
  call,     \* the rows
  request,  \* what each account's request is at
  over      \* calls that were over at some time

vars == <<course, call, request, over>>

CALL_TRANSITIONS ==
  [ringing |-> {"accepted", "declined", "missed"}, accepted |-> {"ended"},
   declined |-> {}, ended |-> {}, missed |-> {}]

Active == {"ringing", "accepted"}
NoCall == [status |-> "none", caller |-> Nobody, callee |-> Nobody, answered |-> FALSE]
Idle == [at |-> "idle", id |-> 0, saw |-> NoCall]

is_active(c) == call[c].status \in Active

\* Mutant: the check of place, and no constraint.
one_active_call_per_order_Checked(c) == TRUE

\* The constraint: no other call of the order is active.
one_active_call_per_order(c) == \A d \in Call \ {c} : ~ is_active(d)

-----------------------------------------------------------------------------
\* The course is accepted by a courier, or ends (module Delivery).
CALLABLE_STATUSES(k) ==
  /\ course' = k
  /\ k # course
  /\ UNCHANGED <<call, request, over>>

\* Whom u calls: the other party of the course under way.
callee(u) == IF u = Customer THEN course ELSE Customer

\* place: there is someone to call, and no call that is not over.
place(u) ==
  /\ request[u].at = "idle" /\ course # Nobody /\ u \in {Customer, course}
  /\ \A c \in Call : ~ is_active(c)
  /\ request' = [request EXCEPT ![u] =
       [at |-> "place", id |-> 0,
        saw |-> [status |-> "ringing", caller |-> u, callee |-> callee(u), answered |-> FALSE]]]
  /\ UNCHANGED <<course, call, over>>

\* The row is written, or the constraint refuses it.
created(u) ==
  /\ request[u].at = "place"
  /\ request' = [request EXCEPT ![u] = Idle]
  /\ \E c \in Call :
       /\ call[c] = NoCall /\ \A d \in Call : d < c => call[d] # NoCall
       /\ call' = IF one_active_call_per_order(c) THEN [call EXCEPT ![c] = request[u].saw] ELSE call
  /\ UNCHANGED <<course, over>>

\* get_object: a call one is a party to, as it is now.
get_object(u, c) ==
  /\ request[u].at = "idle" /\ u \in {call[c].caller, call[c].callee}
  /\ request' = [request EXCEPT ![u] = [at |-> "found", id |-> c, saw |-> call[c]]]
  /\ UNCHANGED <<course, call, over>>

\* _transition on what was seen; what is written on the row as it is now,
\* unless the constraint refuses it.
_transition(u, target, answered) ==
  LET r == request[u]
  IN  /\ r.at = "found" /\ target \in CALL_TRANSITIONS[r.saw.status]
      /\ request' = [request EXCEPT ![u] = Idle]
      /\ IF target \in Active => one_active_call_per_order(r.id)
         THEN /\ call' = [call EXCEPT ![r.id].status = target, ![r.id].answered = @ \/ answered]
              /\ over' = IF target \in Active THEN over ELSE over \cup {r.id}
         ELSE UNCHANGED <<call, over>>
      /\ UNCHANGED course

accept(u) == u = request[u].saw.callee /\ _transition(u, "accepted", TRUE)
decline(u) == u = request[u].saw.callee /\ _transition(u, "declined", FALSE)
end(u) == _transition(u, IF request[u].saw.status = "accepted" THEN "ended" ELSE "missed", FALSE)

\* credentials_for only reads; a transition that is not allowed ends the
\* request too.
refused(u) ==
  /\ request[u].at = "found"
  /\ request' = [request EXCEPT ![u] = Idle]
  /\ UNCHANGED <<course, call, over>>

-----------------------------------------------------------------------------
Init ==
  /\ course = Nobody
  /\ call = [c \in Call |-> NoCall]
  /\ request = [u \in Account |-> Idle]
  /\ over = {}

Next ==
  \/ \E k \in Courier \cup {Nobody} : CALLABLE_STATUSES(k)
  \/ \E u \in Account :
       \/ place(u) \/ created(u) \/ accept(u) \/ decline(u) \/ end(u) \/ refused(u)
       \/ \E c \in Call : get_object(u, c)

Spec == Init /\ [][Next]_vars

-----------------------------------------------------------------------------
(* Properties *)

\* One room at a time: whatever crosses, two placed calls or an answer to a
\* call that is over with the call that followed it, an order never has two
\* active calls, and an active one is between its customer and a courier.
OneCallAtATime ==
  \A c \in Call : is_active(c) =>
    /\ \A d \in Call \ {c} : ~ is_active(d)
    /\ {call[c].caller, call[c].callee} \cap Courier # {}
    /\ Customer \in {call[c].caller, call[c].callee}

\* calls/states.py: the issues of a call are terminal, hanging up twice
\* cannot reopen a channel that is closed.
ClosedChannelStaysClosed == \A c \in over : ~ is_active(c)
=============================================================================
