---------------------------- MODULE Subscriptions ----------------------------
(***************************************************************************)
(* Subscriptions of one customer (apps/loyalty/subscriptions.py): opened   *)
(* pending, active once the provider has settled a payment, renewed by an  *)
(* hourly task and closed after a delay of grace.                          *)
(*                                                                         *)
(* renew_due holds no lock between the lists it reads (overdue,            *)
(* due_for_renewal) and what it does with them: expire locks and looks at  *)
(* the status only, _charge looks at nothing.  Celery runs one such task   *)
(* at a time.  Time is counted in periods of grace.                        *)
(***************************************************************************)
EXTENDS StateMachines, Naturals, FiniteSets

CONSTANTS
  Sub,        \* subscriptions the customer may open
  Payment,    \* payment requests
  Period,     \* billing_period_days
  MaxTime     \* bound: the clock

VARIABLES
  now,
  sstatus,    \* Subscription.status, "none" before it exists
  ends,       \* Subscription.current_period_end, 0 when null
  pay,        \* payment requests: status, subscription and period_end
  due,        \* what the task has read and not dealt with yet
  overdue     \* its other list

vars == <<now, sstatus, ends, pay, due, overdue>>

\* apps/loyalty/models.py
SUBSCRIPTION_TRANSITIONS ==
  [ pending   |-> {"active", "cancelled"},
    active    |-> {"cancelled", "expired"},
    cancelled |-> {},
    expired   |-> {} ]

\* SubscriptionPayment with the status of its transaction.
SubscriptionPayment ==
  [status : {"none", "processing", "completed", "failed"}, of : Sub \cup {"nobody"}, until : 0 .. MaxTime + Period]

Opened(s) == {p \in Payment : pay[p].status = "processing" /\ pay[p].of = s}

-----------------------------------------------------------------------------
\* _charge: a request at the provider, for a period that starts now.
_charge(s, p) ==
  /\ pay[p].status = "none"
  /\ pay' = [pay EXCEPT ![p] = [status |-> "processing", of |-> s, until |-> now + Period]]

\* One open subscription per customer (checked, and unique in the database).
subscribe(s, p) ==
  /\ sstatus[s] = "none"
  /\ \A t \in Sub : sstatus[t] \notin {"pending", "active"}
  /\ sstatus' = [sstatus EXCEPT ![s] = "pending"]
  /\ _charge(s, p)
  /\ UNCHANGED <<now, ends, due, overdue>>

cancel(s) ==
  /\ sstatus[s] # "none"
  /\ can(SUBSCRIPTION_TRANSITIONS, sstatus[s], "cancelled")
  /\ sstatus' = [sstatus EXCEPT ![s] = "cancelled"]
  /\ UNCHANGED <<now, ends, pay, due, overdue>>

\* The settled payment opens its period, unless the subscription was closed.
on_payment_settled(p, verdict) ==
  LET s == pay[p].of
      open == verdict = "completed" /\ sstatus[s] \in {"pending", "active"} IN
  /\ sstatus' = [sstatus EXCEPT ![s] = IF open THEN "active" ELSE @]
  /\ ends' = [ends EXCEPT ![s] = IF open THEN pay[p].until ELSE @]

\* The provider notifies; the signal is sent for what it settled.
notified(p, verdict) ==
  /\ pay[p].status = "processing"
  /\ pay' = [pay EXCEPT ![p].status = verdict]
  /\ on_payment_settled(p, verdict)
  /\ UNCHANGED <<now, due, overdue>>

-----------------------------------------------------------------------------
\* The period is over, within the grace, and no request is open.
due_for_renewal ==
  {s \in Sub : sstatus[s] = "active" /\ ends[s] \in {now, now - 1} /\ Opened(s) = {}}

\* The task lists what is past its grace, expires it ...
renew_due ==
  /\ due = {} /\ overdue = {}
  /\ overdue' = {s \in Sub : sstatus[s] = "active" /\ ends[s] + 1 < now}
  /\ UNCHANGED <<now, sstatus, ends, pay, due>>

\* ... and then lists what is to be renewed.
renew_subscriptions ==
  /\ due = {} /\ overdue = {}
  /\ due' = due_for_renewal
  /\ UNCHANGED <<now, sstatus, ends, pay, overdue>>

expire(s) ==
  /\ s \in overdue
  /\ overdue' = overdue \ {s}
  /\ sstatus' = [sstatus EXCEPT ![s] = IF can(SUBSCRIPTION_TRANSITIONS, @, "expired") THEN "expired" ELSE @]
  /\ UNCHANGED <<now, ends, pay, due>>

renew(s, p) ==
  /\ overdue = {} /\ s \in due
  /\ due' = due \ {s}
  /\ _charge(s, p)
  /\ UNCHANGED <<now, sstatus, ends, overdue>>

\* The provider refuses a request: the task stops where it is.
charge_raises(s) ==
  /\ overdue = {} /\ s \in due
  /\ due' = {}
  /\ UNCHANGED <<now, sstatus, ends, pay, overdue>>

tick ==
  /\ now < MaxTime
  /\ now' = now + 1
  /\ UNCHANGED <<sstatus, ends, pay, due, overdue>>

-----------------------------------------------------------------------------
Init ==
  /\ now = 1
  /\ sstatus = [s \in Sub |-> "none"]
  /\ ends = [s \in Sub |-> 0]
  /\ pay = [p \in Payment |-> [status |-> "none", of |-> "nobody", until |-> 0]]
  /\ due = {}
  /\ overdue = {}

Next ==
  \/ \E s \in Sub :
       \/ cancel(s)
       \/ expire(s)
       \/ charge_raises(s)
       \/ \E p \in Payment : subscribe(s, p) \/ renew(s, p)
  \/ \E p \in Payment, verdict \in {"completed", "failed"} : notified(p, verdict)
  \/ renew_due \/ renew_subscriptions
  \/ tick

Spec == Init /\ [][Next]_vars

-----------------------------------------------------------------------------
(* Properties *)

\* P4: a period runs because a payment of that very period was settled, however
\* late or disordered the provider answers.
PeriodIsPaid ==
  /\ \A p \in Payment : pay[p] \in SubscriptionPayment
  /\ \A s \in Sub : sstatus[s] = "active" =>
       \E p \in Payment : pay[p].status = "completed" /\ pay[p].of = s /\ pay[p].until = ends[s]

\* due_for_renewal: "une tache qui repasse avant que le webhook precedent soit
\* revenu" opens no second request for the same period.
OneRequestAtATime == \A s \in Sub : Cardinality(Opened(s)) <= 1
=============================================================================
