-------------------------------- MODULE Hours --------------------------------
(***************************************************************************)
(* When a kitchen takes orders, and when it will again                     *)
(* (apps/restaurants/models.py and availability.py).                       *)
(*                                                                         *)
(* Time is counted in hours of the kitchen's own clock: a day has DayLength *)
(* of them, a week Week days.  A question is put to every kitchen of the   *)
(* bounded sets, and its answer compared with the instants the slots and   *)
(* the closures are made of.                                               *)
(***************************************************************************)
EXTENDS Integers, FiniteSets

CONSTANTS
  DayLength,      \* instants of a day
  Week,           \* days of a week
  Horizon         \* horizon_days of next_opening

VARIABLES
  kitchen,        \* the kitchen the question is about
  moment,         \* and the moment
  verdict,        \* KitchenState.unavailability, "none" for an orderable kitchen
  reopens         \* KitchenState.reopens_at, -1 for none

vars == <<kitchen, moment, verdict, reopens>>

Day == 0 .. DayLength - 1
weekday(t) == (t \div DayLength) % Week
time(t) == t % DayLength

\* opening_hours_not_empty
OpeningHours == {s \in [weekday : 0 .. Week - 1, opens : Day, closes : Day] : s.opens # s.closes}
\* kitchen_closure_ends_after_start
KitchenClosure ==
  {c \in [starts : 0 .. Week * DayLength, ends : 0 .. (Week + Horizon) * DayLength] : c.ends > c.starts}

crosses_midnight(s) == s.closes < s.opens

\* Mutant: the slots of the day only.
is_open_at_Today(k, t) ==
  \E s \in k.slots :
    s.weekday = weekday(t) /\ s.opens <= time(t) /\ (crosses_midnight(s) \/ time(t) < s.closes)

\* A slot of the day, or the end of one of yesterday's.
is_open_at(k, t) ==
  \E s \in k.slots :
    \/ s.weekday = weekday(t) /\ s.opens <= time(t) /\ (crosses_midnight(s) \/ time(t) < s.closes)
    \/ s.weekday = (weekday(t) + Week - 1) % Week /\ crosses_midnight(s) /\ time(t) < s.closes

closures_after(k, t) == {c \in k.closures : c.ends > t}

closure_at(k, t) == \E c \in closures_after(k, t) : c.starts <= t /\ t < c.ends

\* Now, the end of a closure, the opening of a slot.
candidats(k, t) ==
  {t}
  \cup {c.ends : c \in closures_after(k, t)}
  \cup UNION {{d * DayLength + s.opens : s \in {s \in k.slots : s.weekday = d % Week}} :
                d \in (t \div DayLength) - 1 .. (t \div DayLength) + Horizon}

\* The first candidate that is open and in no closure, -1 without one.
next_opening(k, t) ==
  LET ouverts == {c \in candidats(k, t) : /\ t <= c /\ c <= t + Horizon * DayLength
                                          /\ is_open_at(k, c) /\ ~ closure_at(k, c)} IN
  IF ouverts = {} THEN -1 ELSE CHOOSE c \in ouverts : \A d \in ouverts : c <= d

\* KitchenState.unavailability: the first reason, in this order.
unavailability(k, t) ==
  CASE ~ k.market \/ k.status \notin {"active", "inactive"} -> "kitchen_unpublished"
    [] k.status = "inactive" -> "kitchen_suspended"
    [] closure_at(k, t) -> "kitchen_temporarily_closed"
    [] ~ is_open_at(k, t) -> "kitchen_closed"
    [] ~ k.accepts -> "kitchen_paused"
    [] OTHER -> "none"

-----------------------------------------------------------------------------
\* Two slots and no closure, or a slot and a closure.
WeeklyKitchens ==
  [ status : {"active", "inactive", "ready"}, market : BOOLEAN, accepts : BOOLEAN,
    slots : {{}} \cup {{s, z} : s, z \in OpeningHours}, closures : {{}} ]
ClosingKitchens ==
  [ status : {"active"}, market : {TRUE}, accepts : {TRUE},
    slots : {{s} : s \in OpeningHours}, closures : {{c} : c \in KitchenClosure} ]
Kitchens == WeeklyKitchens \cup ClosingKitchens

Unopened == [status |-> "draft", market |-> TRUE, accepts |-> TRUE, slots |-> {}, closures |-> {}]

\* A kitchen is configured.
configured(k) ==
  /\ kitchen = Unopened
  /\ kitchen' = k
  /\ UNCHANGED <<moment, verdict, reopens>>

\* kitchen_state: the reopening is looked for when the kitchen is closed.
kitchen_state(t) ==
  /\ kitchen # Unopened /\ verdict = "unasked"
  /\ moment' = t
  /\ verdict' = unavailability(kitchen, t)
  /\ reopens' = IF closure_at(kitchen, t) \/ ~ is_open_at(kitchen, t) THEN next_opening(kitchen, t) ELSE -1
  /\ UNCHANGED kitchen

Init == kitchen = Unopened /\ moment = 0 /\ verdict = "unasked" /\ reopens = -1
Next ==
  \/ \E k \in Kitchens : configured(k)
  \/ \E t \in 0 .. Week * DayLength - 1 : kitchen_state(t)

Spec == Init /\ [][Next]_vars

-----------------------------------------------------------------------------
(* Properties *)

\* The instants of a slot, week after week, as the manager means them: from
\* its opening to its closing, on the next day if that comes first.
SlotInstants(s) ==
  UNION {LET day == (w * Week + s.weekday) * DayLength IN
         day + s.opens .. day + s.closes + (IF crosses_midnight(s) THEN DayLength ELSE 0) - 1 :
           w \in -1 .. Horizon + 1}

ServiceInstants(k) ==
  (UNION {SlotInstants(s) : s \in k.slots}) \ (UNION {c.starts .. c.ends - 1 : c \in k.closures})

\* A customer may order exactly when the kitchen is in service, on an open
\* market, within its slots and outside its closures, and takes orders: the
\* slot that began yesterday evening included.
OrderableExactlyInService ==
  verdict # "unasked" =>
    (verdict = "none" <=>
       kitchen.status = "active" /\ kitchen.market /\ kitchen.accepts /\ moment \in ServiceInstants(kitchen))

\* The reopening a closed kitchen announces is the first instant of service to
\* come within the horizon, and none is announced only if there is none.
ReopeningIsTheFirst ==
  verdict \in {"kitchen_temporarily_closed", "kitchen_closed"} =>
    LET coming == ServiceInstants(kitchen) \cap (moment .. moment + Horizon * DayLength) IN
    IF coming = {} THEN reopens = -1 ELSE reopens \in coming /\ \A t \in coming : reopens <= t
=============================================================================
