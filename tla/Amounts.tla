------------------------------- MODULE Amounts -------------------------------
(***************************************************************************)
(* The arithmetic of an order (common/money.py, apps/promotions,           *)
(* apps/geography/services.py): integers in minor units, and one rounding, *)
(* half up, wherever a percentage is taken.                                *)
(*                                                                         *)
(* An order is priced once for every tariff, code and distance of the      *)
(* bounded sets, and then shared between its participants                  *)
(* (apps/payments/split.py).                                               *)
(***************************************************************************)
EXTENDS Integers, Sequences, Functions

CONSTANTS
  Amount,         \* amounts in minor units
  Percent,        \* percentages
  Distance,       \* distances in hundredths of a kilometre
  Share,          \* COURIER_FEE_SHARE_PERCENT
  Participants,   \* how many may share an order
  Stated,         \* amounts the participants may give for themselves
  None            \* no amount

VARIABLES
  tariff,         \* the DeliveryZone: base_fee, fee_per_km, free_delivery_threshold
  code,           \* the Promotion: kind, value, max_discount
  priced,         \* the order: subtotal, fee, gross, discount, total, courier
  stated,         \* the amounts the participants gave, if they gave any
  shares          \* what each participant is asked for

vars == <<tariff, code, priced, stated, shares>>

DeliveryZone == [base : Amount, per_km : Amount, threshold : Amount \cup {None}]
Promotion ==
  [kind : {"free_delivery"}, value : {0}, max : Amount \cup {None}]
    \cup [kind : {"fixed"}, value : Amount, max : Amount \cup {None}]
    \cup [kind : {"percentage"}, value : Percent, max : Amount \cup {None}]

\* Money.percentage: ROUND_HALF_UP.
percentage(a, p) == (2 * a * p + 100) \div 200

\* gross: the base fee, and the fee per kilometre times the distance.
gross_fee(t, d) == t.base + percentage(t.per_km, d)

is_free(t, subtotal) == t.threshold # None /\ subtotal >= t.threshold

courier_fee_for(o) == percentage(o.gross, Share)

bounded(brut, payable) == IF brut <= payable THEN brut ELSE payable

\* PromotionService._compute
_compute(c, subtotal, fee) ==
  LET brut == CASE c.kind = "free_delivery" -> fee
                [] c.kind = "fixed" -> c.value
                [] c.kind = "percentage" -> percentage(subtotal, c.value)
      capped == IF c.max # None /\ brut > c.max THEN c.max ELSE brut
  IN  bounded(capped, subtotal + fee)

\* Mutant: the rest is for the first one.
allocate_First(a, w) ==
  LET total == SumFunction(w)
      floor == [i \in DOMAIN w |-> (a * w[i]) \div total]
      rest == a - SumFunction(floor)
  IN  [floor EXCEPT ![1] = @ + rest]

\* Money.allocate: the rest, one unit each, from the first share on.
allocate(a, w) ==
  LET total == SumFunction(w)
      floor == [i \in DOMAIN w |-> (a * w[i]) \div total]
      rest == a - SumFunction(floor)
  IN  [i \in DOMAIN w |-> floor[i] + (IF i <= rest THEN 1 ELSE 0)]

-----------------------------------------------------------------------------
Unpriced == [subtotal |-> 0, fee |-> 0, gross |-> 0, discount |-> 0, total |-> 0, courier |-> 0]

\* A zone has a tariff, ...
set_tariff(t) ==
  /\ tariff = None /\ tariff' = t
  /\ UNCHANGED <<code, priced, stated, shares>>

\* ... the customer has a code or none, ...
set_code(c) ==
  /\ tariff # None /\ code = None /\ priced = Unpriced /\ code' = c
  /\ UNCHANGED <<tariff, priced, stated, shares>>

\* ... and the order is priced: OrderService.quote and create.  A code that
\* takes nothing off is refused.
price(subtotal, d) ==
  LET gross == gross_fee(tariff, d)
      fee == IF is_free(tariff, subtotal) THEN 0 ELSE gross
      discount == IF code = None THEN 0 ELSE _compute(code, subtotal, fee)
      o == [subtotal |-> subtotal, fee |-> fee, gross |-> gross, discount |-> discount,
            total |-> subtotal + fee - discount, courier |-> 0]
  IN  /\ tariff # None /\ priced = Unpriced
      /\ code # None => discount > 0
      /\ priced' = [o EXCEPT !.courier = courier_fee_for(o)]
      /\ UNCHANGED <<tariff, code, stated, shares>>

\* SplitService._allocate without amounts: equal parts, if there is a unit for
\* each; alone, one does not share.
split_equally(n) ==
  /\ priced # Unpriced /\ shares = <<>>
  /\ n >= 2 /\ priced.total >= n
  /\ shares' = allocate(priced.total, [i \in 1 .. n |-> 1])
  /\ UNCHANGED <<tariff, code, priced, stated>>

\* With an amount for each: all of them positive, and their sum the total.
split_as_stated(s) ==
  /\ priced # Unpriced /\ shares = <<>>
  /\ Len(s) >= 2 /\ \A i \in DOMAIN s : s[i] > 0
  /\ SumFunction(s) = priced.total
  /\ stated' = s /\ shares' = s
  /\ UNCHANGED <<tariff, code, priced>>

Init == tariff = None /\ code = None /\ priced = Unpriced /\ stated = <<>> /\ shares = <<>>

Next ==
  \/ \E t \in DeliveryZone : set_tariff(t)
  \/ \E c \in Promotion : set_code(c)
  \/ \E subtotal \in Amount, d \in Distance : price(subtotal, d)
  \/ \E n \in Participants : split_equally(n)
  \/ \E s \in Stated : split_as_stated(s)

Spec == Init /\ [][Next]_vars

-----------------------------------------------------------------------------
(* Properties *)

\* A total is never negative, and a code takes off no more than its maximum,
\* whatever the code, the tariff and the distance.
TotalIsNotNegative ==
  /\ priced.total >= 0
  /\ code # None /\ code.max # None /\ priced # Unpriced => priced.discount <= code.max

\* "L'offrir au client ne veut pas dire que le livreur travaille
\* gratuitement": what the courier gets does not depend on the threshold or on
\* the code, and is the rounded share of what the course is worth.
CourierIsPaidTheCourse ==
  priced # Unpriced =>
    /\ 200 * priced.courier <= 2 * priced.gross * Share + 100
    /\ 200 * priced.courier > 2 * priced.gross * Share - 100

\* The shares of an order are its total, to the last unit, nobody is asked for
\* nothing, and in equal parts two participants differ by one unit at most.
SharesAreTheTotal ==
  shares # <<>> =>
    /\ SumFunction(shares) = priced.total
    /\ \A i \in DOMAIN shares : shares[i] > 0
    /\ stated = <<>> => \A i, j \in DOMAIN shares : shares[i] - shares[j] \in {-1, 0, 1}
=============================================================================
