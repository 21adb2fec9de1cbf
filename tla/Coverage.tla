------------------------------ MODULE Coverage ------------------------------
(***************************************************************************)
(* Who delivers at an address, from which zone and at what price           *)
(* (apps/restaurants/delivery.py, apps/geography/resolution.py and         *)
(* services.py).  The question is put once for every map of the bounded    *)
(* sets: zones that cover the address or not, kitchens near it.            *)
(*                                                                         *)
(* Distances are in metres, and what a zone reaches in hundredths of a     *)
(* kilometre, to which the quote rounds: half to even.                     *)
(***************************************************************************)
EXTENDS Integers, FiniteSets

CONSTANTS
  Zone, Kitchen, City,
  surface,        \* Zone -> area of its contour, all different
  reach,          \* Zone -> max_distance_km
  Distance,       \* distances of the kitchens
  CANDIDATS_MAX   \* kitchens that are looked at for an address

VARIABLES
  zones,          \* Zone -> city, owner ("city" when municipal), covering, priority
  kitchens,       \* Kitchen -> city, state, distance
  answer          \* what check_delivery says: kitchen, zone, reason, distance

vars == <<zones, kitchens, answer>>

\* covering: the contour covers the address, and zone, city and country are active.
DeliveryZone == [city : City, owner : Kitchen \cup {"city"}, covering : BOOLEAN, priority : 0 .. 1]
\* "unpublished" stands for a kitchen or a market that is not active.
Restaurant == [city : City, state : {"orderable", "closed", "unpublished"}, distance : Distance]

covering_zones == {z \in Zone : zones[z].covering}

municipales(city) == {z \in covering_zones : zones[z].owner = "city" /\ zones[z].city = city}

eligible(k) == municipales(kitchens[k].city) \cup {z \in covering_zones : zones[z].owner = k}

\* order_by("-propre", "-priority", "surface")
Before(z, y) ==
  LET propre(x) == IF zones[x].owner = "city" THEN 0 ELSE 1 IN
  \/ propre(z) > propre(y)
  \/ propre(z) = propre(y) /\ zones[z].priority > zones[y].priority
  \/ propre(z) = propre(y) /\ zones[z].priority = zones[y].priority /\ surface[z] <= surface[y]

\* resolve_zone, "none" when nothing covers the address.
resolve_zone(k) ==
  IF eligible(k) = {} THEN "none" ELSE CHOOSE z \in eligible(k) : \A y \in eligible(k) : Before(z, y)

\* Mutant: a zone of its own covers the whole city.
_desservantes_Own ==
  {k \in Kitchen : /\ kitchens[k].state # "unpublished"
                   /\ \/ \E z \in covering_zones : zones[z].city = kitchens[k].city
                      \/ \E z \in covering_zones : zones[z].owner = k}

\* The kitchens of a city whose own zones cover the address, and those a zone
\* of theirs covers it for.
_desservantes ==
  {k \in Kitchen : /\ kitchens[k].state # "unpublished"
                   /\ \/ \E z \in covering_zones : zones[z].owner = "city" /\ zones[z].city = kitchens[k].city
                      \/ \E z \in covering_zones : zones[z].owner = k}

Nearest(S) == {k \in S : \A l \in S : kitchens[k].distance <= kitchens[l].distance}

\* order_by("vers")[:_CANDIDATS_MAX]: the nearest, those as near in any order.
Candidates ==
  {C \in SUBSET _desservantes :
     /\ Cardinality(C) <= CANDIDATS_MAX
     /\ C # _desservantes => Cardinality(C) = CANDIDATS_MAX
     /\ \A k \in C, l \in _desservantes \ C : kitchens[k].distance <= kitchens[l].distance}

orderable(C) == {k \in C : kitchens[k].state = "orderable"}

\* Of the candidates, the nearest one that takes orders, or the nearest one.
_cuisine_pour_le_point ==
  IF _desservantes = {} THEN {"none"}
  ELSE UNION {Nearest(IF orderable(C) # {} THEN orderable(C) ELSE C) : C \in Candidates}

\* Decimal.quantize("0.01") of a distance in kilometres.
quantized(d) ==
  LET up == d % 10 > 5 \/ (d % 10 = 5 /\ (d \div 10) % 2 = 1)
  IN  d \div 10 + (IF up THEN 1 ELSE 0)

\* quote_delivery refuses what is too far, once it is rounded.
quote_delivery(z, d) == IF quantized(d) > reach[z] THEN "too_far" ELSE "none"

out_of_reach(z, d) == d > 10 * reach[z]

\* check_delivery, for the kitchen asked for or the one it has found.
check_delivery(asked, k) ==
  LET z == IF k = "none" THEN "none" ELSE resolve_zone(k)
      d == IF k = "none" THEN 0 ELSE kitchens[k].distance
  IN  [ asked |-> asked, kitchen |-> k, zone |-> z, distance |-> d,
        reason |-> IF k = "none" THEN "no_kitchen_available"
                   ELSE IF z = "none" THEN "address_not_served"
                   ELSE IF out_of_reach(z, d) THEN "too_far"
                   ELSE "none" ]

-----------------------------------------------------------------------------
NoAnswer == [asked |-> "none", kitchen |-> "none", zone |-> "none", distance |-> 0, reason |-> "unasked"]

drawn(map) ==
  /\ answer = NoAnswer /\ kitchens = <<>> /\ zones = <<>>
  /\ zones' = map
  /\ UNCHANGED <<kitchens, answer>>

opened(fleet) ==
  /\ answer = NoAnswer /\ kitchens = <<>> /\ zones # <<>>
  /\ kitchens' = fleet
  /\ UNCHANGED <<zones, answer>>

ask(asked) ==
  /\ answer = NoAnswer /\ kitchens # <<>>
  /\ \E k \in IF asked = "none" THEN _cuisine_pour_le_point ELSE {asked} :
       answer' = check_delivery(asked, k)
  /\ UNCHANGED <<zones, kitchens>>

Init == zones = <<>> /\ kitchens = <<>> /\ answer = NoAnswer
Next ==
  \/ \E map \in [Zone -> DeliveryZone] : drawn(map)
  \/ \E fleet \in [Kitchen -> Restaurant] : opened(fleet)
  \/ \E k \in Kitchen \cup {"none"} : ask(k)

Spec == Init /\ [][Next]_vars

-----------------------------------------------------------------------------
(* Properties *)

\* The kitchen that is found takes orders and is no farther than any that
\* serves the address and takes orders, unless a whole page of closed ones
\* that serve it are as near as that one.
FoundAhead(k) ==
  \/ kitchens[answer.kitchen].state = "orderable" /\ kitchens[answer.kitchen].distance <= kitchens[k].distance
  \/ CANDIDATS_MAX <= Cardinality({l \in Kitchen : /\ kitchens[l].state = "closed" /\ resolve_zone(l) # "none"
                                                   /\ kitchens[l].distance <= kitchens[k].distance})

\* A kitchen that was found for an address is one a zone of which covers it,
\* and one is found if there is one: the two queries of the referential, the
\* kitchens that serve a point and the zone a kitchen serves it from, agree.
\* The nearest one that takes orders is found, but for the cut of the
\* candidates.
FoundKitchenServesThePoint ==
  answer.asked = "none" /\ answer # NoAnswer =>
    /\ answer.kitchen # "none" => answer.zone # "none"
    /\ \A k \in Kitchen : kitchens[k].state # "unpublished" /\ resolve_zone(k) # "none" =>
         /\ answer.kitchen # "none"
         /\ kitchens[k].state = "orderable" => FoundAhead(k)

\* A zone of another city, or of another kitchen, never prices a delivery.
PricedFromItsOwnCity ==
  answer.zone # "none" =>
    \/ zones[answer.zone].owner = answer.kitchen
    \/ zones[answer.zone].owner = "city" /\ zones[answer.zone].city = kitchens[answer.kitchen].city

\* "Evite qu'un ecran annonce desservi et que la commande echoue trois ecrans
\* plus loin": the quote of the order, which rounds, accepts the distance the
\* screen has accepted without rounding it.
ServedAddressIsQuoted ==
  answer.reason = "none" => quote_delivery(answer.zone, answer.distance) = "none"
=============================================================================
