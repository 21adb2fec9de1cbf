----------------------------- MODULE Restaurants -----------------------------
(***************************************************************************)
(* The life of the establishments in the back office                       *)
(* (apps/restaurants/backoffice.py and models.py, apps/geography).         *)
(*                                                                         *)
(* A request reads the row with its zone, its market and its opening       *)
(* hours; it is judged on what it has read; it writes later what was       *)
(* decided, without a lock or a transaction: a status request its own      *)
(* columns, a correction of the form every column.                         *)
(***************************************************************************)
EXTENDS StateMachines, Naturals, FiniteSets

CONSTANTS
  Restaurant, Zone,
  Municipal,       \* the zone of the city
  Currency,        \* Zone -> currency of its country
  Setting,         \* what a restaurant needs: "opening_hours", "staff", "catalog"
  Desk             \* requests that may be under way together

VARIABLES
  rows,         \* Restaurant: status, is_active, zone
  zones,        \* DeliveryZone: owner ("city" when municipal, "absent" without
                \* a row), and the restaurants its contour covers while it is active
  market,       \* Country.is_active and City.is_active
  lacks,        \* settings a restaurant is without
  requests,     \* Desk -> what its request is about, what it has read and decided
  complete,     \* restaurants that had no gap when they were put in service
  crossed,      \* restaurants written from a row that had changed meanwhile
  overtaken     \* restaurants put in service when what was judged had changed

vars == <<rows, zones, market, lacks, requests, complete, crossed, overtaken>>
setup == <<zones, market, lacks>>
history == <<complete, crossed, overtaken>>

RESTAURANT_TRANSITIONS ==
  [ draft       |-> {"configuring"},
    configuring |-> {"draft", "ready"},
    ready       |-> {"configuring", "active"},
    active      |-> {"inactive"},
    inactive    |-> {"active", "configuring"} ]

KNOWN_TO_CUSTOMERS == {"active", "inactive"}

NoRow == [status |-> "none", active |-> FALSE, zone |-> "none"]
NoZone == [owner |-> "absent", covers |-> {}]
NoSetup == [zone |-> NoZone, market |-> FALSE, lacks |-> {}]
Idle == [kind |-> "none", at |-> "idle", of |-> "none", row |-> NoRow, read |-> NoSetup, to |-> "none"]
Exists(r) == rows[r].status # "none"

\* A zone of its city, or one of its own.
zone_anchoring_problem(zone, r) == zone.owner \notin {"city", r}

\* What a restaurant is judged on, as it stands.
SetupOf(r) == [zone |-> zones[rows[r].zone], market |-> market, lacks |-> lacks[r]]

\* What is missing before the restaurant can be put in service.
configuration_gaps(r, read) ==
  \/ r \notin read.zone.covers
  \/ zone_anchoring_problem(read.zone, r)
  \/ ~ read.market
  \/ read.lacks # {}

-----------------------------------------------------------------------------
\* ManagedRestaurantViewSet.perform_create
perform_create(r, z) ==
  /\ ~ Exists(r) /\ ~ zone_anchoring_problem(zones[z], r)
  /\ rows' = [rows EXCEPT ![r] = [NoRow EXCEPT !.status = "draft", !.zone = z]]
  /\ UNCHANGED <<setup, requests, history>>

\* The copy is a draft.
duplicated(source, z) == [NoRow EXCEPT !.status = "draft", !.zone = z]

\* The sections asked for are copied, if both markets have one currency.
duplicate(source, r, z, sections) ==
  /\ Exists(source) /\ ~ Exists(r) /\ zones[z].owner = "city"
  /\ sections # {} => Currency[rows[source].zone] = Currency[z]
  /\ rows' = [rows EXCEPT ![r] = duplicated(source, z)]
  /\ lacks' = [lacks EXCEPT ![r] = (@ \ sections) \cup (lacks[source] \cap sections)]
  /\ UNCHANGED <<zones, market, requests, history>>

\* get_object: a request on the form, or on the status, with what the query
\* of the view joins to the row.
get_object(d, r, kind) ==
  /\ requests[d] = Idle /\ Exists(r)
  /\ requests' = [requests EXCEPT ![d] =
                    [Idle EXCEPT !.kind = kind, !.at = "read", !.of = r, !.row = rows[r],
                                 !.read = IF kind = "status" THEN SetupOf(r) ELSE NoSetup]]
  /\ UNCHANGED <<rows, setup, history>>

\* validate_zone: the zone the form gives.
validate_zone(d, z) ==
  LET q == requests[d] IN
  /\ q.kind = "update" /\ q.at = "read"
  /\ z # q.row.zone => ~ zone_anchoring_problem(zones[z], q.of)
  /\ requests' = [requests EXCEPT ![d].at = "judged", ![d].to = z]
  /\ UNCHANGED <<rows, setup, history>>

\* The opening hours came with the row; the staff and the registry of
\* readiness are asked as the gaps are looked for.
asked(q) ==
  [q.read EXCEPT !.lacks = (q.read.lacks \cap {"opening_hours"}) \cup (lacks[q.of] \ {"opening_hours"})]

publishable(q) == ~ configuration_gaps(q.of, asked(q))

\* Mutant: any status may be asked for.
declared_Any(q, target) == q.row.status # target

declared(q, target) == can(RESTAURANT_TRANSITIONS, q.row.status, target)

\* transition_to: the machine, and the gaps.
transition_to(d, target) ==
  LET q == requests[d] IN
  /\ q.kind = "status" /\ q.at = "read"
  /\ declared(q, target)
  /\ target = "active" => publishable(q)
  /\ requests' = [requests EXCEPT ![d].at = "judged", ![d].to = target,
                                           ![d].read = IF target = "active" THEN asked(q) ELSE NoSetup]
  /\ UNCHANGED <<rows, setup, history>>

\* The request is refused, or its process ends.
refused(d) ==
  /\ requests[d] # Idle
  /\ requests' = [requests EXCEPT ![d] = Idle]
  /\ UNCHANGED <<rows, setup, history>>

Crossing(q) == IF q.row # rows[q.of] THEN crossed \cup {q.of} ELSE crossed

\* perform_update: serializer.save() writes every column of the row it holds,
\* the status and the flag too, if the zone is still there.
perform_update(d) ==
  LET q == requests[d] IN
  /\ q.kind = "update" /\ q.at = "judged" /\ zones[q.to].owner # "absent"
  /\ rows' = [rows EXCEPT ![q.of] = [status |-> q.row.status, active |-> q.row.status = "active", zone |-> q.to]]
  /\ crossed' = Crossing(q)
  /\ requests' = [requests EXCEPT ![d] = Idle]
  /\ UNCHANGED <<setup, complete, overtaken>>

\* Restaurant.save(update_fields=["status"]): the flag is one of the columns
\* if it differs in the row the request holds.
saved(q) ==
  IF q.row.active # (q.to = "active")
  THEN [rows[q.of] EXCEPT !.status = q.to, !.active = q.to = "active"]
  ELSE [rows[q.of] EXCEPT !.status = q.to]

\* The columns are written, whatever has become of the row and of the rest.
save(d) ==
  LET q == requests[d] IN
  /\ q.kind = "status" /\ q.at = "judged"
  /\ rows' = [rows EXCEPT ![q.of] = saved(q)]
  /\ crossed' = Crossing(q)
  /\ IF q.to = "active"
     THEN /\ complete' = IF configuration_gaps(q.of, SetupOf(q.of)) THEN complete \ {q.of} ELSE complete \cup {q.of}
          /\ overtaken' = IF q.read # SetupOf(q.of) THEN overtaken \cup {q.of} ELSE overtaken
     ELSE UNCHANGED <<complete, overtaken>>
  /\ requests' = [requests EXCEPT ![d] = Idle]
  /\ UNCHANGED setup

-----------------------------------------------------------------------------
\* ManagedOpeningHoursViewSet, StaffViewSet and the registry of readiness: a
\* setting is made, or undone.
configure(r, s) ==
  /\ Exists(r)
  /\ lacks' = [lacks EXCEPT ![r] = IF s \in @ THEN @ \ {s} ELSE @ \cup {s}]
  /\ UNCHANGED <<rows, zones, market, requests, history>>

\* ManagedRestaurantZoneViewSet: a zone of its own ...
create_zone(z, r) ==
  /\ zones[z].owner = "absent" /\ Exists(r)
  /\ zones' = [zones EXCEPT ![z] = [owner |-> r, covers |-> Restaurant]]
  /\ UNCHANGED <<rows, market, lacks, requests, history>>

\* ... given to another restaurant, closed or drawn again.
update_zone(z, r, covers) ==
  /\ zones[z].owner \in Restaurant /\ Exists(r)
  /\ zones' = [zones EXCEPT ![z] = [owner |-> r, covers |-> covers]]
  /\ UNCHANGED <<rows, market, lacks, requests, history>>

\* A zone that carries an establishment is not deleted.
perform_destroy(z) ==
  /\ zones[z].owner \in Restaurant
  /\ \A r \in Restaurant : rows[r].zone # z
  /\ zones' = [zones EXCEPT ![z] = NoZone]
  /\ UNCHANGED <<rows, market, lacks, requests, history>>

\* ManagedCountryViewSet: the head office closes the market, or opens it again.
update_market ==
  /\ market' = ~ market
  /\ UNCHANGED <<rows, zones, lacks, requests, history>>

-----------------------------------------------------------------------------
Init ==
  /\ rows = [r \in Restaurant |-> NoRow]
  /\ zones = [z \in Zone |-> IF z = Municipal THEN [owner |-> "city", covers |-> Restaurant] ELSE NoZone]
  /\ market = TRUE
  /\ lacks = [r \in Restaurant |-> Setting]
  /\ requests = [d \in Desk |-> Idle]
  /\ complete = {} /\ crossed = {} /\ overtaken = {}

Next ==
  \/ \E r \in Restaurant :
       \/ \E z \in Zone : perform_create(r, z)
       \/ \E source \in Restaurant \ {r}, z \in Zone, sections \in SUBSET (Setting \ {"staff"}) :
            duplicate(source, r, z, sections)
       \/ \E d \in Desk, kind \in {"update", "status"} : get_object(d, r, kind)
       \/ \E s \in Setting : configure(r, s)
  \/ \E d \in Desk :
       \/ \E z \in Zone : validate_zone(d, z)
       \/ \E target \in DOMAIN RESTAURANT_TRANSITIONS : transition_to(d, target)
       \/ perform_update(d) \/ save(d) \/ refused(d)
  \/ \E z \in Zone :
       \/ \E r \in Restaurant : create_zone(z, r)
       \/ \E r \in Restaurant, covers \in {{}, Restaurant} : update_zone(z, r, covers)
       \/ perform_destroy(z)
  \/ update_market

Spec == Init /\ [][Next]_vars

-----------------------------------------------------------------------------
(* Properties *)

\* "Maintient is_active aligne sur status [...] pour toute ecriture": what the
\* applications see is the status.  Two requests that have read one row break
\* it: the second one does not write the flag, which the first one changed.
PublishedFlagFollowsStatus == \A r \in Restaurant : rows[r].active = (rows[r].status = "active")

\* Only a request that crosses another one parts the flag from the status.
FlagPartsOnlyWhenCrossed ==
  \A r \in Restaurant : rows[r].active = (rows[r].status = "active") \/ r \in crossed

\* An establishment customers know, in service or suspended, had no gap when
\* it was last put in service, whether it was created or copied, unless its row,
\* its zone, its market or its settings changed under the request that did it.
KnownKitchenWasComplete ==
  \A r \in Restaurant :
    rows[r].status \in KNOWN_TO_CUSTOMERS => r \in complete \cup crossed \cup overtaken

\* What a step may do to the status of an establishment.
StatusFollows ==
  \A r \in Restaurant :
    \/ rows'[r].status = rows[r].status
    \/ rows[r].status = "none" /\ rows'[r].status = "draft"
    \/ rows[r].status # "none" /\ can(RESTAURANT_TRANSITIONS, rows[r].status, rows'[r].status)
    \/ r \in crossed'

\* The status of an establishment follows its machine, and the form never
\* changes it, unless its request had read the row before another was written.
StatusFollowsItsMachine == [][StatusFollows]_vars
=============================================================================
