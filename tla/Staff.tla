-------------------------------- MODULE Staff --------------------------------
(***************************************************************************)
(* The rights of the staff: what an account may do (the permissions of its *)
(* roles, apps/accounts) and where (the restaurants, cities and markets it *)
(* is attached to, apps/restaurants/scoping.py), and the back office that  *)
(* hands both out.                                                         *)
(*                                                                         *)
(* The head office has created the first accounts and does nothing more:   *)
(* every later change comes from an account with a perimeter of its own.   *)
(* A request is checked and then written, and nothing is held in between.  *)
(***************************************************************************)
EXTENDS Naturals, FiniteSets

CONSTANTS
  Account,        \* accounts of the staff
  Role, Permission,
  Restaurant, City, Country,
  city, country,  \* where a restaurant is, where a city is
  Granted,        \* Account -> the rights the head office gave it, as a row
  RolePermissions,\* permissions of the roles at the beginning
  Write,          \* the permission that opens the screens of the staff and of the roles
  MaxChanges      \* bound: requests written

VARIABLES
  staff,          \* Account -> row: roles, restaurants, areas, active
  permissions,    \* Role.permissions
  checked,        \* requests that were checked and not written yet
  changes,        \* requests written
  late            \* a request was written that would not pass its check again

vars == <<staff, permissions, checked, changes, late>>

Area == City \cup Country
StaffRow == [roles : SUBSET Role, restaurants : SUBSET Restaurant, areas : SUBSET Area, active : BOOLEAN]

-----------------------------------------------------------------------------
(* Reading the rights *)

permission_codes(u) == UNION {permissions[r] : r \in staff[u].roles}

has_permission(u, p) == staff[u].active /\ p \in permission_codes(u)

_restaurants_des_perimetres(u) ==
  {r \in Restaurant : city[r] \in staff[u].areas \/ country[city[r]] \in staff[u].areas}

staff_restaurant_ids(u) == staff[u].restaurants \cup _restaurants_des_perimetres(u)

\* The same relation, read from the restaurant.
staff_user_ids_for(r) ==
  {u \in Account : r \in staff[u].restaurants}
    \cup {u \in Account : city[r] \in staff[u].areas \/ country[city[r]] \in staff[u].areas}

\* Whom the receivers of apps/notifications tell about a restaurant.
staff_to_alert(r, p) ==
  {u \in Account : staff[u].active /\ (\E role \in staff[u].roles : p \in permissions[role])
                   /\ u \in staff_user_ids_for(r)}

-----------------------------------------------------------------------------
(* The checks *)

\* An area is covered by an account attached to it or to its country.
Covered(a, u) == a \in staff[u].areas \/ (a \in City /\ country[a] \in staff[u].areas)

\* Mutant: the restaurants are compared, not the markets.
assert_can_manage_Places(actor, target) ==
  /\ permission_codes(target) \subseteq permission_codes(actor)
  /\ staff_restaurant_ids(target) \subseteq staff_restaurant_ids(actor)

assert_can_manage(actor, target) ==
  /\ permission_codes(target) \subseteq permission_codes(actor)
  /\ staff_restaurant_ids(target) \subseteq staff_restaurant_ids(actor)
  /\ \A a \in staff[target].areas : Covered(a, actor)

_assert_within_scope(actor, restaurants) == restaurants \subseteq staff_restaurant_ids(actor)
_assert_areas_within_scope(actor, areas) == \A a \in areas : Covered(a, actor)
_assert_not_escalating(actor, roles) == UNION {permissions[r] : r \in roles} \subseteq permission_codes(actor)

\* StaffViewSet.get_queryset: a colleague of one of one's restaurants.
get_queryset(actor, target) == staff[target].restaurants \cap staff_restaurant_ids(actor) # {}

_assert_dans_ses_droits(actor, codes) == codes \subseteq permission_codes(actor)

\* A role is changed by someone who could change each account that carries it.
on_role_changing(actor, role) ==
  \A u \in Account : role \in staff[u].roles => assert_can_manage(actor, u)

-----------------------------------------------------------------------------
(* The requests: one field of an account, its creation, the codes of a role *)

Request ==
  [by : Account, kind : {"roles"}, of : Account, value : SUBSET Role]
    \cup [by : Account, kind : {"restaurants"}, of : Account, value : SUBSET Restaurant]
    \cup [by : Account, kind : {"areas"}, of : Account, value : SUBSET Area]
    \cup [by : Account, kind : {"active"}, of : Account, value : BOOLEAN]
    \cup [by : Account, kind : {"codes"}, of : Role, value : SUBSET Permission]

\* _assert_grantable, for the field that is sent.
_assert_grantable(q) ==
  /\ q.kind = "roles" => _assert_not_escalating(q.by, q.value)
  /\ q.kind = "restaurants" => _assert_within_scope(q.by, q.value)
  /\ q.kind = "areas" => _assert_areas_within_scope(q.by, q.value)

\* StaffViewSet.perform_update
perform_update(q) ==
  /\ get_queryset(q.by, q.of)
  /\ assert_can_manage(q.by, q.of)
  /\ _assert_grantable(q)

\* RoleViewSet.perform_update
perform_update_role(q) ==
  /\ _assert_dans_ses_droits(q.by, q.value)
  /\ on_role_changing(q.by, q.of)

passes(q) ==
  /\ has_permission(q.by, Write)
  /\ IF q.kind = "codes" THEN perform_update_role(q) ELSE perform_update(q)

\* StaffSerializer.update: an account is saved with all its columns; its roles,
\* restaurants and areas are aligned on the list that was sent.
writes(q) ==
  /\ changes < MaxChanges
  /\ changes' = changes + 1
  /\ IF q.kind = "codes"
     THEN permissions' = [permissions EXCEPT ![q.of] = q.value] /\ UNCHANGED staff
     ELSE staff' = [staff EXCEPT ![q.of][q.kind] = q.value] /\ UNCHANGED permissions

-----------------------------------------------------------------------------
\* One request at a time waits between its check and its writing ...
check(q) ==
  /\ checked = {} /\ changes < MaxChanges
  /\ passes(q)
  /\ checked' = {q}
  /\ UNCHANGED <<staff, permissions, changes, late>>

write(q) ==
  /\ q \in checked
  /\ writes(q)
  /\ late' = (late \/ ~ passes(q))
  /\ checked' = {}

\* ... while others are served.
serve(q) ==
  /\ checked # {}
  /\ passes(q)
  /\ writes(q)
  /\ UNCHANGED <<checked, late>>

\* StaffSerializer.create: a new account with nothing the author could not give.
create(actor, u, row) ==
  /\ ~ staff[u].active /\ staff[u].restaurants = {} /\ staff[u].areas = {} /\ staff[u].roles = {}
  /\ has_permission(actor, Write)
  /\ _assert_not_escalating(actor, row.roles)
  /\ _assert_within_scope(actor, row.restaurants)
  /\ _assert_areas_within_scope(actor, row.areas)
  /\ changes < MaxChanges
  /\ changes' = changes + 1
  /\ staff' = [staff EXCEPT ![u] = row]
  /\ UNCHANGED <<permissions, checked, late>>

\* A role of one's own (RoleViewSet.perform_create) is a role nobody carries yet.
Init ==
  /\ staff = Granted
  /\ permissions = RolePermissions
  /\ checked = {}
  /\ changes = 0
  /\ late = FALSE

Next ==
  \/ \E q \in Request : check(q) \/ serve(q)
  \/ \E q \in checked : write(q)
  \/ \E actor, u \in Account, roles \in SUBSET Role, restaurants \in SUBSET Restaurant :
       create(actor, u, [roles |-> roles, restaurants |-> restaurants, areas |-> {}, active |-> TRUE])

Spec == Init /\ [][Next]_vars

-----------------------------------------------------------------------------
(* Properties *)

GivenPermissions(v) == UNION {RolePermissions[r] : r \in Granted[v].roles}
GivenCovers(v, a) == a \in Granted[v].areas \/ (a \in City /\ country[a] \in Granted[v].areas)
GivenPlaces(v) ==
  Granted[v].restaurants \cup {r \in Restaurant : GivenCovers(v, city[r]) \/ GivenCovers(v, country[city[r]])}

\* "On n'accorde pas une permission qu'on ne detient pas soi-meme": whatever
\* the staff hand to one another, to new accounts and to shared roles, nobody
\* ends up with rights that do not fit in those of one account of the head
\* office's making, permissions and places together; the exception is a request
\* that is written after what it was checked against has changed.
NobodyExceedsTheGrants ==
  ~ late => \A u \in Account : \E v \in Account :
    /\ permission_codes(u) \subseteq GivenPermissions(v)
    /\ staff_restaurant_ids(u) \subseteq GivenPlaces(v)
    /\ \A a \in staff[u].areas : GivenCovers(v, a)

\* staff_to_alert: "les deux lectures doivent designer la meme population":
\* those who are told of a restaurant are those its screens are open to.
AlertedStaffCanOpenIt ==
  /\ staff \in [Account -> StaffRow]
  /\ \A r \in Restaurant, p \in Permission :
       staff_to_alert(r, p) = {u \in Account : has_permission(u, p) /\ r \in staff_restaurant_ids(u)}
=============================================================================
