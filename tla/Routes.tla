------------------------------- MODULE Routes -------------------------------
(***************************************************************************)
(* Who reaches which row through the HTTP API: the views the customers,    *)
(* the couriers and the staff call (apps/*/views.py) and the back office   *)
(* (apps/*/backoffice.py), over the permissions of common/permissions.py   *)
(* and the perimeters of apps/restaurants/scoping.py.                      *)
(*                                                                         *)
(* A request asks for one operation on one row.  A view is the predicate   *)
(* that lets it through: its permission classes, the queryset it looks the *)
(* row up in, and what it asserts of the restaurant the request carries.   *)
(* What the operation then does to the row is the business of the other    *)
(* modules; here a row is its restaurant, its customer and its courier.    *)
(***************************************************************************)
EXTENDS Naturals, FiniteSets

CONSTANTS
  Customer, Courier,   \* accounts
  Clerk, HeadOffice,   \* an account of the staff with a perimeter, and a superuser
  Restaurant, city,    \* restaurants and where they are
  Rights,              \* the rights the clerk may have: role, restaurants, cities, active
  None                 \* no restaurant, no row, no account

Anonymous == "anonymous"
Account == Customer \cup Courier \cup {Clerk, HeadOffice, Anonymous}

VARIABLES
  clerk,   \* the clerk's rights
  row,     \* the row the requests are about, or None
  on,      \* what the row is
  last     \* the request served last

vars == <<clerk, row, on, last>>

-----------------------------------------------------------------------------
(* What each role may do *)

ReadCodes ==
  {"catalog.read", "inventory.read", "recipes.read", "orders.read", "payouts.read", "couriers.read",
   "customers.read", "support.read", "promotions.read", "loyalty.read", "gamification.read",
   "restaurants.read", "analytics.read", "roles.read", "audit.read"}

WriteCodes ==
  {"catalog.write", "inventory.write", "inventory.receive", "inventory.adjust", "inventory.approve",
   "recipes.write", "orders.update_status", "orders.assign_courier", "orders.cancel", "orders.refund",
   "payouts.settle", "couriers.write", "couriers.approve", "couriers.suspend", "customers.block",
   "support.write", "promotions.write", "notifications.send", "loyalty.write", "gamification.write",
   "restaurants.write", "restaurants.operate", "roles.write"}

PERMISSIONS == ReadCodes \cup WriteCodes

\* The roles of the installation, and one an administrator composes to let
\* an account look at everything.
SYSTEM_ROLES(role) ==
  CASE role = "Super Admin" -> PERMISSIONS
    [] role = "Manager" ->
         PERMISSIONS \ {"customers.block", "restaurants.write", "roles.read", "roles.write"}
    [] role = "Opérateur" ->
         {"catalog.read", "inventory.read", "inventory.receive", "inventory.adjust", "recipes.read",
          "orders.read", "orders.update_status", "orders.assign_courier", "couriers.read",
          "customers.read", "support.read", "support.write"}
    [] role = "Reader" -> ReadCodes
    [] OTHER -> {}

-----------------------------------------------------------------------------
(* common/permissions.py and apps/restaurants/scoping.py *)

active_user(u) == u # Anonymous /\ (u = Clerk => clerk.active)

IsCustomer(u) == active_user(u) /\ u \in Customer
IsCourier(u)  == active_user(u) /\ u \in Courier
IsStaff(u)    == active_user(u) /\ u \in {Clerk, HeadOffice}

has_permission(u, code) ==
  active_user(u) /\ (u = HeadOffice \/ (u = Clerk /\ code \in SYSTEM_ROLES(clerk.role)))

\* HasPermission.of, and HasReadWritePermission.of where several codes do.
HasPermission(u, codes) == \E code \in codes : has_permission(u, code)

is_unscoped(u) == u = HeadOffice

staff_restaurant_ids == clerk.restaurants \cup {r \in Restaurant : city[r] \in clerk.cities}

is_in_scope(u, restaurant) == is_unscoped(u) \/ (u = Clerk /\ restaurant \in staff_restaurant_ids)

\* A restaurant is opened, or put in service, by those whose area it is in.
assert_can_open_in_zone(u, restaurant) ==
  is_unscoped(u) \/ (u = Clerk /\ restaurant # None /\ city[restaurant] \in clerk.cities)

-----------------------------------------------------------------------------
(* Shapes the views have in common.  q.to is the restaurant a creation or  *)
(* an update carries.                                                      *)

\* The row is one of those the back office's queryset keeps.
shown(q) == is_in_scope(q.by, row.restaurant)

own(q) == row.customer = q.by
course(q) == row.courier = q.by

\* An operation on a row of one's perimeter that one of the codes opens.
Does(q, ops, codes) == q.op \in ops /\ HasPermission(q.by, codes) /\ shown(q)

\* A row is created in one's perimeter, or moved within it.
Places(q, codes) ==
  /\ HasPermission(q.by, codes)
  /\ is_in_scope(q.by, q.to)
  /\ \/ q.op = "create"
     \/ q.op = "update" /\ shown(q)

\* Rows of the brand: anyone with the code reads, the head office writes.
Siege(q, read, write) ==
  \/ q.op = "read" /\ HasPermission(q.by, read)
  \/ q.op \in {"create", "update"} /\ HasPermission(q.by, write) /\ is_unscoped(q.by)

-----------------------------------------------------------------------------
(* Orders and payments *)

\* A cart is filled by a customer, so that only customers order.
OrderViewSet(q) ==
  \/ q.op = "read" /\ active_user(q.by) /\ own(q)
  \/ q.op \in {"create", "preview"} /\ IsCustomer(q.by)
  \/ q.op = "cancel" /\ IsCustomer(q.by) /\ own(q)

\* A note is left by whoever reads the order.
notes(q) == Does(q, {"notes"}, {"orders.read"})
update_status(q) == Does(q, {"update_status"}, {"orders.update_status"})
cancel(q) == Does(q, {"cancel"}, {"orders.cancel"})

\* The figures of the day and the kitchen's screen.
kitchen(q) == Does(q, {"kitchen"}, {"orders.read"})

ManagedOrderViewSet(q) ==
  Does(q, {"read"}, {"orders.read"}) \/ kitchen(q) \/ notes(q) \/ update_status(q) \/ cancel(q)

InitiatePaymentView(q) == q.op = "pay" /\ IsCustomer(q.by) /\ own(q)
SplitPaymentView(q) == q.op \in {"split", "read"} /\ IsCustomer(q.by) /\ own(q)
RefundView(q) == Does(q, {"refund"}, {"orders.refund"})
OfferAssignmentView(q) == Does(q, {"offer"}, {"orders.assign_courier"})
OrderTrackingView(q) == q.op = "read" /\ active_user(q.by) /\ own(q)

TransactionViewSet(q) ==
  /\ q.op = "read"
  /\ IF IsStaff(q.by) THEN HasPermission(q.by, {"orders.read", "orders.refund"}) /\ shown(q)
     ELSE active_user(q.by) /\ own(q)

WithdrawalView(q) ==
  \/ q.op = "read" /\ IsCourier(q.by) /\ course(q)
  \/ q.op = "create" /\ IsCourier(q.by)

ManagedWithdrawalViewSet(q) ==
  Does(q, {"read"}, {"payouts.read"}) \/ Does(q, {"settle", "reject"}, {"payouts.settle"})

ManagedRefundViewSet(q) ==
  Does(q, {"read"}, {"orders.read"}) \/ Does(q, {"settle", "cancel"}, {"orders.refund"})

-----------------------------------------------------------------------------
(* Couriers and courses *)

\* An application is open to all and names its restaurant.
CourierApplicationView(q) == q.op = "create"
CourierProfileView(q) == q.op \in {"read", "replace_documents", "update_vehicle"} /\ IsCourier(q.by) /\ course(q)
CourierEarningsView(q) == q.op = "read" /\ IsCourier(q.by) /\ course(q)
CourierOnlineView(q) == q.op = "set_online" /\ IsCourier(q.by) /\ course(q)

\* A decision on a file needs the code of its target.
verification(q) ==
  Does(q, {"approve", "reject"}, {"couriers.approve"}) \/ Does(q, {"suspend"}, {"couriers.suspend"})

\* The zones a courier serves, and the couriers free for an order.
zones(q) == Does(q, {"zones"}, {"couriers.write"}) \/ Does(q, {"available"}, {"couriers.read"})

\* Correcting a file does not change its restaurant.
StaffCourierViewSet(q) ==
  \/ Does(q, {"read"}, {"couriers.read"})
  \/ q.op = "create" /\ Places(q, {"couriers.write"})
  \/ Does(q, {"correct"}, {"couriers.write"})
  \/ zones(q) \/ verification(q)

AssignmentViewSet(q) ==
  q.op \in {"read", "accept", "decline", "proof", "update_status"} /\ IsCourier(q.by) /\ course(q)
PingView(q) == q.op = "ping" /\ IsCourier(q.by) /\ course(q)
CancelAssignmentView(q) == Does(q, {"cancel"}, {"orders.assign_courier"})
ManagedAssignmentViewSet(q) == Does(q, {"read"}, {"orders.read"})
OrderRatingView(q) == q.op \in {"read", "rate"} /\ IsCustomer(q.by) /\ own(q)

CourierShiftViewSet(q) ==
  \/ Does(q, {"read"}, {"couriers.read"})
  \/ Places(q, {"couriers.write"})
  \/ Does(q, {"delete"}, {"couriers.write"})

\* Two parties to a call: the customer and a courier of the order.
CallViewSet(q) ==
  q.op \in {"read", "accept", "decline", "end", "rtc_token"} /\ active_user(q.by) /\ (own(q) \/ course(q))
PlaceCallView(q) == q.op = "place" /\ active_user(q.by) /\ (own(q) \/ course(q))

-----------------------------------------------------------------------------
(* Sockets: authorized once, when they are opened (common/consumers.py) *)

\* The customer, the courier and the staff follow an order; the courier
\* alone says where they are.
OrderTrackingConsumer(q) ==
  \/ q.op = "listen" /\ active_user(q.by) /\ (own(q) \/ course(q))
  \/ Does(q, {"listen"}, {"orders.read"})
  \/ q.op = "position" /\ IsCourier(q.by) /\ course(q)
OrderChatConsumer(q) == q.op = "chat" /\ active_user(q.by) /\ (own(q) \/ course(q))
RestaurantDashboardConsumer(q) == Does(q, {"listen"}, {"orders.read"})
CourierFeedConsumer(q) == q.op = "listen" /\ IsCourier(q.by) /\ course(q)
UserFeedConsumer(q) == q.op = "listen" /\ active_user(q.by) /\ own(q)

-----------------------------------------------------------------------------
(* Restaurants and the map *)

RestaurantViewSet(q) == q.op = "read"

\* The list of the console's menu: whoever is on the staff.
perimeter(q) == q.op = "perimeter" /\ IsStaff(q.by) /\ shown(q)

ManagedRestaurantViewSet(q) ==
  \/ Does(q, {"read"}, {"restaurants.read"})
  \/ perimeter(q)
  \/ q.op = "create" /\ HasPermission(q.by, {"restaurants.write"}) /\ assert_can_open_in_zone(q.by, q.to)
  \/ Does(q, {"correct", "close"}, {"restaurants.write"})
  \/ Does(q, {"activate"}, {"restaurants.write"}) /\ assert_can_open_in_zone(q.by, row.restaurant)
  \/ Does(q, {"duplicate"}, {"restaurants.write"}) /\ assert_can_open_in_zone(q.by, q.to)

OPERATION_PERMISSION(q) ==
  \/ Does(q, {"read"}, {"restaurants.read", "restaurants.operate"})
  \/ Places(q, {"restaurants.write", "restaurants.operate"})
  \/ Does(q, {"delete"}, {"restaurants.write", "restaurants.operate"})


ManagedOpeningHoursViewSet(q) == OPERATION_PERMISSION(q)
ManagedKitchenClosureViewSet(q) == OPERATION_PERMISSION(q)
ManagedRestaurantZoneViewSet(q) == OPERATION_PERMISSION(q)

\* Countries, cities and the zones of a city.
_SiegeViewSet(q) == Siege(q, {"restaurants.read"}, {"restaurants.write"})
CountryViewSet(q) == q.op = "read"

AuditEntryViewSet(q) == Does(q, {"read"}, {"audit.read"})

-----------------------------------------------------------------------------
(* The catalogue, the stock and the recipes *)

CategoryViewSet(q) == q.op = "read"
MenuItemViewSet(q) == q.op = "read"

CATALOG_PERMISSION(q) ==
  Does(q, {"read"}, {"catalog.read"}) \/ Places(q, {"catalog.write"}) \/ Does(q, {"delete"}, {"catalog.write"})

ManagedCategoryViewSet(q) == CATALOG_PERMISSION(q) \/ Does(q, {"reorder"}, {"catalog.write"})
ManagedMenuItemViewSet(q) ==
  CATALOG_PERMISSION(q) \/ Does(q, {"stock", "restore", "apply_template"}, {"catalog.write"})

\* Groups, options, sizes and templates reach the restaurant through their item.
ManagedOptionGroupViewSet(q) == CATALOG_PERMISSION(q)
ManagedOptionViewSet(q) == CATALOG_PERMISSION(q)
ManagedVariantViewSet(q) == CATALOG_PERMISSION(q)
ManagedOptionTemplateViewSet(q) == CATALOG_PERMISSION(q)

ReviewViewSet(q) == q.op = "read" \/ (q.op = "create" /\ IsCustomer(q.by))

ManagedReviewViewSet(q) ==
  Does(q, {"read"}, {"catalog.read"}) \/ Does(q, {"hide", "show"}, {"catalog.write"})

ManagedIngredientViewSet(q) == Siege(q, {"inventory.read"}, {"inventory.write"})

receive(q) == Does(q, {"receive"}, {"inventory.receive"})
declare(q) == Does(q, {"waste", "adjust"}, {"inventory.adjust"})

ManagedStockItemViewSet(q) ==
  \/ Does(q, {"read"}, {"inventory.read"})
  \/ q.op = "create" /\ Places(q, {"inventory.write"})
  \/ Does(q, {"threshold"}, {"inventory.write"})
  \/ receive(q) \/ declare(q)

ManagedStockMovementViewSet(q) == Does(q, {"read"}, {"inventory.read"})
ManagedAdjustmentRequestViewSet(q) ==
  Does(q, {"read"}, {"inventory.read"}) \/ Does(q, {"approve", "reject"}, {"inventory.approve"})

\* The target of a recipe never changes.
ManagedRecipeViewSet(q) ==
  \/ Does(q, {"read"}, {"recipes.read"})
  \/ q.op = "create" /\ Places(q, {"recipes.write"})
  \/ Does(q, {"correct", "delete", "lines", "remove_line"}, {"recipes.write"})

-----------------------------------------------------------------------------
(* Customers *)

\* The customer's own things: carts, addresses, preferences, points, plans.
CartViewSet(q) ==
  \/ q.op = "create" /\ IsCustomer(q.by)
  \/ q.op \in {"read", "add_line", "update_line", "remove_line", "clear"} /\ IsCustomer(q.by) /\ own(q)
AddressViewSet(q) ==
  \/ q.op = "create" /\ active_user(q.by)
  \/ q.op \in {"read", "correct", "delete"} /\ active_user(q.by) /\ own(q)
PreferenceView(q) == q.op \in {"read", "correct"} /\ active_user(q.by) /\ own(q)
PointsAccountView(q) == q.op = "read" /\ IsCustomer(q.by) /\ own(q)
PointsEntryViewSet(q) == q.op = "read" /\ IsCustomer(q.by) /\ own(q)
SubscriptionViewSet(q) ==
  \/ q.op = "create" /\ IsCustomer(q.by)
  \/ q.op \in {"read", "cancel"} /\ IsCustomer(q.by) /\ own(q)
NotificationViewSet(q) == q.op \in {"read", "mark_read"} /\ active_user(q.by) /\ own(q)

SupportTicketViewSet(q) ==
  \/ q.op = "create" /\ IsCustomer(q.by)
  \/ q.op \in {"read", "messages"} /\ IsCustomer(q.by) /\ own(q)
ComplaintViewSet(q) ==
  \/ q.op = "create" /\ IsCustomer(q.by)
  \/ q.op = "read" /\ IsCustomer(q.by) /\ own(q)
ReturnRequestViewSet(q) == ComplaintViewSet(q)

\* A ticket has no restaurant: it is nobody's in particular.
ManagedTicketViewSet(q) ==
  \/ q.op = "read" /\ HasPermission(q.by, {"support.read"})
  \/ q.op \in {"reply", "set_status"} /\ HasPermission(q.by, {"support.write"})
ManagedComplaintViewSet(q) ==
  Does(q, {"read"}, {"support.read"}) \/ Does(q, {"decide"}, {"support.write"})
ManagedReturnViewSet(q) == ManagedComplaintViewSet(q)

\* A note is left by whoever reads the customer.
CustomerViewSet(q) ==
  \/ q.op \in {"read", "notes"} /\ HasPermission(q.by, {"customers.read"})
  \/ q.op \in {"block", "unblock"} /\ HasPermission(q.by, {"customers.block"})

\* National codes and rewards are the head office's; a manager sees the
\* rewards, not the codes.
ManagedPromotionViewSet(q) ==
  \/ Does(q, {"read"}, {"promotions.read"})
  \/ Places(q, {"promotions.write"})
RewardViewSet(q) == q.op \in {"read", "redeem"} /\ IsCustomer(q.by)

ManagedRewardViewSet(q) ==
  \/ q.op = "read" /\ HasPermission(q.by, {"loyalty.read"}) /\ (shown(q) \/ row.restaurant = None)
  \/ Places(q, {"loyalty.write"})

\* Achievements, badges and challenges are the brand's, whoever composes them.
_ManagedCatalogViewSet(q) ==
  \/ q.op = "read" /\ HasPermission(q.by, {"gamification.read"})
  \/ q.op \in {"create", "correct"} /\ HasPermission(q.by, {"gamification.write"})
AchievementViewSet(q) == q.op = "read" /\ IsCustomer(q.by)

CampaignViewSet(q) ==
  \/ q.op \in {"read", "stats"} /\ HasPermission(q.by, {"notifications.send"})
  \/ /\ q.op \in {"create", "update", "send", "schedule", "unschedule", "audience"}
     /\ HasPermission(q.by, {"notifications.send"}) /\ is_unscoped(q.by)

-----------------------------------------------------------------------------
(* Reading across rows *)

\* What a report adds up: what was asked for, within what one may see.
resolve_perimetre(q) == shown(q) /\ q.to \in {None, row.restaurant}

RevenueReportView(q) == q.op = "report" /\ HasPermission(q.by, {"analytics.read"}) /\ resolve_perimetre(q)
NetworkReportView(q) == RevenueReportView(q)

\* One customer's figures, in the orders one may see.
CustomerStatsView(q) == q.op = "report" /\ HasPermission(q.by, {"customers.read"}) /\ shown(q)

SearchView(q) == q.op = "search" /\ IsStaff(q.by)

\* The search looks each family up with its own code and perimeter;
\* customers have none.
SearchService(q, code) ==
  SearchView(q) /\ has_permission(q.by, code) /\ (on = "customer" \/ shown(q))

-----------------------------------------------------------------------------
(* The routes: the views of each kind of row *)

Served(q) ==
  \/ on = "order" /\ (\/ OrderViewSet(q) \/ ManagedOrderViewSet(q) \/ InitiatePaymentView(q)
                      \/ SplitPaymentView(q) \/ RefundView(q) \/ OfferAssignmentView(q)
                      \/ OrderTrackingView(q) \/ PlaceCallView(q) \/ RevenueReportView(q)
                      \/ OrderTrackingConsumer(q) \/ OrderChatConsumer(q)
                      \/ NetworkReportView(q) \/ CustomerStatsView(q)
                      \/ SearchService(q, "orders.read"))
  \/ on = "transaction" /\ TransactionViewSet(q)
  \/ on = "withdrawal" /\ (WithdrawalView(q) \/ ManagedWithdrawalViewSet(q))
  \/ on = "refund" /\ ManagedRefundViewSet(q)
  \/ on = "courier" /\ (\/ CourierApplicationView(q) \/ CourierProfileView(q) \/ CourierEarningsView(q)
                        \/ CourierOnlineView(q) \/ StaffCourierViewSet(q) \/ CourierFeedConsumer(q)
                        \/ SearchService(q, "couriers.read"))
  \/ on = "course" /\ (\/ AssignmentViewSet(q) \/ PingView(q) \/ CancelAssignmentView(q)
                       \/ ManagedAssignmentViewSet(q) \/ OrderRatingView(q))
  \/ on = "shift" /\ CourierShiftViewSet(q)
  \/ on = "call" /\ CallViewSet(q)
  \/ on = "restaurant" /\ (RestaurantViewSet(q) \/ ManagedRestaurantViewSet(q) \/ RestaurantDashboardConsumer(q))
  \/ on = "hours" /\ (ManagedOpeningHoursViewSet(q) \/ RestaurantViewSet(q))
  \/ on = "closure" /\ ManagedKitchenClosureViewSet(q)
  \/ on = "zone" /\ ManagedRestaurantZoneViewSet(q)
  \/ on = "market" /\ (_SiegeViewSet(q) \/ CountryViewSet(q))
  \/ on = "audit" /\ AuditEntryViewSet(q)
  \/ on = "category" /\ (CategoryViewSet(q) \/ ManagedCategoryViewSet(q))
  \/ on = "menu_item" /\ (MenuItemViewSet(q) \/ ManagedMenuItemViewSet(q) \/ SearchService(q, "catalog.read"))
  \/ on = "option_group" /\ ManagedOptionGroupViewSet(q)
  \/ on = "option" /\ ManagedOptionViewSet(q)
  \/ on = "variant" /\ ManagedVariantViewSet(q)
  \/ on = "template" /\ ManagedOptionTemplateViewSet(q)
  \/ on = "review" /\ (ReviewViewSet(q) \/ ManagedReviewViewSet(q))
  \/ on = "ingredient" /\ ManagedIngredientViewSet(q)
  \/ on = "stock" /\ ManagedStockItemViewSet(q)
  \/ on = "movement" /\ ManagedStockMovementViewSet(q)
  \/ on = "adjustment" /\ ManagedAdjustmentRequestViewSet(q)
  \/ on = "recipe" /\ ManagedRecipeViewSet(q)
  \/ on = "cart" /\ CartViewSet(q)
  \/ on = "address" /\ AddressViewSet(q)
  \/ on = "preference" /\ PreferenceView(q)
  \/ on = "points" /\ (PointsAccountView(q) \/ PointsEntryViewSet(q))
  \/ on = "subscription" /\ SubscriptionViewSet(q)
  \/ on = "notification" /\ (NotificationViewSet(q) \/ UserFeedConsumer(q))
  \/ on = "ticket" /\ (SupportTicketViewSet(q) \/ ManagedTicketViewSet(q))
  \/ on = "complaint" /\ (ComplaintViewSet(q) \/ ManagedComplaintViewSet(q))
  \/ on = "return" /\ (ReturnRequestViewSet(q) \/ ManagedReturnViewSet(q))
  \/ on = "customer" /\ (CustomerViewSet(q) \/ SearchService(q, "customers.read"))
  \/ on = "promotion" /\ ManagedPromotionViewSet(q)
  \/ on = "reward" /\ (RewardViewSet(q) \/ ManagedRewardViewSet(q))
  \/ on = "achievement" /\ (_ManagedCatalogViewSet(q) \/ AchievementViewSet(q))
  \/ on = "campaign" /\ CampaignViewSet(q)

-----------------------------------------------------------------------------
(* Behaviours *)

National == {"promotion", "reward"}
Brand == {"market", "ingredient", "address", "preference", "points", "subscription", "notification",
          "ticket", "customer", "achievement", "campaign"}
Kitchen == {"order", "transaction", "withdrawal", "refund", "courier", "course", "shift", "call",
            "restaurant", "hours", "closure", "zone", "audit", "category", "menu_item", "option_group",
            "option", "variant", "template", "review", "stock", "movement", "adjustment", "recipe",
            "cart", "complaint", "return"}

\* The restaurants a row of a kind may have.
Place(kind) ==
  (IF kind \in Brand THEN {} ELSE Restaurant) \cup (IF kind \in Kitchen THEN {} ELSE {None})

\* Operations that show something and change nothing, and those of a row
\* that is not there yet or that may move.
Looks == {"read", "kitchen", "available", "preview", "perimeter", "stats", "audience", "report", "search", "rtc_token", "listen"}
Writes ==
  {"create", "update", "delete", "cancel", "notes", "update_status", "pay", "split", "refund", "offer",
   "settle", "reject", "replace_documents", "update_vehicle", "set_online", "correct", "zones", "approve",
   "suspend", "accept", "decline", "proof", "ping", "rate", "end", "place", "close", "activate",
   "duplicate", "reorder", "stock", "restore", "apply_template", "hide", "show", "threshold", "receive",
   "waste", "adjust", "lines", "remove_line", "add_line", "update_line", "clear", "mark_read", "messages",
   "reply", "set_status", "decide", "block", "unblock", "redeem", "send", "schedule", "unschedule", "position", "chat"}

Request == [by : Account, op : Looks \cup Writes, to : Restaurant \cup {None}]

\* A request is served by one of the views of the row's kind.
serve(q) ==
  /\ (row = None) = (q.op \in {"create", "preview"})
  /\ q.op \in {"create", "update"} => q.to \in Place(on)
  /\ q.op \notin {"create", "update", "duplicate", "report"} => q.to = None
  /\ Served(q)
  /\ last' = [by |-> q.by, op |-> q.op]
  /\ CASE q.op = "create" -> \E k \in Courier :
            row' = [restaurant |-> q.to, customer |-> q.by, courier |-> IF q.by \in Courier THEN q.by ELSE k]
       [] q.op = "update" -> row' = [row EXCEPT !.restaurant = q.to]
       [] q.op = "delete" -> row' = None
       [] OTHER -> row' = row
  /\ UNCHANGED <<clerk, on>>

\* The clerk's role, perimeter or account is changed (module Staff).
rights_change(r) ==
  /\ r \in Rights
  /\ clerk' = r
  /\ last' = None
  /\ UNCHANGED <<row, on>>

Init ==
  /\ clerk \in Rights
  /\ on \in Kitchen \cup National \cup Brand
  /\ row \in [restaurant : Place(on), customer : Customer, courier : Courier]
  /\ last = None

Next == (\E q \in Request : serve(q)) \/ (\E r \in Rights : rights_change(r))

Spec == Init /\ [][Next]_vars

-----------------------------------------------------------------------------
(* Properties *)

\* A request that was served in this step.
Step(by, ops) == last' # None /\ last' # last /\ last'.by \in by /\ last'.op \in ops

\* A courier's application names its restaurant, whoever sends it.
Application == on = "courier" /\ row = None

\* The clerk writes rows of their perimeter only, and neither brings a row
\* into it nor sends one out of it: over every view of the back office,
\* through whatever chain of requests, with the rights of the moment.
InThePerimeter ==
  Step({Clerk}, Writes) /\ on \in Kitchen /\ ~ Application
    => \A r \in {row, row'} \ {None} : r.restaurant \in staff_restaurant_ids
WritesStayInThePerimeter == [][InThePerimeter]_vars

\* What the brand keeps to its head office: markets, ingredients, campaigns,
\* and the codes and rewards that hold everywhere.  A manager who sees a
\* national reward neither changes it nor makes a local one national.
ByTheHeadOffice ==
  Step(Account, Writes \ {"redeem"}) /\ on \in National \cup {"market", "ingredient", "campaign"}
    /\ (\E r \in {row, row'} \ {None} : r.restaurant = None)
    => last'.by = HeadOffice
OnlyTheHeadOfficeWritesTheBrand == [][ByTheHeadOffice]_vars

\* What everybody may look at.
Shop == {"restaurant", "hours", "market", "category", "menu_item", "review", "reward", "achievement"}

\* A customer or a courier reaches rows of their own only, the shop's windows
\* apart; the visitor who has no account, or no longer an active one, the
\* windows only.
OnOnesOwnRows ==
  /\ Step(Customer \cup Courier, Looks \cup Writes) /\ row # None /\ on \notin Shop
       => last'.by \in {row.customer, row.courier}
  /\ Step({Anonymous} \cup (IF clerk.active THEN {} ELSE {Clerk}), Looks \cup Writes)
       => Application \/ (on \in Shop /\ last'.op = "read")
OthersRowsAreClosed == [][OnOnesOwnRows]_vars

\* An account that may only look leaves notes on what it reads, and changes
\* nothing else that is not its own.
NothingByReaders ==
  Step({Clerk}, Writes \ {"notes"}) /\ clerk.role = "Reader"
    => Application \/ on \in {"address", "preference", "notification"}
ReadersWriteNothing == [][NothingByReaders]_vars
=============================================================================
