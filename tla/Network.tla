------------------------------- MODULE Network -------------------------------
(***************************************************************************)
(* The side of the network, one component at a time: rights of the staff,  *)
(* files and accounts of the couriers, restaurants and their copies, the   *)
(* routes and who is told of what; and what the platform computes over     *)
(* every small input: opening hours, coverage and amounts.                 *)
(***************************************************************************)
EXTENDS Integers, Sequences, FiniteSets

\* The constants of the components, under names of their own.
CONSTANTS
  None,
  Member, Role, Permission, Branch, District, Country, district, country,
  Granted, RolePermissions, Write, MaxChanges,                     \* Staff
  MaxDocument, MaxDay, Worker,                                     \* CourierFile
  Course, Fee, Withdrawal, Score,                                  \* CourierAccount
  Opened, Copied,                                                  \* Restaurants
  Customer, Courier, Clerk, HeadOffice, Establishment, city, Rights, \* Routes
  DayLength, Week, Horizon,                                        \* Hours
  Mapped, Crowded,                                                 \* Coverage
  Amount, Percent, Length, Share, Participants, Stated             \* Amounts

VARIABLES
  part,          \* the component the behaviour is about
  staff, permissions, checked, changes, late,
  file, seen, desk, upload, crossed_courie, today, rows_courie, task, notices,
  delivered, earnings, withdrawals, rating, scores, rated, asking,
  rows_restau, zones_restau, market, lacks, requests, complete, crossed_restau, overtaken,
  clerk, row, on, last,
  kitchen, moment, verdict, reopens,
  zones_covera, kitchens, answer,
  tariff, code, priced, stated, shares

Staff == INSTANCE Staff WITH
  Account <- Member, Restaurant <- Branch, City <- District, city <- district

CourierFile == INSTANCE CourierFile WITH
  crossed <- crossed_courie, rows <- rows_courie

CourierAccount == INSTANCE CourierAccount

\* The establishments of a network n, opened one by one or copied from one
\* another.
Restaurants(n) == INSTANCE Restaurants WITH
  Restaurant <- n.restaurants, Zone <- n.zones, Municipal <- n.municipal,
  Currency <- n.currency, Setting <- n.settings, Desk <- n.desks,
  rows <- rows_restau, zones <- zones_restau, crossed <- crossed_restau

Routes == INSTANCE Announcements WITH
  Restaurant <- Establishment

Hours == INSTANCE Hours

\* The kitchens around an address, a few on a map or a crowd under one zone.
Coverage(n) == INSTANCE Coverage WITH
  Zone <- n.zones, Kitchen <- n.kitchens, City <- n.cities, surface <- n.surface,
  reach <- n.reach, Distance <- n.distances, CANDIDATS_MAX <- n.candidates,
  zones <- zones_covera

Amounts == INSTANCE Amounts WITH
  Distance <- Length

\* Areas are districts or countries, each establishment is in one of them.
ASSUME StaffAssumption ==
  /\ District \cap Country = {}
  /\ district \in [Branch -> District]
  /\ country \in [District -> Country]
  /\ Granted \in [Member -> Staff!StaffRow]
  /\ RolePermissions \in [Role -> SUBSET Permission]

ASSUME CourierFileAssumption == MaxDay \in Nat /\ MaxDocument \in Nat

ASSUME CourierAccountAssumption ==
  /\ IsFiniteSet(Course) /\ IsFiniteSet(Withdrawal)
  /\ Fee \in Nat
  /\ Score \subseteq Nat

\* The clerk, the head office and the visitor are nobody's customer or courier;
\* the rights of the clerk are over restaurants.
ASSUME RoutesAssumption ==
  /\ (Customer \cup Courier) \cap {Clerk, HeadOffice} = {}
  /\ Clerk # HeadOffice
  /\ Routes!Anonymous \notin Customer \cup Courier \cup {Clerk, HeadOffice}
  /\ None \notin Establishment
  /\ \A r \in Rights : r.restaurants \subseteq Establishment

\* A day has one instant at least, and a week one day.
ASSUME HoursAssumption ==
  /\ DayLength \in Nat \ {0} /\ Week \in Nat \ {0}
  /\ Horizon \in Nat

\* The network is finite, "none" is no name in it, and a candidate is looked at.
ASSUME CoverageAssumption ==
  \A n \in {Mapped, Crowded} :
    /\ IsFiniteSet(n.zones) /\ IsFiniteSet(n.kitchens)
    /\ "none" \notin n.zones \cup n.kitchens
    /\ n.surface \in [n.zones -> Nat]
    /\ n.reach \in [n.zones -> Nat]
    /\ n.distances \subseteq Nat
    /\ n.candidates \in Nat \ {0}

\* Amounts and rates are natural numbers, None is no amount.
ASSUME AmountsAssumption ==
  /\ Amount \subseteq Nat /\ Percent \subseteq Nat /\ Length \subseteq Nat
  /\ Share \in Nat
  /\ Participants \subseteq Nat /\ Stated \subseteq Seq(Nat)
  /\ None \notin Nat \cup Amounts!Promotion \cup Amounts!DeliveryZone

staffVars == <<staff, permissions, checked, changes, late>>
courier_fileVars == <<file, seen, desk, upload, crossed_courie, today, rows_courie, task, notices>>
courier_accountVars == <<delivered, earnings, withdrawals, rating, scores, rated, asking>>
restaurantVars == <<rows_restau, zones_restau, market, lacks, requests, complete, crossed_restau, overtaken>>
routesVars == <<clerk, row, on, last>>
hoursVars == <<kitchen, moment, verdict, reopens>>
coverageVars == <<zones_covera, kitchens, answer>>
amountsVars == <<tariff, code, priced, stated, shares>>
vars == <<part, staffVars, courier_fileVars, courier_accountVars, restaurantVars, routesVars, hoursVars, coverageVars, amountsVars>>

Init ==
  /\ part \in {"staff", "courier_file", "courier_account", "restaurant", "copies", "routes", "hours", "coverage", "crowd", "amounts"}
  /\ Staff!Init
  /\ CourierFile!Init
  /\ CourierAccount!Init
  /\ IF part = "copies" THEN Restaurants(Copied)!Init ELSE Restaurants(Opened)!Init
  /\ IF part = "routes" THEN Routes!Init
     ELSE clerk = None /\ row = None /\ on = None /\ last = None
  /\ Hours!Init
  /\ Coverage(Mapped)!Init
  /\ Amounts!Init

\* One component moves, the others rest.
Next ==
  \/ part = "staff" /\ Staff!Next
     /\ UNCHANGED <<part, courier_fileVars, courier_accountVars, restaurantVars, routesVars, hoursVars, coverageVars, amountsVars>>
  \/ part = "courier_file" /\ CourierFile!Next
     /\ UNCHANGED <<part, staffVars, courier_accountVars, restaurantVars, routesVars, hoursVars, coverageVars, amountsVars>>
  \/ part = "courier_account" /\ CourierAccount!Next
     /\ UNCHANGED <<part, staffVars, courier_fileVars, restaurantVars, routesVars, hoursVars, coverageVars, amountsVars>>
  \/ part = "restaurant" /\ Restaurants(Opened)!Next
     /\ UNCHANGED <<part, staffVars, courier_fileVars, courier_accountVars, routesVars, hoursVars, coverageVars, amountsVars>>
  \/ part = "copies" /\ Restaurants(Copied)!Next
     /\ UNCHANGED <<part, staffVars, courier_fileVars, courier_accountVars, routesVars, hoursVars, coverageVars, amountsVars>>
  \/ part = "routes" /\ Routes!NextAnnounced
     /\ UNCHANGED <<part, staffVars, courier_fileVars, courier_accountVars, restaurantVars, hoursVars, coverageVars, amountsVars>>
  \/ part = "hours" /\ Hours!Next
     /\ UNCHANGED <<part, staffVars, courier_fileVars, courier_accountVars, restaurantVars, routesVars, coverageVars, amountsVars>>
  \/ part = "coverage" /\ Coverage(Mapped)!Next
     /\ UNCHANGED <<part, staffVars, courier_fileVars, courier_accountVars, restaurantVars, routesVars, hoursVars, amountsVars>>
  \/ part = "crowd" /\ Coverage(Crowded)!Next
     /\ UNCHANGED <<part, staffVars, courier_fileVars, courier_accountVars, restaurantVars, routesVars, hoursVars, amountsVars>>
  \/ part = "amounts" /\ Amounts!Next
     /\ UNCHANGED <<part, staffVars, courier_fileVars, courier_accountVars, restaurantVars, routesVars, hoursVars, coverageVars>>

Spec == Init /\ [][Next]_vars

-----------------------------------------------------------------------------
(* Properties *)

\* "On n'accorde pas une permission qu'on ne detient pas soi-meme": whatever
\* the staff hand to one another, to new accounts and to shared roles, nobody
\* ends up with rights that do not fit in those of one account of the head
\* office's making, permissions and places together; the exception is a
\* request that is written after what it was checked against has changed.
\*
\* staff_to_alert: "les deux lectures doivent designer la meme population":
\* those who are told of a restaurant are those its screens are open to.
RightsAreGranted ==
  /\ (part = "staff" => Staff!NobodyExceedsTheGrants)
  /\ (part = "staff" => Staff!AlertedStaffCanOpenIt)

\* L5: the document of an approved file is one somebody has looked at, unless
\* an upload had read the file before a decision, or a reviewer decided on a
\* document that was replaced meanwhile.
\*
\* document_reminder_once: a courier hears of an expiry once per threshold,
\* whatever number of tasks run together.
\*
\* A suspension is not lifted by filing documents, and no decision leaves the
\* machine, unless an upload is written over a decision it had not read.
FilesAreRead ==
  /\ [](part = "courier_file" => CourierFile!ApprovedFileWasRead)
  /\ [](part = "courier_file" => CourierFile!RemindedOnce)
  /\ CourierFile!FileFollowsItsMachine

\* What the courier has earned is in the account, asked for or paid, to the
\* unit: nothing is paid twice or given back after it was paid.
\*
\* The average kept by increments is rounded once per rating: after n ratings
\* it is within (n + 1) / 4 hundredths of the mean of the scores, and that
\* error grows with n.
CourierIsOwedWhatWasEarned ==
  /\ (part = "courier_account" => CourierAccount!EarningsAreAccountedFor)
  /\ (part = "courier_account" => CourierAccount!RatingFollowsTheScores)

\* An establishment customers know, in service or suspended, had no gap when
\* it was last put in service, whether it was created or copied, unless its
\* row, its zone, its market or its settings changed under the request that
\* did it.
\*
\* Only a request that crosses another one parts the flag from the status.
\*
\* The status of an establishment follows its machine, and the form never
\* changes it, unless its request had read the row before another was
\* written.
KitchensAreKnownAndComplete ==
  /\ [](part = "copies" => Restaurants(Copied)!KnownKitchenWasComplete)
  /\ [](part = "restaurant" => Restaurants(Opened)!KnownKitchenWasComplete)
  /\ [](part = "restaurant" => Restaurants(Opened)!FlagPartsOnlyWhenCrossed)
  /\ [][/\ part = "restaurant" => Restaurants(Opened)!StatusFollows
        /\ part = "copies" => Restaurants(Copied)!StatusFollows]_vars

\* The clerk writes rows of their perimeter only, and neither brings a row
\* into it nor sends one out of it: over every view of the back office,
\* through whatever chain of requests, with the rights of the moment.
\*
\* What the brand keeps to its head office: markets, ingredients, campaigns,
\* and the codes and rewards that hold everywhere.  A manager who sees a
\* national reward neither changes it nor makes a local one national.
\*
\* A customer or a courier reaches rows of their own only, the shop's windows
\* apart; the visitor who has no account, or no longer an active one, the
\* windows only.
\*
\* An account that may only look leaves notes on what it reads, and changes
\* nothing else that is not its own.
\*
\* What one is told of, one may open: the view of the row answers each
\* recipient, with the rights of the moment.  An alert that is refused when
\* it is followed leads nowhere (staff_to_alert).
EachToTheirOwnRows ==
  /\ Routes!WritesStayInThePerimeter
  /\ Routes!OnlyTheHeadOfficeWritesTheBrand
  /\ Routes!OthersRowsAreClosed
  /\ Routes!ReadersWriteNothing
  /\ [](part = "routes" => Routes!WhoeverIsToldCanOpenIt)

\* A customer may order exactly when the kitchen is in service, on an open
\* market, within its slots and outside its closures, and takes orders: the
\* slot that began yesterday evening included.
\*
\* The reopening a closed kitchen announces is the first instant of service
\* to come within the horizon, and none is announced only if there is none.
OrderableInService ==
  /\ (part = "hours" => Hours!OrderableExactlyInService)
  /\ (part = "hours" => Hours!ReopeningIsTheFirst)

\* A kitchen that was found for an address is one a zone of which covers it,
\* and one is found if there is one: the two queries of the referential, the
\* kitchens that serve a point and the zone a kitchen serves it from, agree.
\* The nearest one that takes orders is found, unless _CANDIDATS_MAX closed
\* ones that serve the address are as near.
\*
\* A zone of another city, or of another kitchen, never prices a delivery.
\*
\* "Evite qu'un ecran annonce desservi et que la commande echoue trois ecrans
\* plus loin": the quote of the order, which rounds, accepts the distance the
\* screen has accepted without rounding it.
FoundKitchenServes ==
  /\ (part = "coverage" => /\ Coverage(Mapped)!FoundKitchenServesThePoint
                           /\ Coverage(Mapped)!PricedFromItsOwnCity
                           /\ Coverage(Mapped)!ServedAddressIsQuoted)
  /\ (part = "crowd" => /\ Coverage(Crowded)!FoundKitchenServesThePoint
                        /\ Coverage(Crowded)!PricedFromItsOwnCity
                        /\ Coverage(Crowded)!ServedAddressIsQuoted)

\* A total is never negative, and a code takes off no more than its maximum,
\* whatever the code, the tariff and the distance.
\*
\* "L'offrir au client ne veut pas dire que le livreur travaille
\* gratuitement": what the courier gets does not depend on the threshold or
\* on the code, and is the rounded share of what the course is worth.
\*
\* The shares of an order are its total, to the last unit, nobody is asked for
\* nothing, and in equal parts two participants differ by one unit at most.
AmountsAdd ==
  /\ (part = "amounts" => Amounts!TotalIsNotNegative)
  /\ (part = "amounts" => Amounts!CourierIsPaidTheCourse)
  /\ (part = "amounts" => Amounts!SharesAreTheTotal)
=============================================================================
