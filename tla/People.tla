-------------------------------- MODULE People --------------------------------
(***************************************************************************)
(* The side of the customers, one component at a time: accounts, points,   *)
(* subscriptions, the payment gateway, group carts, campaigns and push,    *)
(* live screens, calls, support, tracking, social groups and reviews. The  *)
(* components share no row, so that one specification goes through each of *)
(* them with the others at rest.                                           *)
(***************************************************************************)
EXTENDS Integers, FiniteSets

\* The constants of the components, under names of their own.
CONSTANTS
  Code, Session, ACCOUNT_VERIFICATION_MAX_ATTEMPTS, MaxSecret,     \* Accounts
  EarningOrder, Worth, Cost, MaxCodes, MaxAdjust, MaxExpiries,     \* Points
  Sub, Payment, Period, LastPeriod,                                \* Subscriptions
  Guest, Dish, MaxQuantity,                                        \* GroupCarts
  Person, Sender, MaxText, LastMinute,                             \* Campaigns
  Device, Owner, Recipient, MaxRetries, MaxCrashes,                \* Push
  Publisher, BACKLOG_SIZE, MaxSeq, MaxEpoch,                       \* Realtime
  Customer, Courier, MaxCall, Nobody,                               \* Calls
  Desk, Return, Total, Amount,                                     \* Support
  Place, CLOCK_SKEW_AHEAD, CLOCK_SKEW_BEHIND, TRACKING_MIN_WRITE_SECONDS,
  TRACKING_MIN_WRITE_METERS, Ping, LastSecond, MaxPings,           \* Tracking
  Friend, Creator, max_members, SocialRequest, MaxPosts,           \* Social
  Order, Achievement, condition_value, target_value, points_required, \* Gamification
  Reviewer, Rating, ReviewRequest,                                 \* Reviews
  Txn, Billed, Worker, Claim                                       \* Gateway

VARIABLES
  part,          \* the component the behaviour is about
  account_accoun, codes_accoun, compared, worked, opening, sessions, revoking,
  profile_accoun, rewritten,
  account_points, inactive, ledger, credited, codes_points, adjusted, expiries, reading,
  crossed_points,
  now_subscr, sstatus, ends, pay, due_subscr, overdue,
  host, gstatus, due_groupc, members, lines, asked, selected, ordered,
  clock, campaign, agreed, accepting, inbox, listed,
  owner, note, queue, run, copies, lost_push, crashes,
  counter, there, epoch, issued, again, journal, publisher, lost_realti, stray, socket,
  course_calls, call, request_calls, over,
  ticket, complaint, returns, order, refund, seen,
  now_tracki, course_tracki, rows_tracki, profile_tracki, screen, request_tracki,
  member, member_count, post_social, like, likes_count, comments, comments_count,
  rows_social, request_social,
  worth, created_in, open, delivered, deliveries, account_gamifi, lifetime_earned,
  progress, unlocked, rewards, badge, completed, prizes,
  purchased, review, shown, tx, crossed_review,
  status, invoice, post_gatewa, events

Accounts == INSTANCE Accounts WITH
  account <- account_accoun, codes <- codes_accoun, profile <- profile_accoun

Points == INSTANCE Points WITH
  Order <- EarningOrder, account <- account_points, codes <- codes_points,
  crossed <- crossed_points

Subscriptions == INSTANCE Subscriptions WITH
  MaxTime <- LastPeriod, now <- now_subscr, due <- due_subscr

GroupCarts == INSTANCE GroupCarts WITH
  User <- Guest, due <- due_groupc

Campaigns == INSTANCE Campaigns WITH
  Worker <- Sender, MaxTime <- LastMinute

Push == INSTANCE Push WITH
  User <- Owner, lost <- lost_push

Realtime == INSTANCE Realtime WITH
  lost <- lost_realti

Calls == INSTANCE Calls WITH
  course <- course_calls, request <- request_calls

Support == INSTANCE Support

Tracking == INSTANCE Tracking WITH
  Request <- Ping, MaxTime <- LastSecond, MaxRows <- MaxPings, now <- now_tracki,
  course <- course_tracki, rows <- rows_tracki, profile <- profile_tracki,
  request <- request_tracki

Social == INSTANCE Social WITH
  User <- Friend, Request <- SocialRequest, MaxRows <- MaxPosts, post <- post_social,
  rows <- rows_social, request <- request_social

Gamification == INSTANCE Gamification WITH
  account <- account_gamifi

Reviews == INSTANCE Reviews WITH
  User <- Reviewer, Request <- ReviewRequest, crossed <- crossed_review

Gateway == INSTANCE Gateway WITH
  post <- post_gatewa

\* At least one guess is allowed, and one password.
ASSUME AccountsAssumption ==
  /\ ACCOUNT_VERIFICATION_MAX_ATTEMPTS \in Nat \ {0}
  /\ MaxSecret \in Nat \ {0}

\* The orders are finitely many; what an order is worth and what a reward
\* costs are numbers of points.
ASSUME PointsAssumption ==
  /\ IsFiniteSet(EarningOrder)
  /\ Worth \in Nat
  /\ Cost \in Nat

ASSUME SubscriptionsAssumption ==
  /\ Period \in Nat
  /\ LastPeriod \in Nat \ {0}

\* An achievement takes one order at least.
ASSUME GamificationAssumption ==
  /\ IsFiniteSet(Order) /\ Gamification!NoOne \notin Order
  /\ IsFiniteSet(Achievement)
  /\ condition_value \in [Achievement -> Nat \ {0}]
  /\ target_value \in Nat
  /\ points_required \in Nat

\* The audience of a campaign is finite.
ASSUME CampaignsAssumption ==
  /\ IsFiniteSet(Person)
  /\ MaxText \in Nat \ {0}
  /\ LastMinute \in Nat

\* The backlog keeps one event at least.
ASSUME RealtimeAssumption ==
  /\ BACKLOG_SIZE \in Nat \ {0}
  /\ MaxSeq \in Nat \ {0}

\* Points are numbered along the road; the two thresholds of a row are not 0.
ASSUME TrackingAssumption ==
  /\ Place \subseteq Int
  /\ CLOCK_SKEW_AHEAD \in Nat /\ LastSecond \in Nat
  /\ TRACKING_MIN_WRITE_SECONDS \in Nat \ {0}
  /\ TRACKING_MIN_WRITE_METERS \in Nat \ {0}

\* The absence of a courier is not an account.
ASSUME CallsAssumption == Nobody \notin {Customer} \cup Courier

ASSUME SocialAssumption ==
  /\ IsFiniteSet(Friend) /\ IsFiniteSet(SocialRequest)
  /\ max_members \in Nat \ {0}

\* A review has one star at least.
ASSUME ReviewsAssumption ==
  /\ IsFiniteSet(Reviewer) /\ "none" \notin Reviewer
  /\ Rating \subseteq Nat \ {0}

accountsVars == <<account_accoun, codes_accoun, compared, worked, opening, sessions, revoking,
  profile_accoun, rewritten>>
pointsVars == <<account_points, inactive, ledger, credited, codes_points, adjusted, expiries, reading,
  crossed_points>>
subscriptionsVars == <<now_subscr, sstatus, ends, pay, due_subscr, overdue>>
groupcartVars == <<host, gstatus, due_groupc, members, lines, asked, selected, ordered>>
campaignVars == <<clock, campaign, agreed, accepting, inbox, listed>>
pushVars == <<owner, note, queue, run, copies, lost_push, crashes>>
realtimeVars == <<counter, there, epoch, issued, again, journal, publisher, lost_realti, stray, socket>>
callsVars == <<course_calls, call, request_calls, over>>
supportVars == <<ticket, complaint, returns, order, refund, seen>>
trackingVars == <<now_tracki, course_tracki, rows_tracki, profile_tracki, screen, request_tracki>>
socialVars == <<member, member_count, post_social, like, likes_count, comments, comments_count,
  rows_social, request_social>>
gamificationVars == <<worth, created_in, open, delivered, deliveries, account_gamifi, lifetime_earned,
  progress, unlocked, rewards, badge, completed, prizes>>
reviewsVars == <<purchased, review, shown, tx, crossed_review>>
gatewayVars == <<status, invoice, post_gatewa, events>>
vars == <<part, accountsVars, pointsVars, subscriptionsVars, groupcartVars, campaignVars, pushVars, realtimeVars, callsVars, supportVars, trackingVars, socialVars, gamificationVars, reviewsVars, gatewayVars>>

Init ==
  /\ part \in {"accounts", "points", "subscriptions", "groupcart", "campaign", "push", "realtime", "calls", "support", "tracking", "social", "gamification", "reviews", "gateway"}
  /\ Accounts!Init
  /\ Points!Init
  /\ Subscriptions!Init
  /\ GroupCarts!Init
  /\ Campaigns!Init
  /\ Push!Init
  /\ Realtime!Init
  /\ Calls!Init
  /\ Support!Init
  /\ Tracking!Init
  /\ Social!Init
  /\ Gamification!Init
  /\ Reviews!Init
  /\ Gateway!Init

\* One component moves, the others rest.
Next ==
  \/ part = "accounts" /\ Accounts!Next
     /\ UNCHANGED <<part, pointsVars, subscriptionsVars, groupcartVars, campaignVars, pushVars, realtimeVars, callsVars, supportVars, trackingVars, socialVars, gamificationVars, reviewsVars, gatewayVars>>
  \/ part = "points" /\ Points!Next
     /\ UNCHANGED <<part, accountsVars, subscriptionsVars, groupcartVars, campaignVars, pushVars, realtimeVars, callsVars, supportVars, trackingVars, socialVars, gamificationVars, reviewsVars, gatewayVars>>
  \/ part = "subscriptions" /\ Subscriptions!Next
     /\ UNCHANGED <<part, accountsVars, pointsVars, groupcartVars, campaignVars, pushVars, realtimeVars, callsVars, supportVars, trackingVars, socialVars, gamificationVars, reviewsVars, gatewayVars>>
  \/ part = "groupcart" /\ GroupCarts!Next
     /\ UNCHANGED <<part, accountsVars, pointsVars, subscriptionsVars, campaignVars, pushVars, realtimeVars, callsVars, supportVars, trackingVars, socialVars, gamificationVars, reviewsVars, gatewayVars>>
  \/ part = "campaign" /\ Campaigns!Next
     /\ UNCHANGED <<part, accountsVars, pointsVars, subscriptionsVars, groupcartVars, pushVars, realtimeVars, callsVars, supportVars, trackingVars, socialVars, gamificationVars, reviewsVars, gatewayVars>>
  \/ part = "push" /\ Push!Next
     /\ UNCHANGED <<part, accountsVars, pointsVars, subscriptionsVars, groupcartVars, campaignVars, realtimeVars, callsVars, supportVars, trackingVars, socialVars, gamificationVars, reviewsVars, gatewayVars>>
  \/ part = "realtime" /\ Realtime!Next
     /\ UNCHANGED <<part, accountsVars, pointsVars, subscriptionsVars, groupcartVars, campaignVars, pushVars, callsVars, supportVars, trackingVars, socialVars, gamificationVars, reviewsVars, gatewayVars>>
  \/ part = "calls" /\ Calls!Next
     /\ UNCHANGED <<part, accountsVars, pointsVars, subscriptionsVars, groupcartVars, campaignVars, pushVars, realtimeVars, supportVars, trackingVars, socialVars, gamificationVars, reviewsVars, gatewayVars>>
  \/ part = "support" /\ Support!Next
     /\ UNCHANGED <<part, accountsVars, pointsVars, subscriptionsVars, groupcartVars, campaignVars, pushVars, realtimeVars, callsVars, trackingVars, socialVars, gamificationVars, reviewsVars, gatewayVars>>
  \/ part = "tracking" /\ Tracking!Next
     /\ UNCHANGED <<part, accountsVars, pointsVars, subscriptionsVars, groupcartVars, campaignVars, pushVars, realtimeVars, callsVars, supportVars, socialVars, gamificationVars, reviewsVars, gatewayVars>>
  \/ part = "social" /\ Social!Next
     /\ UNCHANGED <<part, accountsVars, pointsVars, subscriptionsVars, groupcartVars, campaignVars, pushVars, realtimeVars, callsVars, supportVars, trackingVars, gamificationVars, reviewsVars, gatewayVars>>
  \/ part = "gamification" /\ Gamification!Next
     /\ UNCHANGED <<part, accountsVars, pointsVars, subscriptionsVars, groupcartVars, campaignVars, pushVars, realtimeVars, callsVars, supportVars, trackingVars, socialVars, reviewsVars, gatewayVars>>
  \/ part = "reviews" /\ Reviews!Next
     /\ UNCHANGED <<part, accountsVars, pointsVars, subscriptionsVars, groupcartVars, campaignVars, pushVars, realtimeVars, callsVars, supportVars, trackingVars, socialVars, gamificationVars, gatewayVars>>
  \/ part = "gateway" /\ Gateway!Next
     /\ UNCHANGED <<part, accountsVars, pointsVars, subscriptionsVars, groupcartVars, campaignVars, pushVars, realtimeVars, callsVars, supportVars, trackingVars, socialVars, gamificationVars, reviewsVars>>

Spec == Init /\ [][Next]_vars

-----------------------------------------------------------------------------
(* Properties *)

\* A code is accepted once at most, only the last one sent for its purpose
\* can be, and no more guesses than allowed are ever compared with it.
\*
\* After a change or a reset of the password the sessions opened with the
\* former one are closed, except those whose request had proved the former
\* password and received its tokens once the revocation had made its list,
\* and unless a profile update has put a former row back.
AccountsAreGuarded ==
  /\ (part = "accounts" => Accounts!CodesCannotBeGuessed)
  /\ (part = "accounts" => Accounts!SessionsFollowPassword)

\* F1, F2: no code is given for points that were not earned, whatever
\* exchanges, credits and expiries cross, and an order is worth its points
\* once.
\*
\* F5: the journal explains the balance up to the points that moved while the
\* expiry task held its reading; these it erases from the balance and not
\* from the journal.
\*
\* A customer is rewarded once for what was reached, however many deliveries
\* cross, and never for what was not; once the deliveries are over, whoever
\* has reached a threshold with orders worth a point has the achievement and
\* its progress is right, although no transaction sees the orders of another
\* that has not committed (_check_achievements, _lifetime_stats, earn).
RewardsAreEarned ==
  /\ (part = "points" => Points!RewardsAreCovered)
  /\ (part = "points" => Points!LedgerExplainsBalance)
  /\ (part = "gamification" => Gamification!RewardedOnceForWhatWasReached)

\* P4: a period runs because a payment of that very period was settled,
\* however late or disordered the provider answers.
\*
\* due_for_renewal: "une tache qui repasse avant que le webhook precedent
\* soit revenu" opens no second request for the same period.
\*
\* A transaction ends as its own invoice has ended at the provider, whatever
\* the bodies claim and in whatever order answers are applied; one that is
\* settled was not stated to be of another amount (parse, _confirm, _apply).
PaidMeansPaid ==
  /\ (part = "subscriptions" => Subscriptions!PeriodIsPaid)
  /\ (part = "subscriptions" => Subscriptions!OneRequestAtATime)
  /\ (part = "gateway" => Gateway!SettledAsTheProviderSays)

\* A cart gives one order when it is confirmed and none otherwise, and the
\* order holds what the members put in the cart to the last line, whatever
\* request was looked up before the confirmation and is handled after it.
OrderIsTheCart == part = "groupcart" => GroupCarts!OrderIsTheCart

\* A campaign reaches a person once at most, whatever button and tasks cross,
\* and the count of its recipients is that of the messages it has left.
\*
\* A task sends nothing but the text that was scheduled, not before its hour,
\* although it had listed the campaign before it was put off, called back or
\* rewritten.
\*
\* "Reprendre toute la liste ferait vibrer deux fois le telephone de ceux qui
\* avaient recu": a device shows a message twice only if the answer to the
\* first one was lost, or a worker was.
\*
\* A task never lists the devices of another account, even when a retry
\* carries the token of a device that has changed hands since.
SentOnceAndAsAgreed ==
  /\ [](part = "campaign" => Campaigns!CampaignIsSentOnce)
  /\ Campaigns!TaskSendsWhatWasAgreed
  /\ [](part = "push" => Push!ShownOnce)
  /\ Push!OnlyTheRecipientsDevices

\* A client that came back with a number of the current numbering has the
\* very event of every number since, or has it coming, or can tell that it
\* has not: a later one reached it or will, or it was told of a hole.  Two
\* exceptions: a publication that was cut short at that number or later, and
\* a number that a publication numbered by a former counter still bore when
\* this one was created, since the two write under the same key.
\*
\* The rows of a courier's positions are sampled, the relay to the screen is
\* not and follows the order of arrival: whatever positions cross, come late
\* or are cut short, while the course is under way the track has a point near
\* the one on the screen, and a client whose socket falls is not sent back by
\* as much as the sampling interval (OrderTrackingView, latest_for).
ScreensKeepUp ==
  /\ (part = "realtime" => Realtime!CaughtUpOrTold)
  /\ (part = "tracking" => Tracking!FallbackKeepsUp)

\* A ticket is dated as resolved exactly while it is over, and never called
\* resolved without saying how: an answer on a ticket read long ago, a
\* customer's reply and a colleague's decision may cross.
\*
\* What the desk has told the customer is not taken back by a colleague who
\* read the row before: a complaint that was decided stays decided, a return
\* that was refused or refunded stays so, and one that is called refunded had
\* a refund the till recorded as paid.
\*
\* One room at a time: whatever crosses, two placed calls or an answer to a
\* call that is over with the call that followed it, an order never has two
\* active calls, and an active one is between its customer and a courier.
AnswersStand ==
  /\ [](part = "support" => Support!ResolutionIsDated)
  /\ Support!DecisionsAreFinal
  /\ [](part = "calls" => Calls!OneCallAtATime)

\* Whatever requests cross, a member holds a place that is counted, the group
\* is never over its capacity, and a post never shows more likes or comments
\* than it has (join, leave, toggle_like, add_comment).
\*
\* A rating reckoned while nobody else was writing is that of the reviews in
\* sight, whatever was crossed, hidden or rolled back before: the rating
\* heals by itself.  A dish never shows more reviews than it was given, and a
\* review is marked verified only when its author has received the dish
\* (refresh_rating, hide, show, submit).
CountsAreReal ==
  /\ (part = "social" => Social!PlacesAndLikesAreReal)
  /\ (part = "reviews" => Reviews!RatingHeals)

-----------------------------------------------------------------------------
(* The value of condition_value in the small instance of MCPeople.cfg: the *)
(* first achievement takes one order, the second two.                      *)
Thresholds == [a \in Achievement |-> a]
=============================================================================
