---------------------------- MODULE Gamification ----------------------------
(***************************************************************************)
(* What a delivered order brings its customer besides the meal: points,    *)
(* then achievements, badges and challenges, reckoned anew at each         *)
(* delivery (apps/gamification/services.py, receivers.py).  Several orders *)
(* of one customer may be delivered at once, each in its own transaction.  *)
(*                                                                         *)
(* The receivers of a delivery run in the order of INSTALLED_APPS, inside  *)
(* the transaction that delivers the order: loyalty first, which locks the *)
(* points account when the order is worth a point, gamification next.      *)
(***************************************************************************)
EXTENDS Naturals, FiniteSets

CONSTANTS
  Order,             \* orders of the customer
  Achievement,       \* achievements of the catalogue
  condition_value,   \* orders to be delivered for each of them
  target_value,      \* orders to be delivered for the challenge
  points_required    \* points earned over a lifetime for the badge

VARIABLES
  worth,             \* the points each order brings, 0 for a small one
  created_in,        \* orders created in the window of the challenge
  open,              \* the window of the challenge is not over
  delivered,         \* delivered orders
  deliveries,        \* transactions at work: the orders they have counted
  account,           \* the transaction that locks the points account
  lifetime_earned,   \* of the account
  progress,          \* UserAchievement.progress
  unlocked,          \* achievements unlocked
  rewards,           \* reward lines of the ledger, per achievement
  badge,             \* the badge is unlocked
  completed,         \* the challenge is completed
  prizes             \* its reward lines

vars == <<worth, created_in, open, delivered, deliveries, account, lifetime_earned,
          progress, unlocked, rewards, badge, completed, prizes>>

NoOne == 0
Least(a, b) == IF a < b THEN a ELSE b
Running(o) == deliveries[o] # 0

Init ==
  /\ worth = [o \in Order |-> 0]
  /\ created_in = {}
  /\ open = TRUE
  /\ delivered = {}
  /\ deliveries = [o \in Order |-> 0]
  /\ account = NoOne
  /\ lifetime_earned = 0
  /\ progress = [a \in Achievement |-> 0]
  /\ unlocked = {}
  /\ rewards = [a \in Achievement |-> 0]
  /\ badge = FALSE
  /\ completed = FALSE
  /\ prizes = 0

-----------------------------------------------------------------------------

\* Mutant: the points are credited without a lock on the account.
earn_Unlocked(o, points) == UNCHANGED account

\* LoyaltyService.earn: an order worth a point waits for the account.
earn(o, points) ==
  IF points = 0 THEN UNCHANGED account
  ELSE account = NoOne /\ account' = o

\* The order is delivered in its transaction, and _lifetime_stats counts it
\* with those the other transactions have committed.  What it is worth and
\* whether it was created in the window is told once it is at the door.
on_order_delivered(o, points, in_window) ==
  /\ ~Running(o)
  /\ o \notin delivered
  /\ earn(o, points)
  /\ worth' = [worth EXCEPT ![o] = points]
  /\ created_in' = IF in_window THEN created_in \cup {o} ELSE created_in \ {o}
  /\ deliveries' = [deliveries EXCEPT ![o] = Cardinality(delivered) + 1]
  /\ UNCHANGED <<open, delivered, lifetime_earned, progress, unlocked, rewards, badge,
                 completed, prizes>>

\* _check_achievements: the progress is written over, a reward goes with the
\* row that turns from locked to unlocked.
_check_achievements(stats) ==
  LET now == {a \in Achievement : stats >= condition_value[a]} \ unlocked
  IN  /\ progress' = [a \in Achievement |-> Least(stats, condition_value[a])]
      /\ unlocked' = unlocked \cup now
      /\ rewards' = [a \in Achievement |-> rewards[a] + (IF a \in now THEN 1 ELSE 0)]

\* _check_badges, before the challenges: what these add counts next time.
_check_badges(earned) ==
  badge' = (badge \/ (earned > 0 /\ earned >= points_required))

_stats_in_window(o) == Cardinality((delivered \cup {o}) \cap created_in)

\* _check_challenges: while its window is open.
_check_challenges(o) ==
  LET done == open /\ _stats_in_window(o) >= target_value
  IN  /\ completed' = (completed \/ done)
      /\ prizes' = prizes + (IF done /\ ~completed THEN 1 ELSE 0)

\* LoyaltyService.adjust locks the account too: a reward waits for it.
commits(o) ==
  /\ Running(o)
  /\ _check_achievements(deliveries[o])
  /\ _check_challenges(o)
  /\ (rewards' = rewards /\ prizes' = prizes) \/ account \in {NoOne, o}
  /\ LET earned == lifetime_earned + worth[o]
                     + Cardinality({a \in Achievement : rewards'[a] > rewards[a]})
     IN  /\ _check_badges(earned)
         /\ lifetime_earned' = earned + (prizes' - prizes)
  /\ delivered' = delivered \cup {o}
  /\ deliveries' = [deliveries EXCEPT ![o] = 0]
  /\ account' = IF account = o THEN NoOne ELSE account
  /\ UNCHANGED <<worth, created_in, open>>

\* The transaction fails: the order is not delivered, nothing is kept.
rolls_back(o) ==
  /\ Running(o)
  /\ deliveries' = [deliveries EXCEPT ![o] = 0]
  /\ account' = IF account = o THEN NoOne ELSE account
  /\ UNCHANGED <<worth, created_in, open, delivered, lifetime_earned, progress, unlocked,
                 rewards, badge, completed, prizes>>

window_ends ==
  /\ open
  /\ open' = FALSE
  /\ UNCHANGED <<worth, created_in, delivered, deliveries, account, lifetime_earned,
                 progress, unlocked, rewards, badge, completed, prizes>>

Next ==
  \/ \E o \in Order :
       \/ \E points \in {0, 1}, in_window \in BOOLEAN : on_order_delivered(o, points, in_window)
       \/ commits(o) \/ rolls_back(o)
  \/ window_ends

Spec == Init /\ [][Next]_vars

-----------------------------------------------------------------------------
(* Properties *)

\* A customer is rewarded once for what was reached, however many deliveries
\* cross, and never for what was not; once the deliveries are over, whoever
\* has reached a threshold with orders worth a point has the achievement and
\* its progress is right, although no transaction sees the orders of another
\* that has not committed (_check_achievements, _lifetime_stats, earn).
RewardedOnceForWhatWasReached ==
  /\ \A a \in Achievement : rewards[a] = IF a \in unlocked THEN 1 ELSE 0
  /\ \A a \in unlocked : Cardinality(delivered) >= condition_value[a]
  /\ prizes = IF completed THEN 1 ELSE 0
  /\ completed => Cardinality(delivered \cap created_in) >= target_value
  /\ badge => lifetime_earned >= points_required
  /\ (\A o \in Order : ~Running(o)) /\ (\A o \in delivered : worth[o] > 0)
       => \A a \in Achievement :
            progress[a] = Least(Cardinality(delivered), condition_value[a])
              /\ (a \in unlocked <=> Cardinality(delivered) >= condition_value[a])
=============================================================================
