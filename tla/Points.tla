------------------------------- MODULE Points -------------------------------
(***************************************************************************)
(* The points of one customer (apps/loyalty/services.py): a balance, a     *)
(* journal of movements, and rewards turned into promotion codes.          *)
(*                                                                         *)
(* earn and adjust lock the account; _spend is one conditional UPDATE; the *)
(* expiry task is neither: expire_points reads the account in its loop and *)
(* expire_inactive writes the balance it computed from that reading.       *)
(***************************************************************************)
EXTENDS Integers, FiniteSets

CONSTANTS
  Order,         \* orders the customer may be delivered
  Worth,         \* points_for(order.total)
  Cost,          \* Reward.points_cost
  MaxCodes,      \* bound: rewards exchanged
  MaxAdjust,     \* bound: manual adjustments
  MaxExpiries    \* bound: expiries

VARIABLES
  account,       \* balance, lifetime_earned, lifetime_spent of PointsAccount
  inactive,      \* last_activity_at is older than the horizon of expire_points
  ledger,        \* sum of the deltas of PointsEntry
  credited,      \* orders with an EARNED entry, and how many they have
  codes,         \* promotion codes minted
  adjusted,      \* number of adjustments
  expiries,      \* number of EXPIRED entries
  reading,       \* the balance the expiry task has read, -1 when it has none
  crossed        \* points moved by others between that reading and its write

vars == <<account, inactive, ledger, credited, codes, adjusted, expiries, reading, crossed>>

PointsAccount == [balance : Nat, earned : Nat, spent : Nat]

-----------------------------------------------------------------------------
\* _move with a credit: the balance, the total earned, the activity, an entry.
_move(delta) ==
  /\ account' = [account EXCEPT !.balance = @ + delta, !.earned = @ + delta]
  /\ ledger' = ledger + delta
  /\ inactive' = FALSE

\* The order is delivered; the receiver may be called again.
earn(o) ==
  /\ credited[o] = 0
  /\ _move(Worth)
  /\ credited' = [credited EXCEPT ![o] = @ + 1]
  /\ UNCHANGED <<codes, adjusted, expiries, reading, crossed>>

adjust ==
  /\ adjusted < MaxAdjust
  /\ _move(1)
  /\ adjusted' = adjusted + 1
  /\ UNCHANGED <<credited, codes, expiries, reading, crossed>>

_spend ==
  /\ account.balance >= Cost
  /\ account' = [account EXCEPT !.balance = @ - Cost, !.spent = @ + Cost]
  /\ ledger' = ledger - Cost
  /\ inactive' = FALSE

\* The points become a code of one use.
_mint_code == codes < MaxCodes /\ codes' = codes + 1

redeem ==
  /\ _spend
  /\ _mint_code
  /\ UNCHANGED <<credited, adjusted, expiries, reading, crossed>>

-----------------------------------------------------------------------------
\* Twelve months go by.
falls_inactive ==
  /\ account.earned > 0 /\ ~ inactive
  /\ inactive' = TRUE
  /\ UNCHANGED <<account, ledger, credited, codes, adjusted, expiries, reading, crossed>>

\* The task comes to the account in its loop ...
expire_points ==
  /\ inactive /\ account.balance > 0
  /\ reading = -1
  /\ reading' = account.balance
  /\ UNCHANGED <<account, inactive, ledger, credited, codes, adjusted, expiries, crossed>>

\* ... and writes the balance it computed from what it read; the activity is
\* not touched.
expire_inactive ==
  /\ reading # -1 /\ expiries < MaxExpiries
  /\ account' = [account EXCEPT !.balance = reading - reading]
  /\ ledger' = ledger - reading
  /\ expiries' = expiries + 1
  /\ crossed' = crossed + (account.balance - reading)
  /\ reading' = -1
  /\ UNCHANGED <<inactive, credited, codes, adjusted>>

-----------------------------------------------------------------------------
Init ==
  /\ account = [balance |-> 0, earned |-> 0, spent |-> 0]
  /\ inactive = FALSE
  /\ ledger = 0
  /\ credited = [o \in Order |-> 0]
  /\ codes = 0
  /\ adjusted = 0
  /\ expiries = 0
  /\ reading = -1
  /\ crossed = 0

Next ==
  \/ \E o \in Order : earn(o)
  \/ adjust
  \/ redeem
  \/ falls_inactive
  \/ expire_points
  \/ expire_inactive

Spec == Init /\ [][Next]_vars

-----------------------------------------------------------------------------
(* Properties *)

\* F1, F2: no code is given for points that were not earned, whatever
\* exchanges, credits and expiries cross, and an order is worth its points once.
RewardsAreCovered ==
  /\ account \in PointsAccount
  /\ account.spent = Cost * codes
  /\ account.balance + account.spent <= account.earned
  /\ account.earned = adjusted + Worth * Cardinality({o \in Order : credited[o] > 0})

\* F5: the journal explains the balance up to the points that moved while the
\* expiry task held its reading; these it erases from the balance and not from
\* the journal.
LedgerExplainsBalance == account.balance = ledger - crossed
=============================================================================
