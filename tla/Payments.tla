------------------------------ MODULE Payments ------------------------------
(***************************************************************************)
(* How one order is paid: apps/payments/services.py, split.py, cash.py and *)
(* tasks.py, over the status of the order kept by                          *)
(* apps/orders/services.py.                                                *)
(*                                                                         *)
(* The database is PostgreSQL under READ COMMITTED with autocommit between *)
(* the @transaction.atomic blocks.  The variables hold COMMITTED rows.  A  *)
(* service that takes its locks first and then only reads what it locked   *)
(* is one action.  The notification handler is not like that: it locks the *)
(* transaction, then reads the order, the other shares and the settled     *)
(* total WITHOUT a lock, then waits for the row of the order; a worker     *)
(* therefore runs it step by step, keeps its uncommitted writes to itself  *)
(* and publishes them in its commit.                                       *)
(***************************************************************************)
EXTENDS StateMachines, Integers, FiniteSets, FiniteSetsExt, Functions

CONSTANTS
  MaxTxn,         \* bound: transactions one order may open
  Total,          \* order.total, in minor units
  Method,         \* "online" (mobile money, card) or "cash"
  Share,          \* the participants of a split payment
  Worker,         \* processes that handle notifications concurrently
  ProviderStatus, \* statuses the provider notifies
  Stray,          \* references no transaction carries
  MaxCrashes      \* bound: workers lost in the middle of a notification

ASSUME PaymentsAssumption ==
  /\ MaxTxn \in Nat \ {0}
  /\ Total \in Nat \ {0}
  /\ Method \in {"online", "cash"}
  /\ ProviderStatus \subseteq {"pending", "completed", "failed", "cancelled"}
  /\ MaxCrashes \in Nat
  /\ Stray \cap (1 .. MaxTxn) = {}

Txn == 1 .. MaxTxn

\* The identity of a notification: PayDunya's token and status, so that each
\* step of the same invoice is an event of its own.
Event == (Txn \cup Stray) \X ProviderStatus

VARIABLES
  ostatus,    \* Order.status
  amountPaid, \* Order.amount_paid, the denormalised settled total
  tstatus,    \* Transaction.status, or "none" for a row not yet inserted
  tamount,    \* Transaction.amount
  split,      \* SplitPayment.status, or "none"
  shStatus,   \* SplitShare.status
  shAmount,   \* SplitShare.amount
  shTxn,      \* SplitShare.transaction, 0 for null
  event,      \* WebhookEvent: absent, recorded (processed_at null), processed
  seen,       \* who has read the order and decided to cancel it
  pc,         \* where each worker is in handle_webhook
  wev,        \* the notification it handles
  wseen,      \* the order status it read, without a lock
  wclose,     \* whether it will close the split
  wsum,       \* the settled total it will write on the order
  crashes

orderVars  == <<ostatus, amountPaid>>
txnVars    == <<tstatus, tamount>>
splitVars  == <<split, shStatus, shAmount, shTxn>>
workerVars == <<pc, wev, wseen, wclose, wsum>>
vars == <<orderVars, txnVars, splitVars, event, seen, workerVars, crashes>>

-----------------------------------------------------------------------------
(* Reading the ledger *)

\* What the rows with status "completed" add up to, for a given reading of
\* the transaction table.
settled(st, am) ==
  SumFunction([t \in {u \in Txn : st[u] = "completed"} |-> am[t]])

settled_total == settled(tstatus, tamount)

outstanding == Total - settled_total

Open(t) == tstatus[t] \in {"pending", "processing"}

\* The next row to be inserted: transactions are numbered in creation order.
Fresh(t) == tstatus[t] = "none" /\ \A u \in 1 .. (t - 1) : tstatus[u] # "none"

\* Mutant: the notification handler reads the transaction without FOR UPDATE.
Locked_NoForUpdate(t) == FALSE

\* A worker that is completing transaction t holds its row lock.
Locked(t) == \E w \in Worker : pc[w] \in {"moved", "shared", "summed"} /\ wev[w][1] = t

\* STATUS_MAP of the PayDunya connector: an abandoned payment is a failure.
STATUS_MAP ==
  [completed |-> "completed", pending |-> "processing",
   failed |-> "failed", cancelled |-> "failed"]

-----------------------------------------------------------------------------
(* Opening a payment request *)

\* A transaction is inserted pending and moved to processing once the
\* provider has opened the checkout, in one database transaction; a provider
\* that refuses rolls everything back and changes nothing.
OpenCheckout(t, amount) ==
  /\ Fresh(t)
  /\ tstatus' = [tstatus EXCEPT ![t] = "processing"]
  /\ tamount' = [tamount EXCEPT ![t] = amount]

\* PaymentService.initiate.  A request already open for the same amount is
\* handed back and nothing is written.
initiate ==
  /\ ostatus # "cancelled"
  /\ split = "none"
  /\ outstanding > 0
  /\ ~ \E t \in Txn : Open(t) /\ tamount[t] = outstanding
  /\ \E t \in Txn : OpenCheckout(t, outstanding)
  /\ UNCHANGED <<orderVars, splitVars, event, seen, workerVars, crashes>>

\* SplitService.create, with the amounts given or the equal division.
create_split(amounts) ==
  /\ ostatus # "cancelled"
  /\ split = "none"
  /\ settled_total = 0
  /\ SumFunction(amounts) = Total
  /\ split' = "pending"
  /\ shAmount' = amounts
  /\ UNCHANGED <<orderVars, txnVars, shStatus, shTxn, event, seen, workerVars, crashes>>

\* SplitService.pay_share, with _start.
pay_share(s) ==
  /\ split # "none"
  /\ shStatus[s] # "completed"
  /\ ostatus # "cancelled"
  /\ shTxn[s] # 0 => ~ Open(shTxn[s])
  /\ \E t \in Txn :
       /\ OpenCheckout(t, shAmount[s])
       /\ shTxn' = [shTxn EXCEPT ![s] = t]
  /\ shStatus' = [shStatus EXCEPT ![s] = "processing"]
  /\ split' = IF can(PAYMENT_TRANSITIONS, split, "processing") THEN "processing" ELSE split
  /\ UNCHANGED <<orderVars, shAmount, event, seen, workerVars, crashes>>

-----------------------------------------------------------------------------
(* The order advances *)

\* Mutant: cash is collected only if the customer had opened a request.
record_cash_OnlyIfAsked ==
  LET ask == {t \in Txn : Open(t) /\ tamount[t] = outstanding} IN
  IF Method = "cash" /\ outstanding > 0 /\ ask # {}
  THEN \E t \in ask :
         /\ ~ Locked(t)
         /\ tstatus' = [tstatus EXCEPT ![t] = "completed"]
         /\ tamount' = tamount
         /\ amountPaid' = settled(tstatus', tamount')
  ELSE UNCHANGED <<txnVars, amountPaid>>

\* record_cash_collected: what is left due changes hands at the door.  The
\* request the customer opened for that amount is settled, else a new one.
record_cash_collected ==
  LET ask == {t \in Txn : Open(t) /\ tamount[t] = outstanding} IN
  IF Method = "cash" /\ outstanding > 0
  THEN \E t \in Txn :
         /\ IF ask # {} THEN t \in ask /\ (\A u \in ask : u <= t) /\ ~ Locked(t)
            ELSE Fresh(t)
         /\ tstatus' = [tstatus EXCEPT ![t] = "completed"]
         /\ tamount' = [tamount EXCEPT ![t] = outstanding]
         /\ amountPaid' = settled(tstatus', tamount')
  ELSE UNCHANGED <<txnVars, amountPaid>>

\* OrderService.transition_to, under the row lock of the order, with the
\* receiver that collects cash in the same database transaction.
transition_to(target) ==
  /\ can(ORDER_TRANSITIONS, ostatus, target)
  /\ ostatus' = target
  /\ IF target = "delivered" THEN record_cash_collected ELSE UNCHANGED <<txnVars, amountPaid>>

\* The kitchen, the courier or the staff moves the order.
StaffMoves(target) ==
  /\ transition_to(target)
  /\ UNCHANGED <<splitVars, event, seen, workerVars, crashes>>

\* OrderService.CUSTOMER_CANCELLABLE
CUSTOMER_CANCELLABLE == {"pending", "confirmed"}

\* cancel_by_customer tests the order the view read; the transition locks
\* the row only afterwards.
CustomerDecides ==
  /\ ostatus \in CUSTOMER_CANCELLABLE
  /\ "customer" \notin seen
  /\ seen' = seen \cup {"customer"}
  /\ UNCHANGED <<orderVars, txnVars, splitVars, event, workerVars, crashes>>

\* expire_unpaid_orders selects the unpaid orders, then cancels them one by
\* one.  The age of the order and of its last request is left open: any time
\* may have passed.
ExpiryDecides ==
  /\ ostatus = "pending"
  /\ Method = "online"
  /\ split = "none"
  /\ "expiry" \notin seen
  /\ seen' = seen \cup {"expiry"}
  /\ UNCHANGED <<orderVars, txnVars, splitVars, event, workerVars, crashes>>

\* The cancellation decided on an earlier reading is carried out, or refused
\* by the machine (or a no-op when the order is already cancelled).
Cancels(who) ==
  /\ who \in seen
  /\ seen' = seen \ {who}
  /\ \/ transition_to("cancelled")
     \/ /\ ~ can(ORDER_TRANSITIONS, ostatus, "cancelled")
        /\ UNCHANGED <<orderVars, txnVars>>
  /\ UNCHANGED <<splitVars, event, workerVars, crashes>>

-----------------------------------------------------------------------------
(* Notifications *)

target(w) == STATUS_MAP[wev[w][2]]

NoEvent == <<0, "none">>

\* The worker answers and forgets the request.
Idle(w) ==
  /\ pc' = [pc EXCEPT ![w] = "idle"]
  /\ wev' = [wev EXCEPT ![w] = NoEvent]
  /\ wseen' = [wseen EXCEPT ![w] = "pending"]
  /\ wclose' = [wclose EXCEPT ![w] = FALSE]
  /\ wsum' = [wsum EXCEPT ![w] = 0]

\* handle_webhook, first part: the event is inserted and COMMITTED before it
\* is applied; the unique constraint lets one worker through.
handle_webhook(w, e) ==
  /\ pc[w] = "idle"
  /\ e[1] \in Txn => tstatus[e[1]] # "none"
  /\ event[e] = "absent"
  /\ event' = [event EXCEPT ![e] = "recorded"]
  /\ pc' = [pc EXCEPT ![w] = "created"]
  /\ wev' = [wev EXCEPT ![w] = e]
  /\ UNCHANGED <<orderVars, txnVars, splitVars, seen, wseen, wclose, wsum, crashes>>

\* handle_webhook on an event already recorded: answered, not applied.
replay(e) ==
  /\ event[e] # "absent"
  /\ UNCHANGED vars

\* _apply takes the row lock of the transaction and finds nothing to move: no
\* such transaction, the status already reached, a transition the machine
\* refuses, or (exact = FALSE) a confirmed amount that is not the one asked.
apply_refuses(w, exact) ==
  LET t == wev[w][1] IN
  /\ pc[w] = "created"
  /\ \/ t \in Stray
     \/ /\ t \notin Stray
        /\ ~ Locked(t)
        /\ \/ ~ can(PAYMENT_TRANSITIONS, tstatus[t], target(w))
           \/ target(w) = "completed" /\ ~ exact
  /\ event' = [event EXCEPT ![wev[w]] = "processed"]
  /\ Idle(w)
  /\ UNCHANGED <<orderVars, txnVars, splitVars, seen, crashes>>

\* _apply of a failure: one locked row, one write, one commit.
apply_moves(w) ==
  LET t == wev[w][1] IN
  /\ pc[w] = "created"
  /\ t \notin Stray
  /\ ~ Locked(t)
  /\ can(PAYMENT_TRANSITIONS, tstatus[t], target(w))
  /\ target(w) # "completed"
  /\ tstatus' = [tstatus EXCEPT ![t] = target(w)]
  /\ event' = [event EXCEPT ![wev[w]] = "processed"]
  /\ Idle(w)
  /\ UNCHANGED <<orderVars, tamount, splitVars, seen, crashes>>

\* _apply of a settlement, step 1: the transaction is locked and moved (not
\* yet committed), and txn.order is loaded without a lock.
apply_completes(w) ==
  LET t == wev[w][1] IN
  /\ pc[w] = "created"
  /\ t \notin Stray
  /\ ~ Locked(t)
  /\ can(PAYMENT_TRANSITIONS, tstatus[t], target(w))
  /\ target(w) = "completed"
  /\ pc' = [pc EXCEPT ![w] = "moved"]
  /\ wseen' = [wseen EXCEPT ![w] = ostatus]
  /\ UNCHANGED <<orderVars, txnVars, splitVars, event, seen, wev, wclose, wsum, crashes>>

\* _close_if_complete on the share of transaction t: the other shares are read
\* as committed, without a lock.
close_if_complete(t) ==
  \E s \in Share :
    /\ shTxn[s] = t
    /\ can(PAYMENT_TRANSITIONS, shStatus[s], "completed")
    /\ \A other \in Share \ {s} : shStatus[other] = "completed"
    /\ can(PAYMENT_TRANSITIONS, split, "completed")

\* Mutant: the share is saved outside the database transaction of _apply.
on_transaction_settled_Autocommit(w) ==
  /\ pc[w] = "moved"
  /\ pc' = [pc EXCEPT ![w] = "shared"]
  /\ wclose' = [wclose EXCEPT ![w] = close_if_complete(wev[w][1])]
  /\ shStatus' = [s \in Share |-> IF shTxn[s] = wev[w][1] THEN "completed" ELSE shStatus[s]]
  /\ UNCHANGED <<orderVars, txnVars, split, shAmount, shTxn, event, seen, wev, wseen, wsum, crashes>>

\* Step 2: on_transaction_settled.
on_transaction_settled(w) ==
  /\ pc[w] = "moved"
  /\ pc' = [pc EXCEPT ![w] = "shared"]
  /\ wclose' = [wclose EXCEPT ![w] = close_if_complete(wev[w][1])]
  /\ UNCHANGED <<orderVars, txnVars, splitVars, event, seen, wev, wseen, wsum, crashes>>

\* The settled total as worker w reads it: the committed rows and its own.
settled_seen_by(w) == settled([tstatus EXCEPT ![wev[w][1]] = "completed"], tamount)

\* Step 3: report_settled_total reads the sum, before the UPDATE of the order
\* waits for the row.
report_settled_total(w) ==
  /\ pc[w] = "shared"
  /\ pc' = [pc EXCEPT ![w] = "summed"]
  /\ wsum' = [wsum EXCEPT ![w] = settled_seen_by(w)]
  /\ UNCHANGED <<orderVars, txnVars, splitVars, event, seen, wev, wseen, wclose, crashes>>

\* Mutant: the sum that was reported is reused instead of read again.
confirm_order_ReusesSum(w) ==
  /\ wsum[w] >= Total
  /\ can(ORDER_TRANSITIONS, wseen[w], "confirmed")

\* _confirm_order, once the UPDATE holds the row of the order: the sum is read
\* again, the status is the one read in step 1.
confirm_order(w) ==
  /\ settled_seen_by(w) >= Total
  /\ can(ORDER_TRANSITIONS, wseen[w], "confirmed")

\* Mutant: the transition trusts the status read without a lock.
confirm_raises_Never(w) == FALSE

\* Mutant: confirming a confirmed order is an error.
confirm_raises_OnReplay(w) ==
  confirm_order(w) /\ ~ can(ORDER_TRANSITIONS, ostatus, "confirmed")

\* transition_to reads the status again under the lock and raises
\* IllegalTransition when it has moved too far.
confirm_raises(w) ==
  /\ confirm_order(w)
  /\ ~ is_noop(ostatus, "confirmed")
  /\ ~ can(ORDER_TRANSITIONS, ostatus, "confirmed")

\* Step 4: everything the worker wrote is committed.
apply_commits(w) ==
  LET t == wev[w][1] IN
  /\ pc[w] = "summed"
  /\ ~ confirm_raises(w)
  /\ tstatus' = [tstatus EXCEPT ![t] = "completed"]
  /\ shStatus' = [s \in Share |->
       IF shTxn[s] = t /\ can(PAYMENT_TRANSITIONS, shStatus[s], "completed")
       THEN "completed" ELSE shStatus[s]]
  /\ split' = IF wclose[w] THEN "completed" ELSE split
  /\ amountPaid' = wsum[w]
  /\ ostatus' = IF confirm_order(w) THEN "confirmed" ELSE ostatus
  /\ event' = [event EXCEPT ![wev[w]] = "processed"]
  /\ Idle(w)
  /\ UNCHANGED <<tamount, shAmount, shTxn, seen, crashes>>

\* The exception leaves _apply and rolls back all it wrote; the event, in its
\* own transaction, stays.
apply_raises(w) ==
  /\ pc[w] = "summed"
  /\ confirm_raises(w)
  /\ Idle(w)
  /\ UNCHANGED <<orderVars, txnVars, splitVars, event, seen, crashes>>

\* The process is lost between the two transactions or inside the second (a
\* restart, a database error, a deadlock victim).
crash(w) ==
  /\ pc[w] # "idle"
  /\ crashes < MaxCrashes
  /\ crashes' = crashes + 1
  /\ Idle(w)
  /\ UNCHANGED <<orderVars, txnVars, splitVars, event, seen>>

-----------------------------------------------------------------------------
Init ==
  /\ ostatus = "pending"
  /\ amountPaid = 0
  /\ tstatus = [t \in Txn |-> "none"]
  /\ tamount = [t \in Txn |-> 0]
  /\ split = "none"
  /\ shStatus = [s \in Share |-> "pending"]
  /\ shAmount = [s \in Share |-> 0]
  /\ shTxn = [s \in Share |-> 0]
  /\ event = [e \in Event |-> "absent"]
  /\ seen = {}
  /\ pc = [w \in Worker |-> "idle"]
  /\ wev = [w \in Worker |-> NoEvent]
  /\ wseen = [w \in Worker |-> "pending"]
  /\ wclose = [w \in Worker |-> FALSE]
  /\ wsum = [w \in Worker |-> 0]
  /\ crashes = 0

\* One step of the worker w inside _apply.
Apply(w) ==
  \/ \E exact \in BOOLEAN : apply_refuses(w, exact)
  \/ apply_moves(w)
  \/ apply_completes(w)
  \/ on_transaction_settled(w)
  \/ report_settled_total(w)
  \/ apply_commits(w)
  \/ apply_raises(w)

Next ==
  \/ initiate
  \/ \E amounts \in [Share -> 1 .. Total] : create_split(amounts)
  \/ \E s \in Share : pay_share(s)
  \/ \E status \in OrderStatus : StaffMoves(status)
  \/ CustomerDecides
  \/ ExpiryDecides
  \/ \E who \in {"customer", "expiry"} : Cancels(who)
  \/ \E w \in Worker, e \in Event : handle_webhook(w, e)
  \/ \E e \in Event : replay(e)
  \/ \E w \in Worker : Apply(w) \/ crash(w)

Spec == Init /\ [][Next]_vars

\* The web server runs the request it has accepted to its end: nobody else is
\* required to act.
FairSpec == Spec /\ \A w \in Worker : WF_vars(Apply(w))

-----------------------------------------------------------------------------
(* Properties *)

\* The rows take declared statuses only (C4), and a worker that is not idle
\* handles an event.
StatusesOK ==
  /\ ostatus \in OrderStatus
  /\ tstatus \in [Txn -> PaymentStatus \cup {"none"}]
  /\ split \in PaymentStatus \cup {"none"}
  /\ shStatus \in [Share -> PaymentStatus]
  /\ shAmount \in [Share -> 0 .. Total]
  /\ shTxn \in [Share -> Txn \cup {0}]
  /\ event \in [Event -> {"absent", "recorded", "processed"}]
  /\ seen \subseteq {"customer", "expiry"}
  /\ pc \in [Worker -> {"idle", "created", "moved", "shared", "summed"}]
  /\ wev \in [Worker -> Event \cup {NoEvent}]
  /\ \A w \in Worker : pc[w] # "idle" => wev[w] \in Event
  /\ wseen \in [Worker -> OrderStatus]
  /\ wclose \in [Worker -> BOOLEAN]
  /\ crashes \in 0 .. MaxCrashes

\* StatusesOK, and every amount is a natural number.
TypeOK ==
  /\ StatusesOK
  /\ amountPaid \in Nat
  /\ tamount \in [Txn -> Nat]
  /\ wsum \in [Worker -> Nat]

\* An order whose total is collected is never left waiting for payment,
\* however the notifications of its transactions interleave: _confirm_order
\* reads the sum after the row of the order is held.
PaidIsNotPending == settled_total >= Total => ostatus # "pending"

\* P2, C5: a share is settled exactly when its transaction is (up to what is
\* collected at the door, see SharePaidWithItsTransaction); the split never
\* announces itself settled before its shares are; and an order that is not
\* split is never collected twice, the amount reported to the courier being
\* the amount collected (on_transaction_settled, close_if_complete, initiate).
\* The rows it speaks of are well typed.
SharesFollowTheLedger ==
  /\ TypeOK
  /\ \A s \in Share :
       /\ shStatus[s] = "completed" =>
            shTxn[s] # 0 /\ tstatus[shTxn[s]] \in {"completed", "refunded"}
       /\ Method = "online" /\ shTxn[s] # 0 /\ tstatus[shTxn[s]] = "completed" =>
            shStatus[s] = "completed"
  /\ split = "completed" => \A s \in Share : shStatus[s] = "completed"
  /\ split = "none" => settled_total <= Total /\ amountPaid = settled_total

\* P1: a transaction only takes declared transitions, even when two
\* notifications about it are handled at once: none is ever brought back from
\* failed, nor a settled one downgraded.
DeclaredStep ==
  \A t \in Txn :
    \/ tstatus'[t] = tstatus[t]
    \/ tstatus[t] = "none"
    \/ can(PAYMENT_TRANSITIONS, tstatus[t], tstatus'[t])

\* The statement above, of every step.
TransactionsFollowTheMachine == [][DeclaredStep]_vars

\* A recorded notification is applied, unless the order leaves the statuses in
\* which a payment confirms it while the notification is being handled, or a
\* worker is lost: no worker waits for a lock for ever.
NotificationLeadsToApplied ==
  \A e \in Event :
    event[e] = "recorded" ~>
      (event[e] = "processed" \/ ostatus \notin {"pending", "confirmed"} \/ crashes > 0)

\* The status of the order, written from a stale reading by the notification
\* handler and by the two cancellations, still follows its machine.
Lifecycle == INSTANCE OrderLifecycle WITH status <- ostatus
OrderFollowsTheMachine == Lifecycle!Spec

-----------------------------------------------------------------------------
(* What the comments of the code promise and its interleavings break: each of
   the formulas below is the subject of a run that TLC must find violated.   *)

Quiet == \A w \in Worker : pc[w] = "idle"

\* expire_unpaid_orders: a transaction still open when the order is cancelled
\* "peut aboutir apres coup ; l'encaissement est alors enregistre".  A
\* notification that is no longer being handled has been applied.
NotificationIsApplied == Quiet => \A e \in Event : event[e] # "recorded"

\* cash.py: what is collected at the door has "meme suite qu'un encaissement
\* par prestataire"; a share "se solde parce que sa transaction s'est soldee".
SharePaidWithItsTransaction ==
  \A s \in Share :
    shTxn[s] # 0 /\ tstatus[shTxn[s]] = "completed" => shStatus[s] = "completed"

\* expire_unpaid_orders: an order confirmed between the reading and the lock
\* is left alone.
ExpirySparesConfirmedOrders ==
  [][ Cancels("expiry") /\ ostatus' # ostatus => ostatus = "pending" ]_vars
=============================================================================
