# TLA+ model of the El Corazón backend

El Corazón is the Django backend of a network of kitchens that deliver meals:
customers fill carts and order, pay by mobile money, card or cash, alone or
together; couriers are proposed the courses and carry them; the staff runs the
kitchens, the stock and the refunds. The backend is the only authority: several
web processes and Celery workers share one PostgreSQL database (READ COMMITTED,
`ATOMIC_REQUESTS = False`, explicit `@transaction.atomic` blocks in the
services) and one Redis. What can go wrong is therefore what two transactions
can do to each other between the reading of a row and its lock, what is
committed before something that may still fail, and what a repeated request or
notification does.

This directory models that part of the system in TLA+, checks small instances
with TLC and proves the central invariants with TLAPS.

## Inventory

Each Django application of `src/apps` is a component; `PROJECT.json` lists them
all with their status.

| Component | State it keeps | Operations | Talks to | What makes it correct |
|---|---|---|---|---|
| orders | `Order.status`, history, `IdempotencyKey` | create from a cart or a group cart, transitions by staff, customer, courier, payments and tasks | everything: the signals `order_transitioned`, `order_cancelled` are received by payments, delivery, catalog, promotions, production, loyalty, notifications | only declared transitions; one order per key; a cancellation gives everything back once |
| payments | `Transaction`, `SplitPayment`, `SplitShare`, `WebhookEvent`, `Refund`, `Withdrawal` | open a request, handle a notification, split, pay a share, collect cash, expire, refund, withdraw | orders, PayDunya, delivery (earnings) | a paid order is confirmed, a share follows its transaction, nothing is collected or given back twice, no notification is lost |
| delivery | `Assignment`, `CourierProfile`, shifts, ratings | propose, dispatch, accept, decline, expire, advance, credit; review a file, go online | orders (projection), notifications | one live course per order, one engaged course per courier, a course and its order agree, a delivery is paid once |
| promotions | `Promotion.used_count`, `PromotionRedemption` | quote, redeem, release | orders, loyalty (rewards are codes) | the limits hold, a cancelled order gives its use back |
| carts | `Cart`, `CartLine` | add, change, remove, price, clear | orders | an order holds what was priced |
| catalog | `MenuItem.stock_quantity`, menus, reviews | consume, restore, back office | orders | nothing is sold twice |
| availability, restaurants | `Restaurant` status and pause, hours, closures, zones | judge whether an order can be taken, pause, reopen, publish | carts, orders | no order enters a closed kitchen |
| production, inventory | recipes, `StockItem.on_hand/reserved`, movements, declarations | reserve, release, consume materials with an order; receive, declare, approve | orders | what is promised is on hand, a movement is recorded once |
| groupcarts | `GroupCart.status`, members, lines | open, join, add, change, remove, lock, confirm, cancel, expire | orders | the order of a group holds every line, none is lost to the lock, one order per group |
| loyalty | `PointsAccount`, `PointsEntry`, `Reward`, `Subscription`, `SubscriptionPayment` | earn, redeem, adjust, expire; subscribe, charge, renew, cancel | orders, payments, promotions | the journal explains the balance, no code without points, no period without a payment |
| notifications | `Notification`, `Device`, `Campaign` | notify, push with retries, schedule, call back and send campaigns | all receivers | told once, told only what one may open |
| accounts | `User`, `VerificationCode`, outstanding tokens, roles and permissions | sign up, verify, sign in, reset, revoke, block; grant and take back rights | all | a code cannot be guessed, a session follows its password, nobody grants more than they hold |
| support | `Ticket`, `Complaint`, `ReturnRequest` | open, reply, answer, decide, refund | orders, payments | what was decided stays decided, a return is refunded only by a refund that was paid |
| calls | `Call` | place, answer, decline, hang up | orders, delivery | one active call per order, between its customer and its courier |
| social | groups, memberships, posts, likes, comments | join, leave, post, like, comment | | counters and capacity |
| gamification | achievements, badges, challenges and their rewards | reckon after a delivery | orders, loyalty | a reward once, and for what was reached |
| tracking | `LocationPing`, the courier's last position, chat | record, filter, relay, show, purge | delivery | the track keeps up with what was shown |
| geography | markets, cities, zones, tariffs | resolve an address, quote a delivery | carts, orders, restaurants | what is announced as served is quoted |
| profiles, search, analytics | addresses and preferences; read only queries | one owner's rows; reports over a perimeter | | each to their own rows |
| common | the state machine class, the numbered event log in Redis, money, permissions | `validate`, `publish`, `replay`, rounding | all | declared transitions only; an event is not missed |

The hard behaviours, line by line, are the `hazards` of `PROJECT.json`. They
fall in six groups: a decision taken on a row read before its lock (payment
notifications, late refusals of couriers, expiry of unpaid orders, answers of
the desk, uploads of documents, forms of the back office); two workers that
each see half of a sum (shares, partial refunds, ratings, achievements); a
commit followed by a step that may fail (notification events, idempotency keys,
pushes); repetition by a provider, an application or a task; limits (stock,
quota, capacity, the catch-up task); and two places of the code that must agree
(a zone that is found and the one that prices, a person who is alerted and the
screen they may open, the opening hours and the reopening announced).

## Modules

| Module | Models | Composed with |
|---|---|---|
| `StateMachines` | `common/state_machine.py` and the transition tables of orders, payments, courses, files of couriers and withdrawals | used by all that move a status |
| `OrderLifecycle` | abstract specification: an order that only takes declared transitions | implemented by `Payments` |
| `Payments` | one order: requests, split, notifications handled step by step by several workers, cash, cancellation, expiry | `StateMachines` |
| `Refunds` | refunds requested, recorded in steps and abandoned beside the actions of `Payments` | extends `Payments` |
| `Delivery` | several orders and couriers: automatic and manual proposal, answers, expiry, courses, cancellation | `StateMachines` |
| `OrderIntake` | keys, carts, kitchen, stock and promotion code around the creation and the cancellation of orders | |
| `Materials` | the raw materials of one kitchen: what orders promise, take out and give back, recipes, receptions, losses and corrections | |
| `Gateway` | notifications of PayDunya from the body that arrives to the status of the transaction: token, hash, status asked of the provider in return, amount stated, replays | in front of `Payments` |
| `GroupCarts` | a group cart: requests looked up before the lock, confirmation into an order, expiry by the task | |
| `Points` | the points of one customer: ledger, exchanges into codes, credits, expiry by a task that holds nothing | |
| `Subscriptions` | two subscriptions, their payments answered late, the renewal task | |
| `Gamification` | what each delivery brings besides the meal, several delivered at once | |
| `CourierAccount` | earnings, withdrawals and ratings of one courier | `StateMachines` |
| `CourierFile` | the file of one courier: documents, decisions, reminders of expiry | `StateMachines` |
| `Accounts` | one account: codes, password, sessions, revocation, profile updates, blocking | |
| `Staff` | what an account may do and where, and the back office that hands both out | |
| `Routes` | who reaches which row by which view: the permission classes, querysets and assertions of every view of the API and of the back office | |
| `Announcements` | who is told of what, by every receiver | extends `Routes` |
| `Restaurants` | the life of an establishment in the back office: status, form, zones, copies, each request read, judged and saved in steps | |
| `Hours` | service hours, closures and the reopening that is announced | |
| `Coverage` | who delivers at an address, among the nearest candidates, from which zone, at what distance | |
| `Amounts` | discounts, fees, thresholds, the courier's part, the shares, equal or stated | |
| `Campaigns`, `Push` | a campaign and the task that sends it; a notification and the devices it is pushed to | |
| `Realtime` | the numbered events of one group and a client that comes back | |
| `Calls`, `Support`, `Tracking`, `Social`, `Reviews` | the calls of an order; a ticket, a complaint and the returns; the positions of a course, recorded and relayed; a group and a post; the reviews of a dish | |
| `People`, `Network` | the customers' side, fourteen of the modules above, and the network's side, nine of them, which share no row, each as one specification | see below |
| `SumTheorems` | lemmas on sums, extremes and bounds over finite sets | used by the proofs |
| `PaymentsProofs`, `RefundsProofs`, `DeliveryProofs`, `OrderIntakeProofs`, `MaterialsProofs`, `PeopleProofs`, `NetworkProofs` | the theorems | extend the modules above |
| `MCPayments`, `MCDelivery`, `MCOrderIntake`, `MCMaterials`, `MCNetwork` | instances of one module | |
| `MCLive` | instances of several modules that share no row | see below |

Definitions keep the names of the functions they model, and `PROJECT.json`
maps every one to its lines. A definition whose name ends in a suffix such as
`confirm_order_ReusesSum` is a mutant: a plausible bug of the code, used to
show that the property it is paired with can fail.

### How a transaction is modelled

The variables are committed rows. A service that takes its locks first and
reads only what it locked is one action: what it does is atomic to the others.
A service that reads before it locks, or locks a second row later, is several
actions, and its uncommitted writes stay in variables of its own until the step
that commits. In particular:

* **`Payments`.** `handle_webhook` commits the event (`handle_webhook`), then
  `_apply` locks the transaction (`apply_moves`, `apply_completes`), reads the
  status of the order without a lock, locks the share and looks at the other
  shares (`on_transaction_settled`), sums the ledger, where writing
  `amount_paid` takes the row of the order (`report_settled_total`), sums it
  again and confirms (`confirm_order` in `apply_commits`), or raises and rolls
  back (`apply_raises`). `seen` holds who has read the order and decided to
  cancel it: the customer and the expiry task. An event is its token and its
  status, as PayDunya's connector builds it. A gateway that refuses a request
  rolls it back, so it changes nothing and is no action.
* **`Refunds`.** `settle` locks the refund and decides later whether it is the
  one that completes the transaction, under the lock of the transaction.
* **`Delivery`.** `dispatch` chooses its candidates without a lock and then
  proposes to them one after the other, each proposal re-reading under the lock
  of the order. `accept` holds the order and writes a course it read without a
  lock; `decline` holds nothing: `declining` is the set of answers checked and
  not written yet. `transition_to` locks course, order and courier in one query
  and is one action. The unique index on the live course of an order is left
  out on purpose: `OneActivePerOrder` shows that the code does not need it. The
  index on engaged courses is the guard
  `one_engaged_assignment_per_courier`, which the code does need.
* **`OrderIntake`.** A request reserves its key, loads the cart, judges the
  kitchen, the stock and the code, creates the order, and stores the answer or
  releases the key: five transactions or unlocked readings, between which
  other requests run, carts change and the kitchen is paused. The kitchen stays
  share-locked from the second verdict to the commit.
* **`Materials`.** `_engager` reads the recipe, the rows and their promises
  without a lock (`engager`, called by `create`, `prepare` and `cancel`), and
  writes later (`reserve`, `consume`, `release`), each row by a conditional
  UPDATE; the row locks are taken in one order and kept, so the writes of a
  transaction are one step, all or none (`refused`). A movement outside an
  order is one conditional UPDATE. `touched` remembers that somebody changed a
  recipe or opened a row while an order counted on it. `written` counts the
  movements a key has caused; no action reads either.

* **The other modules** follow the same convention. A request that reads and
  later writes is two actions, named after what the code calls (`reply` and
  `replied`, `join` and `joined`), with what was read in a variable between
  them (`seen`, `request`, `desk`, `listed`): `Support`, `Calls`, `Social`,
  `CourierFile`, `Staff`. `Restaurants` has three steps: what the query of the
  view joins (`get_object`), the judgement (`validate_zone`, `transition_to`,
  which asks for the staff and the registry of readiness at that moment), and the
  columns written (`perform_update`, `save`); `Tracking` has four (the course is
  read, the position judged, the row created, the position relayed); a
  publication of `Realtime` takes its number, writes and sends. A request that locks first is one:
  withdrawals, campaigns, returns, codes. A task that reads a list and then
  works through it is the list and one action per row: `Subscriptions`,
  `Campaigns`, `Points`, `CourierFile`. A boolean such as `crossed`, `late` or
  `rewritten` records that the very interleaving happened for which the code
  gives up what the property says, and no action reads it; the property then
  says what holds in every other behaviour, and what the exception costs is
  written beside it.
* **`Hours`, `Coverage`, `Amounts`** are computations. An action draws every
  input of the bounded sets, another asks the question; the invariant compares
  the answer with a definition written another way: the instants a manager
  means by a slot, the zones that cover the address, the rounded share.
* **`Routes`** has one row at a time. Every view is the conjunction of its
  permission class, its queryset and its assertions; a request names an
  operation, and is served when the view lets it through. The rights of the
  clerk are drawn anew between two requests, so a chain of requests under
  changing rights is covered.

### Sums of components

`People`, `Network` and `MCLive` gather modules that share no row. `People` and
`Network` declare the constants of their components under names of their own;
`MCPeople.cfg` and `MCNetwork` give them values. `Network` instantiates
`Restaurants` with a parameter, `Restaurants(n)`, the network `n` being a record
of its establishments, zones and desks: one where establishments are opened one
by one (`Opened`), one where they are copied from one another (`Copied`). Their
variable `part` chooses one component in `Init`; that component takes its steps
and the others stay where they began. An invariant of a component is guarded by
`part = …`, an action property needs no guard because the step is a stutter
elsewhere. Nothing is lost to this: two components without common state have no
behaviour together that the two do not have apart. Components that do interact
are composed inside one module (`Payments` with the order, `Refunds` with
`Payments`, `Delivery` with order and course, `OrderIntake` with cart, kitchen,
stock and code, `Gamification` with the points account).

## What the runs show

| Run | Instance | Shows |
|---|---|---|
| `payments` | 3 transactions, 2 shares, 2 workers of which one may be lost, statuses completed and failed | `PaidIsNotPending`: two shares settled at once cannot leave a paid order waiting. `SharesFollowTheLedger`: a share that is paid has a settled transaction, and by mobile money or card the converse; a split never announces more than it has, and without a split the ledger is exact. `TransactionsFollowTheMachine`; and the order implements `OrderLifecycle` whatever stale readings its writers acted on |
| `refunds` | cash, 1 worker that may be lost, 3 refunds, a stray reference | `RefundsAreExact`: refunds are covered by what was collected, and a transaction is `refunded` exactly when all of it was given back; a recorded refund is never abandoned; delivered cash is on the books |
| `delivery` | 1 courier, 2 orders, 2 courses, 2 processes | exclusivity, cancellation against acceptance, order and course in step, one credit per delivery; only a late answer writes an undeclared transition |
| `intake` | 2 customers, 2 keys, 2 processes, one unit, one use of the code, one lost process, one broken broadcast | stock and quota are exact, an order enters an open kitchen, a key gives one order and is settled |
| `materials` | 2 orders, 2 ingredients, portions of up to 2, a cold room of 2, 2 receptions, 1 declaration, 2 members of staff | the rows promise exactly what the queue will take; a promised order can be cooked and can be cancelled whatever is lost or corrected; a key moves the stock once |
| `people` | fourteen components of the customers' side | see the next table |
| `network` | nine components of the network's side | see the next table |
| `live` | payments, delivery, group carts, files, campaigns, pushes, with fair workers and tasks | `NotificationLeadsToApplied`: a recorded notification is applied unless the order moves on meanwhile: no worker waits for ever. `ProposalsEnd`: a ready order is proposed, again after refusals, and no proposal stays open. `TasksFinish`: carts that are due are closed, an expiry is announced, a campaign leaves, every push ends |

| Property | Conjuncts, by module | In a sentence |
|---|---|---|
| `AccountsAreGuarded` | `Accounts`: `CodesCannotBeGuessed`, `SessionsFollowPassword` | a code works once and survives no more guesses than allowed; sessions of a former password are closed but for those opened across the revocation |
| `RewardsAreEarned` | `Points`: `RewardsAreCovered`, `LedgerExplainsBalance`; `Gamification`: `RewardedOnceForWhatWasReached` | no code without points, an order is worth its points once, the journal explains the balance up to what crossed the expiry task; achievements once and in the end for everybody who reached them |
| `PaidMeansPaid` | `Subscriptions`: `PeriodIsPaid`, `OneRequestAtATime`; `Gateway`: `SettledAsTheProviderSays` | a period runs on its own payment; a transaction ends as its invoice did, whatever the bodies claim |
| `OrderIsTheCart` | `GroupCarts` | one order per confirmed group, holding every line |
| `SentOnceAndAsAgreed` | `Campaigns`: `CampaignIsSentOnce`, `TaskSendsWhatWasAgreed`; `Push`: `ShownOnce`, `OnlyTheRecipientsDevices` | once per person, the text that was scheduled, on devices that are still theirs |
| `ScreensKeepUp` | `Realtime`: `CaughtUpOrTold`; `Tracking`: `FallbackKeepsUp` | a client that comes back misses nothing without being able to tell, but for publications that were cut short or that outlive their numbering; rows are sampled and the relay is not, yet whatever positions cross or come late, the track has a point near the one on the screen and a client whose socket falls is not sent back by the sampling interval |
| `AnswersStand` | `Support`: `ResolutionIsDated`, `DecisionsAreFinal`; `Calls`: `OneCallAtATime` | decisions survive colleagues who read the row before; one room per order |
| `CountsAreReal` | `Social`: `PlacesAndLikesAreReal`; `Reviews`: `RatingHeals` | capacity and counters; a rating reckoned alone is right again |
| `RightsAreGranted` | `Staff`: `NobodyExceedsTheGrants`, `AlertedStaffCanOpenIt` | chains of grants do not add up to more than one account of the head office's making |
| `FilesAreRead` | `CourierFile`: `ApprovedFileWasRead`, `RemindedOnce`, `FileFollowsItsMachine` | an approved document was seen; one reminder per threshold |
| `CourierIsOwedWhatWasEarned` | `CourierAccount`: `EarningsAreAccountedFor`, `RatingFollowsTheScores` | earnings to the unit; how far the incremental average drifts |
| `KitchensAreKnownAndComplete` | `Restaurants`: `KnownKitchenWasComplete`, `FlagPartsOnlyWhenCrossed`, `StatusFollowsItsMachine` | no establishment customers know had a gap when it was opened, unless its row, zone, market or settings changed between the reading and the write; flag and status part only when two requests cross |
| `EachToTheirOwnRows` | `Routes`: `WritesStayInThePerimeter`, `OnlyTheHeadOfficeWritesTheBrand`, `OthersRowsAreClosed`, `ReadersWriteNothing`; `Announcements`: `WhoeverIsToldCanOpenIt` | the perimeter over all views, and alerts that lead somewhere |
| `OrderableInService` | `Hours`: `OrderableExactlyInService`, `ReopeningIsTheFirst` | slots over midnight, closures, the announced reopening |
| `FoundKitchenServes` | `Coverage`: `FoundKitchenServesThePoint`, `PricedFromItsOwnCity`, `ServedAddressIsQuoted` | the two queries agree; the nearest kitchen that takes orders is found, unless a full page of closed ones is as near; the distance a screen accepted is not refused once the quote has rounded it |
| `AmountsAdd` | `Amounts`: `TotalIsNotNegative`, `CourierIsPaidTheCourse`, `SharesAreTheTotal` | totals, caps, the courier's part, shares that are positive and make the total to the last unit |

Four runs state what a comment of the code says and what its interleavings do
not keep; TLC finds each violated, and `findings` quotes the comment:

| Run | What happens |
|---|---|
| `payments_lost_notification` | the order is cancelled while its settlement is applied; `transition_to` raises, the settlement rolls back, the event stays recorded and the provider's retry is taken for a replay |
| `payments_expiry` | the expiry task cancels an order confirmed after it was selected, because `confirmed -> cancelled` is declared |
| `refunds_cap` | a fully refunded transaction is subtracted twice from the cap |
| `intake_twin` | the broadcast of a committed order raises inside the `try` of the view: the key is released and the retry orders again |

Eight more statements of the code are not checked, because the modelled code does
not keep them; six of them are written down as definitions:

| Definition | The statement | What happens |
|---|---|---|
| `Payments!SharePaidWithItsTransaction` | `payments/cash.py:90`: collecting cash has the same sequel as a collection by the provider; `payments/split.py:18`: a share follows its transaction | `cash.py:88` settles an open cash request of a share without `on_transaction_settled`: the share stays `processing` with its transaction completed, and `pay_share` may ask for it again |
| `Delivery!FeeIsFrozenAtAcceptance` | `delivery/models.py:222`: the remuneration is frozen at acceptance | the status route takes `accepted` too (`delivery/serializers.py:484`) and never writes the fee |
| `Realtime!SeqIsNeverReused` | `common/realtime.py:55`: a number is never used again | the counter expires (`:171`) and the numbering begins anew |
| `Calls!ClosedChannelStaysClosed` | `calls/states.py:3`: the issues of a call are terminal | answering writes a status decided on a reading without a lock (`calls/services.py:95`) |
| `Accounts!ProfileUpdateWritesTwoFields` | `ProfileUpdateSerializer`: two fields and not one more | the view saves the whole row it read (`accounts/views.py:343`) |
| `Restaurants!PublishedFlagFollowsStatus` | the flag follows the status for every write | two requests that read one row write different columns (`restaurants/backoffice.py:399`) |
| `overtaken` in `Restaurants` | `restaurants/models.py:274`: putting in service is guarded by completeness | the gaps are looked for (`:281`) on a row, a zone and a market read before, and the status is saved (`:288`) without a lock or a transaction: a zone or a market closed in between, or a setting undone, leaves an establishment in service with a gap although nobody else wrote its row |
| `stray` in `Realtime` | `common/realtime.py:121`: two publications cannot aim at one key | the counter may expire under a publication that is numbered and not yet written (`:171`); a later numbering gives the number again and the two events write under one key |

The code promises nothing of the order in which a client sees the positions: the
socket relays each in the order of arrival, kept or not
(`tracking/consumers.py:105`), so the point on the screen may go back when one
comes late. `Tracking` has that behaviour, and its property is about the track
that a client falls back on.

### Bounds, and why they are enough

* *Two workers, two shares, three transactions.* A lost update, a stale
  reading and a missed sum need two actors; three transactions are two shares
  and a request for the whole order, which is what `initiate`, `create_split`
  and `pay_share` can combine. `Total = 2` splits in two non-empty parts.
* *One courier and two orders, or two couriers and one order.* Exclusivity per
  courier needs two orders; dispatch among candidates, in `live`, two couriers.
  `MaxCourse = 2` gives a second proposal after a refusal or an expiry.
  `_ESSAIS_MAX` (5 proposals in one dispatch) never binds with two couriers.
* *One unit, one use, two orders.* The limits bind at the second order.
  `MaxOrder` is charged when a request starts, so the bound never refuses an
  order half-way.
* *Two orders, a cold room of two.* A second order finds the room taken by the
  first, and one order can release the promise of the other. A ceiling of one
  makes a declaration of two wait.
* *Two of everything in the sums:* two requests, workers, desks or processes
  that cross; two sessions and two codes, so that one outlives the other; two
  subscriptions of which one replaces the other, and a third payment for a
  renewal; two devices of which one changes hands; two couriers on one order;
  a group of three users for two places; a backlog of one event, so that the
  second already makes a hole; three deliveries for two thresholds; four
  courses and two withdrawals, so that one fails while the other is paid; three
  members of staff, so that a right can be handed on.
* *Small days:* in `Hours` a day has three instants and a week two days, which
  has slots within a day, over midnight, over the week's end and adjoining.
  `Amounts` takes remainders on both sides of a half, and splits in one to
  three shares or as stated, with statements that are refused.
* *Two maps:* `Coverage` has an instance with two zones and two kitchens, and
  one with three kitchens of which two are looked at (`CANDIDATS_MAX`, 20 in the
  code, is a constant): the cut binds when two closed kitchens stand before one
  that takes orders. Distances are whole metres, 5 and 15, for reaches of 10
  and 20 metres: the first is a half that is rounded down, the second one that
  is rounded up and still accepted, so that both directions occur under a limit.
* *Establishments:* one with a zone of its own and two requests that cross, and
  a pair of which one is the copy of the other, with one request and two
  settings, of which one is read with the row and the other asked for later.
* *Two publishers, two numberings of two numbers; two positions under way,* of a
  road with two points as far apart as the sampling distance, and a clock of two
  seconds that a device may be ahead of or behind by one.
* `MaxCrashes` and `MaxBroken` bound how many times a process is lost or a
  broadcast raises. Ages (the 72 hours of a key, the delay of a proposal, the
  delay of the expiry task) are left open: what may be old enough is assumed to
  be able to be. Bounds of counters (`MaxTime`, `MaxSeq`, `MaxText`,
  `MaxRows`…) are guards of the actions that count, and are named as bounds
  where they are declared.

`delivery`, `intake` and `materials` check for deadlock; the other runs turn it
off because their system may really have nothing left to do: an order that is
closed, a delivery that was credited, a question that was answered.

### Fairness

Fairness is stated in `MCLive`, for the steps only that the code owes, and in
`intake` for the request a web process is serving.

* A request that a process has taken runs to its end: `Apply` of the two
  payment workers, the offers of a dispatch that started, an acceptance or a
  refusal that was checked. Nobody is required to send one.
* Celery beat (`config/celery.py`) posts `expire_stale_offers`, the catch-up of
  waiting orders, the expiry of group carts, the reminders of documents and the
  due campaigns. Sending a campaign is strongly fair: a task that fails is
  posted again the next minute, and does not fail for ever.
* The queue gives a posted push to a worker, and the push service answers in
  one way or another, or not at all, which is an outcome of its own.
* Couriers, customers and staff owe nothing. Workers are not lost in `live`
  except those of pushes, which are acknowledged late and run again; the loss
  of a payment worker is the subject of `payments_lost_notification`.

## What is proved

TLAPS checks these theorems for every value of the constants.

* **`PaymentsProofs`.** `StatusesInvariant`: every row carries a declared
  status. `PaidIsNotPendingInvariant` needs, beside it, `SeenIsPast`: while the
  order is pending, every worker that read it read it pending. A worker decides
  to confirm from what it read; without this fact it could have read a status
  from which it does not confirm, and leave the order. The step that
  matters is the commit: the worker holds the row of the order while it sums the
  ledger, so no other settlement is missed (`SettledDependsOnCompleted` says
  what the sum depends on). `OrderRefinement`: `Payments` implements
  `OrderLifecycle`. `TransactionsFollowTheMachineAlways` from `HeldInv`: a worker
  commits `completed` three steps after it tested the transition, so the
  invariant says that the transaction it holds is still `processing`
  (`HeldIsProcessing`) and is held by it alone (`HeldAlone`).
  `SharesFollowTheLedgerInvariant` relates three sums: a share is paid only by a
  transaction of its own that was settled, two shares never by one, and the
  ledger of an order without a split is what was reported.
* **`RefundsProofs`.** `RefundsAreExactInvariant`: what is given back on a
  transaction is covered by what was collected, and the transaction is
  `refunded` exactly when all of it was given back; between the two is the worker
  that has recorded a refund and not decided yet. `RefundsFollowTheMachineHolds`
  and `DeliveredCashIsCollectedInvariant` come from the same invariant.
* **`DeliveryProofs`.** `CoursesAreExclusive` (both halves: per order and per
  courier), `CancelledOrderHasNoLiveCourseInvariant`,
  `OrderKeepsUpWithCourseInvariant` from one inductive invariant `CourseInv`;
  its own part is `AcceptingHolds`: what an acceptance holding the lock of its
  order may rely on although it read the course without a lock and a late refusal
  may have closed it since. `OnlyLateAnswersEscape` is the action property, from
  the same invariant. `CreditedOncePerDeliveryInvariant` counts: the credits of
  the couriers are the delivered courses. `DeliveryTypes`: a plan is a list of
  couriers exactly while its process has an order (`PlansOK`), and nothing but an
  offer names the courier of a course (`CouriersOK`). The fleet is finite,
  without which it has no list.
* **`OrderIntakeProofs`.** `OneOrderPerKeyInvariant` from `KeyInv`: a request in
  progress holds its key alone, and a key that is free, or whose request has
  not created its order, gave none, except where a broadcast raised.
  `OrderEntersAnOpenKitchenAlways` from `JudgedIsOpen`: the share lock keeps the
  kitchen open between the verdict and the commit.
  `StockIsAccountedForInvariant` and `QuotaIsRespectedInvariant`: what is left
  and what the standing orders took add up to what there was, and the uses
  counted on a code are the orders that carry it. `OrderIntakeTypes`: no stock
  and no count of uses goes below zero, with the help of `KeyInv`.
* **`MaterialsProofs`.** `PromisesAreExactInvariant` and `PromiseIsKeptInvariant`
  from `PromiseInv`: beside the exact promises, the row locks of the order keep
  its work and its status in step (`WorkFollowsPhase`), rows that are not open
  are empty (`ClosedRows`), and what a transaction read is still so
  (`ReadingsHold`). The last is needed because `consume` gives back the smaller
  of its need and of the promises it read: it gives back its whole portion only
  because the promises it read held at least that portion. A portion more or
  less is counted with the cardinality of the set of waiting orders.
  `KeyWritesOnceInvariant` from `KeyInv`: a key is in the journal or in the
  requests, never in both. `MaterialsTypes` adds the `Bounds` of the shelf and of
  a portion to the parts of `AskedInv` and `PromiseInv`.
* **`PeopleProofs`.** One section per component, with the inductive invariant of
  that component, its `Init` and its `Next`; at the end `StepsOfTheParts` says that
  a step of the whole is a step of each part or leaves it alone, and the eight
  properties of the run `people` follow.
  * `AccountsAreGuardedInvariant`: `CodesInv` counts the comparisons of a code:
    its failed attempts and the one that worked, with room for that one while it
    is live. In `SessionsInv` a change or a reset under way holds the password,
    alone, and has listed every session that was opened in time
    (`RevocationHoldsThePassword`).
  * `RewardsAreEarnedInvariant`: the property of the points is inductive with its
    types (`PointsInv`). `GameInv` adds what a transaction has counted
    (`CountsAreFresh`): the points account lets one delivery worth a point count
    at a time, so that each finds all the others that committed.
  * `PaidMeansPaidInvariant`: `SubsInv` (a subscription has one request open, and
    none while the task holds it in its list); `GatewayInv` from `AnswersAreTrue`: what the provider
    answered to a worker may be old when it is applied, but an end is still the
    end of the invoice, and its amount is still its amount.
  * `OrderIsTheCartInvariant`: lines change while the cart is open only, and no
    transition leaves `confirmed` (`OnlyConfirmConfirms`).
  * `CountsAreRealInvariant`: in `SocialInv` a comment that is inserted and not
    counted yet belongs to a request that will count it; in `ReviewsInv` a
    transaction alone sees what everybody sees (`Reckoned`), and the mean lies
    between two of its terms (from `SumBounds`).
  * `AnswersStandAlways`: `SupportInv`, in which a return that is refunded has a
    refund that was paid, and nothing leaves `completed`; `CallsInv`, where the call
    a request has found is one that was placed (`FoundWasPlaced`), and at most one
    is active.
  * `SentOnceAndAsAgreedAlways`: `CampaignInv` (what is scheduled is what was
    agreed, and nobody has a message before the campaign is sent) and `PushInv`
    (while no worker was lost there is one task per notification, and a device
    still to be served has shown nothing: `OneTask`, `ServedOnce`).
  * `ScreensKeepUpInvariant`: in `RealtimeInv` every number of the current
    numbering is in the journal, will be, or was cut short (`Accounted`), and
    reaches a client that holds an earlier one (`FollowsTheNumbering`); a
    publication numbered by a former counter and still to be written has its
    number among the strays. `TrackingInv` says of the position on the screen,
    and of each one judged or recorded that is still to be relayed, that the
    track has a point near it and not long before it (`OnTheTrack`): a position
    refused a row was refused it because of such a row, and rows are not deleted
    while the course is under way.
* **`NetworkProofs`.** The same for the run `network`: one section per component,
  then `StepsOfTheParts` and the theorems. The three computations have no
  history, so that the property is inductive with the type of what was drawn, and
  the work is in the lemmas about the operators.
  * `RightsAreGrantedInvariant`: while no request is late, what an account holds
    fits in what one account of the first grants holds, and that is transitive: what
    is handed on fits in the rights of who hands it on.
  * `FilesAreReadAlways`: inductive with the types; for the reminders, a notice that was sent has its row written
    (`SentIsWritten`), so that no other task writes it again.
  * `KitchensAreKnownAndCompleteAlways`: `RequestsInv` says that what a request has
    judged and not written yet was declared from the row it read, and complete as it read
    the zone, the market and the settings (`Decided`); at the write either the row
    or what was judged has changed, which `crossed` and `overtaken` record, or the
    establishment is complete.
  * `CourierIsOwedInvariant`: withdrawals and earnings by the sum lemmas. The drift
    of the rating is an inequality on integers: one rounding adds at most half of
    a hundredth, weighed by the number of ratings.
  * `EachToTheirOwnRowsAlways`: `EveryViewHasItsGround` classifies the views. Each
    of the seventy lets a request through on one of nine grounds: a window of the
    shop, a row of one's own (`Personal`), one that one begins (`Begun`), an
    application, a row of one's perimeter (`Kept`), one brought or moved within it
    (`Placed`), a restaurant opened in one's area, a row of the brand, a reward
    exchanged. What a ground allows is then compared with each statement; the
    invariant says that the rows only customers begin are a customer's, without
    which a clerk could own an order. `ToldMayOpen` goes through the receivers.
  * `OrderableInServiceInvariant`: an instant modulo the week against the slot of
    today or of yesterday; the candidates for the reopening contain the first
    instant of service, because nothing opens but at the start of a slot or at the
    end of a closure.
  * `FoundKitchenServesInvariant`: a page of candidates, the nearest of a finite
    set and the first zone exist; if a kitchen that takes orders is not among the
    candidates, they are as many as the page holds and as near. Rounding to the
    hundredth is monotone, and a reach is a number of hundredths
    (`RoundedWithinReach`), whatever the distance and the reach.
  * `AmountsAddInvariant`: the rest of a division is smaller than the number of
    participants, so that one unit each distributes it (`EqualParts`); stated
    shares are taken only if they are positive and make the total.
* **`SumTheorems`.** The lemmas the counts rest on: a sum over a finite set with
  one term more, less or changed, over two functions that agree, of bounded
  terms, and the least and the greatest value of a function. Induction over the
  subsets of a finite set is had from the well-foundedness of strict inclusion
  with the statement as a set, which the provers can instantiate.

Assumptions are those on the constants (`PaymentsAssumption`,
`RefundsAssumption`, `DeliveryAssumption`, `IntakeAssumption`,
`MaterialsAssumption`, and one per component that needs any in `People` and in
`Network`): naturals where the code has positive columns, that null is not a
value, finitely many orders, couriers, users, reviewers, zones and kitchens, that the page of candidates holds one at least and reaches are naturals,
that a threshold of rewards is at least one, that a day and a week are not
empty, and that receptions and declarations do not share keys.

Only model-checked: the liveness properties, `KeyIsSettled` and those of the run
`live`, because fairness is outside the prover's reach. Every other property of a
passing run is a theorem.

## What is left out, and why

* Amounts beyond what the properties tell apart: fees, prices, currencies,
  rounding. A line of a cart is an item with quantity one.
* `Tracked` is a constant: the code credits an item on cancellation when it is
  tracked *then*, although the comment of `StockService.restore` says it does
  not credit what was never debited; this needs the back office of the catalogue.
* A split created while a request for the whole order is open leaves that
  request open, and both can be collected. It happens in the model.
* In `Materials`: one dish and one portion per order, no options, no
  dimensions, a unit cost of one for every ingredient (the code makes every
  declaration wait when cost or ceiling is unknown), no retired ingredients, and
  only movements that carry a key besides those of orders (one without a key is
  the same movement, repeated at will). A loss that would bite into what is
  promised is refused by the CHECK constraint of the table, with an error the
  caller cannot tell from a failure; the model only says that it is refused. A
  reception does not look for its key among the waiting declarations, and the
  lock that protects a key is the one of the row of stock: one key sent at the
  same instant for two ingredients is a misuse the model leaves out.
* Opening hours and closures are other tables that the kitchen's lock does not
  protect; an order may enter a kitchen that closes at that instant.
* The purge deletes pending keys too. The model purges a key whose client no
  longer repeats its request; a client that repeats it after 72 hours orders
  again.
* Two keys sent with one cart order it twice, and a line added between the
  reading and the clearing of a cart disappears. Both happen in the model;
  nothing in the code promises otherwise.
* `amount_paid` may stay behind the ledger when two shares are settled at once,
  and a split may stay open with every share paid. No decision reads them.
* An order the staff moved further than its course would project blocks the
  course: `_exiger_une_commande_qui_suit` refuses.
* Deadlocks that PostgreSQL resolves by aborting a transaction: refund (order,
  transaction) against notification (transaction, order), course (course, order)
  against acceptance or cancellation (order, course), two carts with the same
  items in another order. A transaction aborted is a transaction that did not
  happen, which every action allows; for a notification it is the lost one of
  `payments_lost_notification`.
* Whole parts: the chat of an order, shifts, menus and their options, the stock
  screen (an absolute write, see the hazards), statistics and reports, the
  default address, loyalty tiers, the refresh of tokens, throttling, object
  storage, e-mails, the sandbox connector, deployment settings, and the command
  that seeds a catalogue.
* Geometry: PostGIS computes whether a zone covers a point and how far a
  kitchen is; `Coverage` takes both as inputs, the distance as whole metres where
  the code has a real number. Full text ranking likewise.
* Serializers and admin screens, except where a serializer decides which rows a
  request may name or which transition a client may ask for (`Routes`,
  `Delivery`, `Restaurants`).

## Plan

1. Proofs: that `Delivery` implements `OrderLifecycle` for every order.
2. Lock orders: the cycles of the deadlock hazard as a model of waits.
3. The chat of an order and shifts; the stock screen beside `OrderIntake`.
