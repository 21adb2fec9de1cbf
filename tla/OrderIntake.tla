----------------------------- MODULE OrderIntake -----------------------------
(***************************************************************************)
(* How a cart becomes an order: POST /orders/ (apps/orders/views.py) with  *)
(* its idempotency key (apps/orders/idempotency.py), the creation itself   *)
(* (OrderService.create_from_cart), and what it takes from the catalogue's *)
(* stock and from the quota of a promotion, given back by a cancellation.  *)
(*                                                                         *)
(* A request is several transactions: the key is reserved and committed,   *)
(* the order is created in one transaction, and the answer is stored, or   *)
(* the key released, afterwards.  Inside the creation, the cart, the       *)
(* stock and the quota are first read without a lock; the kitchen stays    *)
(* share-locked from its check to the commit; the stock and the quota are  *)
(* decided by the writes, which hold their rows until the commit and are   *)
(* one step here.                                                          *)
(***************************************************************************)
EXTENDS Integers, FiniteSets

CONSTANTS
  Customer, Item, Key, Request,
  Owner,         \* Key -> Customer: keys are unique per user and endpoint
  Tracked,       \* items with tracks_stock
  InitialStock,  \* stock_quantity of each of them
  UsageLimit,    \* Promotion.usage_limit
  UserLimit,     \* Promotion.usage_limit_per_user
  MaxOrder,      \* bound: orders ever created
  MaxCrashes,    \* bound: keys whose process is lost in the middle
  MaxBroken      \* bound: keys whose broadcast raises

ASSUME IntakeAssumption ==
  /\ Owner \in [Key -> Customer]
  /\ Tracked \subseteq Item
  /\ InitialStock \in Nat
  /\ UsageLimit \in Nat
  /\ UserLimit \in Nat
  /\ MaxOrder \in Nat
  /\ MaxCrashes \in Nat
  /\ MaxBroken \in Nat
  /\ "none" \notin Key

Order == 1 .. MaxOrder

VARIABLES
  cart,      \* the items with a line in the customer's cart
  isOpen,    \* the kitchen takes orders
  stock,     \* MenuItem.stock_quantity
  used,      \* Promotion.used_count
  redeemed,  \* orders with a PromotionRedemption row
  keyst,     \* the IdempotencyKey row of a key
  ostatus,   \* "none" before the order exists
  okey,      \* the key of the request that created it
  olines,    \* its lines
  pc,        \* where a request is
  rkey,      \* its key
  code,      \* it gives the promotion's code
  lines,     \* the lines it read from the cart
  lost,      \* keys whose request was lost in the middle
  unsaid     \* keys whose order was committed and its broadcast raised

orderVars   == <<ostatus, okey, olines>>
requestVars == <<rkey, code, lines>>
vars == <<cart, isOpen, stock, used, redeemed, keyst, orderVars, pc, requestVars,
          lost, unsaid>>

\* A request is over, and its process forgets it.
over(r) ==
  /\ pc' = [pc EXCEPT ![r] = "idle"]
  /\ rkey' = [rkey EXCEPT ![r] = "none"]
  /\ code' = [code EXCEPT ![r] = FALSE]
  /\ lines' = [lines EXCEPT ![r] = {}]

Live  == {o \in Order : ostatus[o] = "pending"}
me(r) == Owner[rkey[r]]

\* The bound on orders, charged when a request starts.
RoomForAnOrder ==
  Cardinality({o \in Order : ostatus[o] # "none"})
    + Cardinality({r \in Request : pc[r] \notin {"idle", "created"}}) < MaxOrder

-----------------------------------------------------------------------------
(* The key *)

\* Mutant: reserve is called inside the try of the view, so that the 409 of a
\* crossing request releases the key.
reserve_InsideTry(r, k, b) ==
  /\ pc[r] = "idle"
  /\ RoomForAnOrder
  /\ keyst[k] \in {"none", "pending"}
  /\ keyst' = [keyst EXCEPT ![k] = IF @ = "none" THEN "pending" ELSE "none"]
  /\ pc' = [pc EXCEPT ![r] = IF keyst[k] = "none" THEN "reserved" ELSE @]
  /\ rkey' = [rkey EXCEPT ![r] = k]
  /\ code' = [code EXCEPT ![r] = b]
  /\ UNCHANGED <<cart, isOpen, stock, used, redeemed, orderVars, lines, lost, unsaid>>

\* reserve inserts the key and commits.  On a key that exists nothing changes:
\* the stored answer is returned, or 409 while it is pending.
reserve(r, k, b) ==
  /\ pc[r] = "idle"
  /\ RoomForAnOrder
  /\ keyst[k] = "none"
  /\ keyst' = [keyst EXCEPT ![k] = "pending"]
  /\ pc' = [pc EXCEPT ![r] = "reserved"]
  /\ rkey' = [rkey EXCEPT ![r] = k]
  /\ code' = [code EXCEPT ![r] = b]
  /\ UNCHANGED <<cart, isOpen, stock, used, redeemed, orderVars, lines, lost, unsaid>>

\* complete attaches the answer to the key.
complete(r) ==
  /\ pc[r] = "created"
  /\ keyst' = [keyst EXCEPT ![rkey[r]] = "completed"]
  /\ over(r)
  /\ UNCHANGED <<cart, isOpen, stock, used, redeemed, orderVars, lost, unsaid>>

\* Mutant: a refused creation keeps its key.
release_Forgotten(r) ==
  /\ pc[r] = "failed"
  /\ over(r)
  /\ UNCHANGED <<cart, isOpen, stock, used, redeemed, keyst, orderVars, lost, unsaid>>

\* release deletes the key if it is not completed.
release(r) ==
  /\ pc[r] = "failed"
  /\ keyst' = [keyst EXCEPT ![rkey[r]] = IF @ = "pending" THEN "none" ELSE @]
  /\ over(r)
  /\ UNCHANGED <<cart, isOpen, stock, used, redeemed, orderVars, lost, unsaid>>

\* purge_idempotency_keys deletes a key of IDEMPOTENCY_RETENTION_HOURS (72 h),
\* pending or not.  No request lasts that long and no client retries after it.
purge_idempotency_keys(k) ==
  /\ keyst[k] \in {"pending", "completed"}
  /\ \A r \in Request : pc[r] # "idle" => rkey[r] # k
  /\ keyst' = [keyst EXCEPT ![k] = "purged"]
  /\ UNCHANGED <<cart, isOpen, stock, used, redeemed, orderVars, pc, requestVars, lost, unsaid>>

-----------------------------------------------------------------------------
(* The creation *)

\* create_from_cart loads the cart, without a lock.
load(r) ==
  /\ pc[r] = "reserved"
  /\ lines' = [lines EXCEPT ![r] = cart[me(r)]]
  /\ pc' = [pc EXCEPT ![r] = "loaded"]
  /\ UNCHANGED <<cart, isOpen, stock, used, redeemed, keyst, orderVars, rkey, code, lost, unsaid>>

\* Promotion.is_exhausted and the customer's own limit.
uses(c) == Cardinality({o \in redeemed : Owner[okey[o]] = c})
code_accepted(c) == used < UsageLimit /\ uses(c) < UserLimit

\* can_accept_order and PromotionService.quote.  The kitchen is read under a
\* shared lock, held from here to the commit; the quota is read without one.
\* The items were read with the cart, so their stock may still be judged
\* sufficient when it is not any more.
can_accept_order(r) ==
  /\ isOpen
  /\ lines[r] # {}
  /\ code[r] => code_accepted(me(r))

judge(r) ==
  /\ pc[r] = "loaded"
  /\ can_accept_order(r)
  /\ pc' = [pc EXCEPT ![r] = "judged"]
  /\ UNCHANGED <<cart, isOpen, stock, used, redeemed, keyst, orderVars, requestVars, lost, unsaid>>

\* Any of the refusals before the first write, those that depend on what is not
\* modelled included: payment method, address, phone number, choice of options.
judge_refuses(r) ==
  /\ pc[r] \in {"reserved", "loaded"}
  /\ pc' = [pc EXCEPT ![r] = "failed"]
  /\ UNCHANGED <<cart, isOpen, stock, used, redeemed, keyst, orderVars, requestVars, lost, unsaid>>

\* StockService.consume: UPDATE ... WHERE stock_quantity >= quantity.
consume(L) == \A i \in L \cap Tracked : stock[i] >= 1

\* Mutant: the quota is only tested by the quote.
redeem_TrustsQuote(c) == TRUE

\* PromotionService.redeem, under the lock of the promotion.
redeem(c) == code_accepted(c)

Fresh(o) == ostatus[o] = "none" /\ \A p \in 1 .. (o - 1) : ostatus[p] # "none"

\* create_from_selection writes, the cart is emptied of whatever lines it has
\* by now, and everything is committed; or one of the writes is refused and
\* everything is rolled back.
create_from_cart(r) ==
  /\ pc[r] = "judged"
  /\ consume(lines[r])
  /\ code[r] => redeem(me(r))
  /\ \E o \in Order :
       /\ Fresh(o)
       /\ ostatus' = [ostatus EXCEPT ![o] = "pending"]
       /\ okey' = [okey EXCEPT ![o] = rkey[r]]
       /\ olines' = [olines EXCEPT ![o] = lines[r]]
       /\ redeemed' = IF code[r] THEN redeemed \cup {o} ELSE redeemed
  /\ stock' = [i \in Tracked |-> IF i \in lines[r] THEN stock[i] - 1 ELSE stock[i]]
  /\ used' = IF code[r] THEN used + 1 ELSE used
  /\ cart' = [cart EXCEPT ![me(r)] = {}]
  /\ pc' = [pc EXCEPT ![r] = "created"]
  /\ UNCHANGED <<isOpen, keyst, requestVars, lost, unsaid>>

create_refused(r) ==
  /\ pc[r] = "judged"
  /\ ~ (consume(lines[r]) /\ (code[r] => redeem(me(r))))
  /\ pc' = [pc EXCEPT ![r] = "failed"]
  /\ UNCHANGED <<cart, isOpen, stock, used, redeemed, keyst, orderVars, requestVars, lost, unsaid>>

\* publish, called by on_commit inside create_from_cart, raises when Redis is
\* away: the order is committed and the view's except clause runs.
publish_raises(r) ==
  /\ pc[r] = "created"
  /\ Cardinality(unsaid) < MaxBroken
  /\ unsaid' = unsaid \cup {rkey[r]}
  /\ pc' = [pc EXCEPT ![r] = "failed"]
  /\ UNCHANGED <<cart, isOpen, stock, used, redeemed, keyst, orderVars, requestVars, lost>>

\* The process is lost: an open transaction is rolled back, the key stays.
crash(r) ==
  /\ pc[r] # "idle"
  /\ Cardinality(lost) < MaxCrashes
  /\ lost' = lost \cup {rkey[r]}
  /\ over(r)
  /\ UNCHANGED <<cart, isOpen, stock, used, redeemed, keyst, orderVars, unsaid>>

-----------------------------------------------------------------------------
(* Meanwhile *)

\* CartService.add_line and the removal of a line, from any of the customer's
\* devices.
add_line(c, i) ==
  /\ i \notin cart[c]
  /\ cart' = [cart EXCEPT ![c] = @ \cup {i}]
  /\ UNCHANGED <<isOpen, stock, used, redeemed, keyst, orderVars, pc, requestVars, lost, unsaid>>

remove_line(c, i) ==
  /\ i \in cart[c]
  /\ cart' = [cart EXCEPT ![c] = @ \ {i}]
  /\ UNCHANGED <<isOpen, stock, used, redeemed, keyst, orderVars, pc, requestVars, lost, unsaid>>

\* Mutant: the kitchen is read without its shared lock.
kitchen_locked_Never == FALSE

\* lock_kitchen_for_order: SELECT ... FOR SHARE.
kitchen_locked == \E r \in Request : pc[r] = "judged"

\* The kitchen is paused or reopened: an UPDATE of its row.
pause_or_open ==
  /\ ~ kitchen_locked
  /\ isOpen' = ~ isOpen
  /\ UNCHANGED <<cart, stock, used, redeemed, keyst, orderVars, pc, requestVars, lost, unsaid>>

\* StockService.restore credits what the lines of the order took.
restore(o) == [i \in Tracked |-> IF i \in olines[o] THEN stock[i] + 1 ELSE stock[i]]

\* PromotionService.release deletes the redemption and gives the use back.
release_code(o) ==
  /\ used' = IF o \in redeemed /\ used > 0 THEN used - 1 ELSE used
  /\ redeemed' = redeemed \ {o}

\* Mutant: the cancellation of a cancelled order goes through again.
cancel_Replayed(o) ==
  /\ ostatus[o] # "none"
  /\ ostatus' = [ostatus EXCEPT ![o] = "cancelled"]
  /\ release_code(o)
  /\ stock' = restore(o)
  /\ UNCHANGED <<cart, isOpen, keyst, okey, olines, pc, requestVars, lost, unsaid>>

\* OrderService.transition_to(cancelled), with what it gives back in the same
\* transaction.
cancel(o) ==
  /\ o \in Live
  /\ ostatus' = [ostatus EXCEPT ![o] = "cancelled"]
  /\ release_code(o)
  /\ stock' = restore(o)
  /\ UNCHANGED <<cart, isOpen, keyst, okey, olines, pc, requestVars, lost, unsaid>>

-----------------------------------------------------------------------------
Init ==
  /\ cart = [c \in Customer |-> {}]
  /\ isOpen = TRUE
  /\ stock = [i \in Tracked |-> InitialStock]
  /\ used = 0
  /\ redeemed = {}
  /\ keyst = [k \in Key |-> "none"]
  /\ ostatus = [o \in Order |-> "none"]
  /\ okey = [o \in Order |-> "none"]
  /\ olines = [o \in Order |-> {}]
  /\ pc = [r \in Request |-> "idle"]
  /\ rkey = [r \in Request |-> "none"]
  /\ code = [r \in Request |-> FALSE]
  /\ lines = [r \in Request |-> {}]
  /\ lost = {}
  /\ unsaid = {}

\* The steps that end a request.
Ends(r) ==
  \/ load(r)
  \/ judge(r)
  \/ judge_refuses(r)
  \/ create_from_cart(r)
  \/ create_refused(r)
  \/ complete(r)
  \/ release(r)

Next ==
  \/ \E r \in Request :
       \/ \E k \in Key, b \in BOOLEAN : reserve(r, k, b)
       \/ Ends(r)
       \/ publish_raises(r)
       \/ crash(r)
  \/ \E k \in Key : purge_idempotency_keys(k)
  \/ \E c \in Customer, i \in Item : add_line(c, i) \/ remove_line(c, i)
  \/ pause_or_open
  \/ \E o \in Order : cancel(o)

Spec == Init /\ [][Next]_vars

\* A process that is not lost runs its request to the end.
Fairness == \A r \in Request : WF_vars(Ends(r))

FairSpec == Spec /\ Fairness

-----------------------------------------------------------------------------
(* Properties *)

\* Every variable keeps its type; no stock or counter goes below zero.
TypeOK ==
  /\ cart \in [Customer -> SUBSET Item]
  /\ isOpen \in BOOLEAN
  /\ stock \in [Tracked -> Nat]
  /\ used \in Nat
  /\ redeemed \subseteq Live
  /\ keyst \in [Key -> {"none", "pending", "completed", "purged"}]
  /\ ostatus \in [Order -> {"none", "pending", "cancelled"}]
  /\ okey \in [Order -> Key \cup {"none"}]
  /\ olines \in [Order -> SUBSET Item]
  /\ pc \in [Request -> {"idle", "reserved", "loaded", "judged", "created", "failed"}]
  /\ rkey \in [Request -> Key \cup {"none"}]
  /\ code \in [Request -> BOOLEAN]
  /\ lines \in [Request -> SUBSET Item]
  /\ lost \subseteq Key
  /\ unsaid \subseteq Key

\* ADR-009.  A key produces one order, however often and from however many
\* processes its request is sent, refused, corrected or cut ...
OneOrderPerKey ==
  \A o, p \in Order :
    ostatus[o] # "none" /\ okey[o] = okey[p] /\ okey[o] \notin unsaid => o = p

\* ... and without the exception the code makes of it: when the broadcast of
\* a committed order raises, its key is released.  (Violated.)
ReplayCreatesNoSecondOrder ==
  \A o, p \in Order : ostatus[o] # "none" /\ okey[o] = okey[p] => o = p

\* What is in stock and what the live orders took add up to what there was:
\* nothing is sold twice, nothing is lost or invented by a cancellation.
StockIsAccountedFor ==
  \A i \in Tracked : stock[i] + Cardinality({o \in Live : i \in olines[o]}) = InitialStock

\* F4.  The uses of a code are counted exactly and never exceed its limits,
\* even when the last one is quoted to two customers at once.
QuotaIsRespected ==
  /\ used = Cardinality(redeemed)
  /\ used <= UsageLimit
  /\ \A c \in Customer : uses(c) <= UserLimit

\* An order only enters a kitchen that takes orders at that moment: a pause is
\* seen by the creation or waits for its commit.
OrderEntersAnOpenKitchen ==
  [][\A o \in Order : ostatus[o] = "none" /\ ostatus'[o] = "pending" => isOpen]_vars

\* A reserved key does not stay pending, which would answer 409 to every
\* retry: unless its process is lost, its request completes or releases it.
KeyIsSettled == \A k \in Key : keyst[k] = "pending" ~> keyst[k] # "pending" \/ k \in lost
=============================================================================
