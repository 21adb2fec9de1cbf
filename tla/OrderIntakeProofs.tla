-------------------------- MODULE OrderIntakeProofs --------------------------
(***************************************************************************)
(* Theorems about OrderIntake, for any customers, keys, processes, items   *)
(* and bounds: a key gives one order, an order enters an open kitchen, the *)
(* stock adds up, and a code is used no more often than it allows.         *)
(***************************************************************************)
EXTENDS OrderIntake, FiniteSetTheorems, TLAPS

\* The part of the state the argument is about.
KeyTypes ==
  /\ keyst \in [Key -> {"none", "pending", "completed", "purged"}]
  /\ ostatus \in [Order -> {"none", "pending", "cancelled"}]
  /\ okey \in [Order -> Key \cup {"none"}]
  /\ pc \in [Request -> {"idle", "reserved", "loaded", "judged", "created", "failed"}]
  /\ rkey \in [Request -> Key \cup {"none"}]
  /\ unsaid \subseteq Key

\* An order remembers its key.
OrdersHaveKeys == \A o \in Order : ostatus[o] = "none" <=> okey[o] = "none"

\* A request in progress holds its key, alone.
HoldersHold == \A r \in Request : pc[r] # "idle" => rkey[r] \in Key /\ keyst[rkey[r]] = "pending"

HoldersAreAlone ==
  \A r, q \in Request : pc[r] # "idle" /\ pc[q] # "idle" /\ rkey[r] = rkey[q] => r = q

Ordered(k) == \E o \in Order : okey[o] = k

\* A key that can be taken has given no order, and neither has the key of a
\* request that has not created one - a broadcast that raised excepted.
FreeKeysGaveNothing == \A k \in Key : keyst[k] = "none" /\ Ordered(k) => k \in unsaid

RequestsGaveNothing ==
  \A r \in Request : pc[r] \in {"reserved", "loaded", "judged", "failed"} /\ Ordered(rkey[r])
                       => rkey[r] \in unsaid

\* The inductive strengthening of OneOrderPerKey.
KeyInv ==
  /\ KeyTypes
  /\ OrdersHaveKeys
  /\ HoldersHold
  /\ HoldersAreAlone
  /\ FreeKeysGaveNothing
  /\ RequestsGaveNothing
  /\ OneOrderPerKey

\* No key is taken yet.
LEMMA KeyInvInit == Init => KeyInv
  BY IntakeAssumption
  DEF Init, KeyInv, KeyTypes, OrdersHaveKeys, HoldersHold, HoldersAreAlone, FreeKeysGaveNothing,
      RequestsGaveNothing, OneOrderPerKey, Ordered

\* Every action preserves the invariant, lost processes and raising broadcasts
\* included.
LEMMA KeyInvNext == KeyInv /\ [Next]_vars => KeyInv'
  <1> SUFFICES ASSUME KeyInv, [Next]_vars
               PROVE  KeyInv'
    OBVIOUS
  <1> USE IntakeAssumption
      DEF KeyInv, KeyTypes, OrdersHaveKeys, HoldersHold, HoldersAreAlone, FreeKeysGaveNothing,
          RequestsGaveNothing, OneOrderPerKey, Ordered, orderVars, requestVars
  <1>1. CASE \E r \in Request, k \in Key, b \in BOOLEAN : reserve(r, k, b)
    BY <1>1 DEF reserve
  <1>2. CASE \E r \in Request : load(r)
    BY <1>2 DEF load
  <1>3. CASE \E r \in Request : judge(r)
    BY <1>3 DEF judge
  <1>4. CASE \E r \in Request : judge_refuses(r)
    BY <1>4 DEF judge_refuses
  <1>5. CASE \E r \in Request : create_from_cart(r)
    BY <1>5 DEF create_from_cart, Fresh
  <1>6. CASE \E r \in Request : create_refused(r)
    BY <1>6 DEF create_refused
  <1>7. CASE \E r \in Request : complete(r)
    BY <1>7 DEF complete, over
  <1>8. CASE \E r \in Request : release(r)
    BY <1>8 DEF release, over
  <1>9. CASE \E r \in Request : publish_raises(r)
    BY <1>9 DEF publish_raises
  <1>10. CASE \E r \in Request : crash(r)
    BY <1>10 DEF crash, over
  <1>11. CASE \E k \in Key : purge_idempotency_keys(k)
    BY <1>11 DEF purge_idempotency_keys
  <1>12. CASE \E c \in Customer, i \in Item : add_line(c, i) \/ remove_line(c, i)
    BY <1>12 DEF add_line, remove_line
  <1>13. CASE pause_or_open
    BY <1>13 DEF pause_or_open
  <1>14. CASE \E o \in Order : cancel(o)
    BY <1>14 DEF cancel, Live
  <1>15. CASE UNCHANGED vars
    BY <1>15 DEF vars
  <1>16. QED
    BY <1>1, <1>2, <1>3, <1>4, <1>5, <1>6, <1>7, <1>8, <1>9, <1>10, <1>11, <1>12, <1>13,
       <1>14, <1>15 DEF Next, Ends

\* ADR-009 for any number of keys, processes and retries: reserve, complete,
\* release and the purge never let a key give two orders.
THEOREM OneOrderPerKeyInvariant == Spec => []OneOrderPerKey
  <1>1. KeyInv => OneOrderPerKey
    BY DEF KeyInv
  <1>2. QED
    BY KeyInvInit, KeyInvNext, <1>1, PTL DEF Spec

-----------------------------------------------------------------------------
(* The kitchen *)

\* A creation that was judged holds the shared lock of an open kitchen.
JudgedIsOpen ==
  /\ pc \in [Request -> {"idle", "reserved", "loaded", "judged", "created", "failed"}]
  /\ \A r \in Request : pc[r] = "judged" => isOpen

\* Nothing is judged yet.
LEMMA JudgedIsOpenInit == Init => JudgedIsOpen
  BY DEF Init, JudgedIsOpen

\* The kitchen is not paused while a judged creation holds its lock.
LEMMA JudgedIsOpenNext == JudgedIsOpen /\ [Next]_vars => JudgedIsOpen'
  <1> SUFFICES ASSUME JudgedIsOpen, [Next]_vars
               PROVE  JudgedIsOpen'
    OBVIOUS
  <1> USE DEF JudgedIsOpen
  <1>1. CASE UNCHANGED <<pc, isOpen>>
    BY <1>1
  <1>2. CASE pause_or_open
    BY <1>2 DEF pause_or_open, kitchen_locked
  <1>3. CASE \E r \in Request : judge(r)
    BY <1>3 DEF judge, can_accept_order
  <1>4. CASE \E r \in Request : isOpen' = isOpen /\ \E s \in {"idle", "reserved", "loaded", "created", "failed"} :
                                  pc' = [pc EXCEPT ![r] = s]
    BY <1>4
  <1>5. QED
    BY <1>1, <1>2, <1>3, <1>4
    DEF Next, Ends, reserve, load, judge_refuses, create_from_cart, create_refused, complete, release,
        publish_raises, crash, purge_idempotency_keys, add_line, remove_line, cancel, over, vars

\* The shared lock of lock_kitchen_for_order is enough, whatever the number of
\* processes: an order only enters a kitchen that takes orders.
THEOREM OrderEntersAnOpenKitchenAlways == Spec => OrderEntersAnOpenKitchen
  <1> DEFINE Enters == \A o \in Order : ostatus[o] = "none" /\ ostatus'[o] = "pending" => isOpen
  <1>1. KeyInv /\ JudgedIsOpen /\ [Next]_vars => [Enters]_vars
    <2> SUFFICES ASSUME KeyInv, JudgedIsOpen, Next
                 PROVE  Enters
      OBVIOUS
    <2> USE DEF KeyInv, KeyTypes, JudgedIsOpen
    <2>1. CASE \E r \in Request : create_from_cart(r)
      BY <2>1 DEF create_from_cart
    <2>2. CASE \E o \in Order : cancel(o)
      BY <2>2 DEF cancel, Live
    <2>3. CASE ostatus' = ostatus
      BY <2>3
    <2>4. QED
      BY <2>1, <2>2, <2>3
      DEF Next, Ends, reserve, load, judge, judge_refuses, create_refused, complete, release,
          publish_raises, crash, purge_idempotency_keys, add_line, remove_line, pause_or_open,
          orderVars
  <1>2. QED
    BY KeyInvInit, KeyInvNext, JudgedIsOpenInit, JudgedIsOpenNext, <1>1, PTL
    DEF Spec, OrderEntersAnOpenKitchen
-----------------------------------------------------------------------------
(* Types *)

\* Nothing is ordered yet.
LEMMA TypesInit == Init => TypeOK
  BY IntakeAssumption DEF Init, TypeOK, Live

\* A stock is taken from only where there is some, a use is given back only
\* where one was counted, and a redemption is of a live order.
LEMMA TypesNext == KeyInv /\ TypeOK /\ [Next]_vars => TypeOK'
  <1> SUFFICES ASSUME KeyInv, TypeOK, [Next]_vars
               PROVE  TypeOK'
    OBVIOUS
  <1>0. \A r \in Request : pc[r] # "idle" => rkey[r] \in Key /\ me(r) \in Customer
    BY IntakeAssumption DEF KeyInv, HoldersHold, me
  <1> USE DEF TypeOK, Live, orderVars, requestVars
  <1>1. ASSUME NEW r \in Request, NEW k \in Key, NEW b \in BOOLEAN, reserve(r, k, b)
        PROVE  TypeOK'
    BY <1>1 DEF reserve
  <1>2. ASSUME NEW r \in Request, load(r)
        PROVE  TypeOK'
    BY <1>0, <1>2 DEF load
  <1>3. ASSUME NEW r \in Request, judge(r) \/ judge_refuses(r) \/ create_refused(r)
        PROVE  TypeOK'
    BY <1>3 DEF judge, judge_refuses, create_refused
  <1>4. ASSUME NEW r \in Request, create_from_cart(r)
        PROVE  TypeOK'
    <2>1. PICK o \in Order :
            /\ Fresh(o)
            /\ ostatus' = [ostatus EXCEPT ![o] = "pending"]
            /\ okey' = [okey EXCEPT ![o] = rkey[r]]
            /\ olines' = [olines EXCEPT ![o] = lines[r]]
            /\ redeemed' = IF code[r] THEN redeemed \cup {o} ELSE redeemed
      BY <1>4 DEF create_from_cart
    <2>2. stock' \in [Tracked -> Nat]
      <3>1. \A i \in Tracked : i \in lines[r] => stock[i] >= 1
        BY <1>4 DEF create_from_cart, consume
      <3>2. \A i \in Tracked : i \in lines[r] => stock[i] - 1 \in Nat
        BY <3>1
      <3>3. stock' = [i \in Tracked |-> IF i \in lines[r] THEN stock[i] - 1 ELSE stock[i]]
        BY <1>4 DEF create_from_cart
      <3>4. QED
        BY <3>2, <3>3
    <2>3. used' \in Nat /\ cart' \in [Customer -> SUBSET Item]
      BY <1>0, <1>4 DEF create_from_cart
    <2>4. redeemed' \subseteq Live'
      BY <2>1
    <2>5. ostatus' \in [Order -> {"none", "pending", "cancelled"}]
          /\ okey' \in [Order -> Key \cup {"none"}]
          /\ olines' \in [Order -> SUBSET Item]
      BY <2>1
    <2>6. pc' \in [Request -> {"idle", "reserved", "loaded", "judged", "created", "failed"}]
          /\ UNCHANGED <<isOpen, keyst, rkey, code, lines, lost, unsaid>>
      BY <1>4 DEF create_from_cart
    <2>7. QED
      BY <2>2, <2>3, <2>4, <2>5, <2>6
  <1>5. ASSUME NEW r \in Request, complete(r) \/ release(r)
        PROVE  TypeOK'
    <2>1. over(r) /\ UNCHANGED <<cart, isOpen, stock, used, redeemed, ostatus, okey, olines, lost, unsaid>>
      BY <1>5 DEF complete, release
    <2>2. keyst' \in [Key -> {"none", "pending", "completed", "purged"}]
      <3>1. CASE complete(r)
        BY <3>1 DEF complete
      <3>2. CASE release(r)
        BY <3>2 DEF release
      <3>3. QED
        BY <1>5, <3>1, <3>2
    <2>3. /\ pc' \in [Request -> {"idle", "reserved", "loaded", "judged", "created", "failed"}]
          /\ rkey' \in [Request -> Key \cup {"none"}]
          /\ lines' \in [Request -> SUBSET Item]
      BY <2>1 DEF over
    <2>4. code' \in [Request -> BOOLEAN]
      BY <2>1 DEF over
    <2>5. QED
      BY <2>1, <2>2, <2>3, <2>4
  <1>6. ASSUME NEW r \in Request, publish_raises(r)
        PROVE  TypeOK'
    BY <1>0, <1>6 DEF publish_raises
  <1>7. ASSUME NEW r \in Request, crash(r)
        PROVE  TypeOK'
    BY <1>0, <1>7 DEF crash, over
  <1>8. ASSUME NEW k \in Key, purge_idempotency_keys(k)
        PROVE  TypeOK'
    BY <1>8 DEF purge_idempotency_keys
  <1>9. ASSUME NEW c \in Customer, NEW i \in Item, add_line(c, i) \/ remove_line(c, i)
        PROVE  TypeOK'
    BY <1>9 DEF add_line, remove_line
  <1>10. ASSUME pause_or_open
         PROVE  TypeOK'
    BY <1>10 DEF pause_or_open
  <1>11. ASSUME NEW o \in Order, cancel(o)
         PROVE  TypeOK'
    <2>1. stock' \in [Tracked -> Nat]
      BY <1>11 DEF cancel, restore
    <2>2. used' \in Nat
      BY <1>11 DEF cancel, release_code
    <2>3. redeemed' = redeemed \ {o} /\ ostatus' = [ostatus EXCEPT ![o] = "cancelled"]
      BY <1>11 DEF cancel, release_code
    <2>4. redeemed' \subseteq Live'
      BY <2>3
    <2>5. UNCHANGED <<cart, isOpen, keyst, okey, olines, pc, rkey, code, lines, lost, unsaid>>
      BY <1>11 DEF cancel
    <2>6. QED
      BY <2>1, <2>2, <2>3, <2>4, <2>5
  <1>12. CASE UNCHANGED vars
    BY <1>12 DEF vars
  <1>13. QED
    BY <1>1, <1>2, <1>3, <1>4, <1>5, <1>6, <1>7, <1>8, <1>9, <1>10, <1>11, <1>12 DEF Next, Ends

\* No stock and no count of uses goes below zero, a code is counted for live
\* orders only, and every column keeps to its values (OrderService,
\* StockService, PromotionService and IdempotencyKey).
THEOREM OrderIntakeTypes == Spec => []TypeOK
  BY KeyInvInit, KeyInvNext, TypesInit, TypesNext, PTL DEF Spec

-----------------------------------------------------------------------------
(* The stock and the quota *)

\* The live orders that took item i, and those that used the code for customer c.
Takers(i)  == {o \in Live : i \in olines[o]}
Redeems(c) == {o \in redeemed : Owner[okey[o]] = c}

LEMMA OrdersAreFinite ==
  TypeOK => /\ IsFiniteSet(redeemed)
            /\ \A i \in Item : IsFiniteSet(Takers(i))
            /\ \A c \in Customer : IsFiniteSet(Redeems(c))
  <1>1. IsFiniteSet(Order)
    BY IntakeAssumption, FS_Interval DEF Order
  <1>2. ASSUME TypeOK PROVE redeemed \in SUBSET Order
    BY <1>2 DEF TypeOK, Live
  <1>3. \A i \in Item : Takers(i) \in SUBSET Order
    BY DEF Takers, Live
  <1>4. ASSUME TypeOK PROVE \A c \in Customer : Redeems(c) \in SUBSET Order
    BY <1>2, <1>4 DEF Redeems
  <1>5. QED
    BY <1>1, <1>2, <1>3, <1>4, FS_Subset

\* What a creation and a cancellation do to the orders that took an item.
LEMMA StockNext == TypeOK /\ StockIsAccountedFor /\ [Next]_vars => StockIsAccountedFor'
  <1> SUFFICES ASSUME TypeOK, StockIsAccountedFor, [Next]_vars, NEW i \in Tracked
               PROVE  (stock[i] + Cardinality(Takers(i)) = InitialStock)'
    BY DEF StockIsAccountedFor, Takers
  <1>a. i \in Item /\ stock[i] \in Nat /\ stock[i] + Cardinality(Takers(i)) = InitialStock
    BY IntakeAssumption DEF TypeOK, StockIsAccountedFor, Takers
  <1>b. IsFiniteSet(Takers(i)) /\ Cardinality(Takers(i)) \in Nat
    BY <1>a, OrdersAreFinite, FS_CardinalityType
  <1>1. ASSUME NEW r \in Request, create_from_cart(r)
        PROVE  (stock[i] + Cardinality(Takers(i)) = InitialStock)'
    <2>1. PICK o \in Order :
            /\ ostatus[o] = "none"
            /\ ostatus' = [ostatus EXCEPT ![o] = "pending"]
            /\ olines' = [olines EXCEPT ![o] = lines[r]]
      BY <1>1 DEF create_from_cart, Fresh
    <2>2. stock'[i] = IF i \in lines[r] THEN stock[i] - 1 ELSE stock[i]
      BY <1>1 DEF create_from_cart
    <2>3. o \notin Takers(i)
      BY <2>1 DEF Takers, Live
    <2>4. Takers(i)' = IF i \in lines[r] THEN Takers(i) \cup {o} ELSE Takers(i)
      BY <2>1 DEF Takers, Live, TypeOK
    <2>5. Cardinality(Takers(i) \cup {o}) = Cardinality(Takers(i)) + 1
      BY <1>b, <2>3, FS_AddElement
    <2>6. QED
      BY <1>a, <1>b, <2>2, <2>4, <2>5
  <1>2. ASSUME NEW o \in Order, cancel(o)
        PROVE  (stock[i] + Cardinality(Takers(i)) = InitialStock)'
    <2>1. ostatus[o] = "pending" /\ ostatus' = [ostatus EXCEPT ![o] = "cancelled"]
          /\ olines' = olines
      BY <1>2 DEF cancel, Live
    <2>2. stock'[i] = IF i \in olines[o] THEN stock[i] + 1 ELSE stock[i]
      BY <1>2 DEF cancel, restore
    <2>3. Takers(i)' = Takers(i) \ {o}
      BY <2>1 DEF Takers, Live, TypeOK
    <2>4. o \in Takers(i) <=> i \in olines[o]
      BY <2>1 DEF Takers, Live
    <2>5. Cardinality(Takers(i) \ {o})
            = IF o \in Takers(i) THEN Cardinality(Takers(i)) - 1 ELSE Cardinality(Takers(i))
      BY <1>b, FS_RemoveElement
    <2>6. QED
      BY <1>a, <1>b, <2>2, <2>3, <2>4, <2>5
  <1>3. CASE UNCHANGED <<stock, ostatus, olines>>
    BY <1>a, <1>3 DEF Takers, Live
  <1>4. QED
    BY <1>1, <1>2, <1>3
    DEF Next, Ends, reserve, load, judge, judge_refuses, create_refused, complete, release,
        publish_raises, crash, purge_idempotency_keys, add_line, remove_line, pause_or_open,
        orderVars, vars

\* For any items and any quantities in stock: what is left and what the live
\* orders took always add up to what there was, whatever carts are ordered,
\* refused or cancelled at the same time (StockService.consume and restore).
THEOREM StockIsAccountedForInvariant == Spec => []StockIsAccountedFor
  <1>1. Init => StockIsAccountedFor
    <2> SUFFICES ASSUME Init, NEW i \in Tracked
                 PROVE  stock[i] + Cardinality(Takers(i)) = InitialStock
      BY DEF StockIsAccountedFor, Takers
    <2>1. Takers(i) = {} /\ stock[i] = InitialStock
      BY DEF Init, Takers, Live
    <2>2. QED
      BY <2>1, FS_EmptySet, IntakeAssumption
  <1>2. QED
    BY KeyInvInit, KeyInvNext, TypesInit, TypesNext, <1>1, StockNext, PTL DEF Spec

\* The writes decide, under the lock of the promotion: whatever the quotes
\* said, a use that would exceed a limit is refused, and one is given back
\* only for an order that has one.
LEMMA QuotaNext == KeyInv /\ TypeOK /\ QuotaIsRespected /\ [Next]_vars => QuotaIsRespected'
  <1> SUFFICES ASSUME KeyInv, TypeOK, QuotaIsRespected, [Next]_vars
               PROVE  QuotaIsRespected'
    OBVIOUS
  <1>a. /\ IsFiniteSet(redeemed) /\ used = Cardinality(redeemed) /\ used \in Nat
        /\ used <= UsageLimit
    BY OrdersAreFinite DEF QuotaIsRespected, TypeOK
  <1>b. \A c \in Customer : /\ IsFiniteSet(Redeems(c)) /\ Cardinality(Redeems(c)) \in Nat
                            /\ uses(c) = Cardinality(Redeems(c))
                            /\ Cardinality(Redeems(c)) <= UserLimit
    BY OrdersAreFinite, FS_CardinalityType DEF QuotaIsRespected, Redeems, uses
  <1>c. QuotaIsRespected' <=> /\ used' = Cardinality(redeemed')
                              /\ used' <= UsageLimit
                              /\ \A c \in Customer : Cardinality(Redeems(c)') <= UserLimit
    BY DEF QuotaIsRespected, Redeems, uses
  <1>d. redeemed \subseteq Order
    BY DEF TypeOK, Live
  <1>1. ASSUME NEW r \in Request, create_from_cart(r)
        PROVE  QuotaIsRespected'
    <2>1. PICK o \in Order :
            /\ ostatus[o] = "none"
            /\ okey' = [okey EXCEPT ![o] = rkey[r]]
            /\ redeemed' = IF code[r] THEN redeemed \cup {o} ELSE redeemed
      BY <1>1 DEF create_from_cart, Fresh
    <2>2. o \notin redeemed
      BY <2>1 DEF TypeOK, Live
    <2>3. okey \in [Order -> Key \cup {"none"}]
      BY DEF TypeOK
    <2>4. CASE ~ code[r]
      <3>1. redeemed' = redeemed /\ used' = used
        BY <1>1, <2>1, <2>4 DEF create_from_cart
      <3>2. \A c \in Customer : Redeems(c)' = Redeems(c)
        BY <1>d, <2>1, <2>2, <2>3, <3>1 DEF Redeems
      <3>3. QED
        BY <1>a, <1>b, <1>c, <3>1, <3>2
    <2>5. CASE code[r]
      <3>1. redeemed' = redeemed \cup {o} /\ used' = used + 1
        BY <1>1, <2>1, <2>5 DEF create_from_cart
      <3>2. used < UsageLimit /\ uses(me(r)) < UserLimit
        BY <1>1, <2>5 DEF create_from_cart, redeem, code_accepted
      <3>3. Cardinality(redeemed \cup {o}) = Cardinality(redeemed) + 1
        BY <1>a, <2>2, FS_AddElement
      <3>4. me(r) = Owner[rkey[r]]
        BY DEF me
      <3>5. ASSUME NEW c \in Customer
            PROVE  Cardinality(Redeems(c)') <= UserLimit
        <4>1. Redeems(c)' = IF me(r) = c THEN Redeems(c) \cup {o} ELSE Redeems(c)
          BY <1>d, <2>1, <2>2, <2>3, <3>1, <3>4 DEF Redeems
        <4>2. o \notin Redeems(c)
          BY <2>2 DEF Redeems
        <4>3. Cardinality(Redeems(c) \cup {o}) = Cardinality(Redeems(c)) + 1
          BY <1>b, <4>2, FS_AddElement
        <4>4. QED
          BY <1>b, <3>2, <4>1, <4>3, IntakeAssumption
      <3>6. QED
        BY <1>a, <1>c, <3>1, <3>2, <3>3, <3>5, IntakeAssumption
    <2>6. QED
      BY <2>4, <2>5
  <1>2. ASSUME NEW o \in Order, cancel(o)
        PROVE  QuotaIsRespected'
    <2>1. /\ used' = IF o \in redeemed /\ used > 0 THEN used - 1 ELSE used
          /\ redeemed' = redeemed \ {o}
          /\ okey' = okey
      BY <1>2 DEF cancel, release_code
    <2>2. Cardinality(redeemed \ {o})
            = IF o \in redeemed THEN Cardinality(redeemed) - 1 ELSE Cardinality(redeemed)
      BY <1>a, FS_RemoveElement
    <2>3. o \in redeemed => used > 0
      BY <1>a, FS_EmptySet
    <2>4. ASSUME NEW c \in Customer
          PROVE  Cardinality(Redeems(c)') <= UserLimit
      <3>1. Redeems(c)' \in SUBSET Redeems(c)
        BY <2>1 DEF Redeems
      <3>2. Cardinality(Redeems(c)') <= Cardinality(Redeems(c)) /\ Cardinality(Redeems(c)') \in Nat
        BY <1>b, <3>1, FS_Subset, FS_CardinalityType
      <3>3. QED
        BY <1>b, <3>2, IntakeAssumption
    <2>5. QED
      BY <1>a, <1>c, <2>1, <2>2, <2>3, <2>4, IntakeAssumption
  <1>3. CASE UNCHANGED <<used, redeemed, okey>>
    BY <1>3 DEF QuotaIsRespected, uses
  <1>4. QED
    BY <1>1, <1>2, <1>3
    DEF Next, Ends, reserve, load, judge, judge_refuses, create_refused, complete, release,
        publish_raises, crash, purge_idempotency_keys, add_line, remove_line, pause_or_open,
        orderVars, vars

\* F4 for any limits: the uses of a code are counted exactly and never exceed
\* its quota nor a customer's own, whatever is quoted at the same time
\* (PromotionService.redeem and release).
THEOREM QuotaIsRespectedInvariant == Spec => []QuotaIsRespected
  <1>1. Init => QuotaIsRespected
    <2> SUFFICES ASSUME Init PROVE QuotaIsRespected
      OBVIOUS
    <2>1. redeemed = {} /\ used = 0 /\ \A c \in Customer : {o \in redeemed : Owner[okey[o]] = c} = {}
      BY DEF Init
    <2>2. QED
      BY <2>1, FS_EmptySet, IntakeAssumption DEF QuotaIsRespected, uses
  <1>2. QED
    BY KeyInvInit, KeyInvNext, TypesInit, TypesNext, <1>1, QuotaNext, PTL DEF Spec
=============================================================================
