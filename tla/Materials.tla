------------------------------ MODULE Materials ------------------------------
(***************************************************************************)
(* The raw materials behind the orders of one kitchen: the rows of stock   *)
(* (apps/inventory/services.py), what an order promises, takes out and     *)
(* gives back along its life (MaterialService of                           *)
(* apps/production/services.py, called by apps/orders/services.py), and    *)
(* the losses and corrections that somebody else must approve.             *)
(*                                                                         *)
(* Every write of a quantity is one conditional UPDATE, so a movement is   *)
(* decided on the row as it is then.  What an order needs is not: _engager *)
(* first reads the recipe, the rows and what they promise, without a lock, *)
(* and writes the rows afterwards, in one transaction (its row locks are   *)
(* taken in a total order and kept, so the writes are one step).           *)
(*                                                                         *)
(* One dish; an order is one portion of it.                                *)
(***************************************************************************)
EXTENDS Integers, FiniteSets

CONSTANTS
  Order, Ingredient, Staff,
  ReceiptKey,   \* Idempotency-Key headers of receptions ...
  DeclareKey,   \* ... and of losses and corrections
  Ceiling,      \* Restaurant.stock_adjustment_ceiling, at a unit cost of one
  MaxPortion,   \* bound: quantity of an ingredient in a recipe
  MaxOnHand     \* bound: quantity of an ingredient in the cold room

ASSUME MaterialsAssumption ==
  /\ IsFiniteSet(Order)
  /\ Ceiling \in Nat
  /\ MaxPortion \in Nat
  /\ MaxOnHand \in Nat
  /\ ReceiptKey \cap DeclareKey = {}
  /\ "nobody" \notin Staff

VARIABLES
  opened,    \* ingredients with a StockItem row
  onHand,    \* StockItem.on_hand
  reserved,  \* StockItem.reserved
  recipe,    \* quantity of an ingredient in a portion, 0 if it has no line
  phase,     \* "promised" stands for pending and confirmed, "cooking" for the
             \* statuses from preparing on
  doing,     \* what the transaction that holds the order is about to write
  need,      \* what it read of the recipe, for the ingredients with a row
  promis,    \* what it read of the promises
  mkeys,     \* keys of the StockMovement journal
  request,   \* AdjustmentRequest.status, by key
  asked,     \* its ingredient, quantity and requested_by
  written,   \* how many movements a key has caused
  touched    \* a recipe or a row changed while an order counted on it

stockVars == <<opened, onHand, reserved>>
orderVars == <<phase, doing, need, promis>>
keyVars   == <<mkeys, request, asked, written>>
vars == <<stockVars, recipe, orderVars, keyVars, touched>>

Key == ReceiptKey \cup DeclareKey
Quantity == -MaxOnHand .. MaxOnHand
Nothing == [i \in Ingredient |-> 0]

-----------------------------------------------------------------------------
(* A movement: InventoryService._apply *)

\* Mutant: the table lost stock_item_reserved_within_on_hand.
check_NotWithinOnHand(h, p) == h >= 0 /\ p >= 0

\* What the filter of the UPDATE and the CHECK constraints of a row of stock
\* leave of a movement: no quantity below zero, no promise beyond what is held.
check(h, p) == h >= 0 /\ p >= 0 /\ p <= h

\* RECEIPT, WASTE, ADJUSTMENT: on_hand moves and does not go below zero.
apply_on_hand(i, q) ==
  /\ check(onHand[i] + q, reserved[i])
  /\ onHand[i] + q <= MaxOnHand
  /\ onHand' = [onHand EXCEPT ![i] = @ + q]

\* What the transaction of an order takes off the promises of a row: a
\* RESERVATION adds, a RELEASE gives back, and a preparation gives back what it
\* needs, capped by the promises it read (those of every order).
a_liberer(o, i) ==
  CASE doing[o] = "reserve" -> -need[o][i]
    [] doing[o] = "release" -> need[o][i]
    [] doing[o] = "consume" -> IF need[o][i] <= promis[o][i] THEN need[o][i] ELSE promis[o][i]

\* What it takes out of the cold room.
sortie(o, i) == IF doing[o] = "consume" THEN need[o][i] ELSE 0

\* Its conditional UPDATEs: promises first, then what is on hand.
sufficient(o) ==
  \A i \in Ingredient :
    /\ check(onHand[i], reserved[i] - a_liberer(o, i))
    /\ check(onHand[i] - sortie(o, i), reserved[i] - a_liberer(o, i))

-----------------------------------------------------------------------------
(* An order *)

\* The first half of _engager: requirements and the rows of stock, unlocked.
engager(o, what) ==
  /\ doing[o] = "nothing"
  /\ doing' = [doing EXCEPT ![o] = what]
  /\ need' = [need EXCEPT ![o] = [i \in Ingredient |-> IF i \in opened THEN recipe[i] ELSE 0]]
  /\ promis' = [promis EXCEPT ![o] = IF what = "consume" THEN reserved ELSE Nothing]
  /\ UNCHANGED <<stockVars, recipe, phase, keyVars, touched>>

create(o)  == phase[o] = "none" /\ engager(o, "reserve")
prepare(o) == phase[o] = "promised" /\ engager(o, "consume")
cancel(o)  == phase[o] = "promised" /\ engager(o, "release")

\* The transaction of o ends and forgets what it read.
Ends(o, p) ==
  /\ doing' = [doing EXCEPT ![o] = "nothing"]
  /\ need' = [need EXCEPT ![o] = Nothing]
  /\ promis' = [promis EXCEPT ![o] = Nothing]
  /\ phase' = [phase EXCEPT ![o] = p]
  /\ UNCHANGED <<opened, recipe, keyVars, touched>>

\* The second half: the rows of the order's ingredients, all or none.
writes(o, what, p) ==
  /\ doing[o] = what
  /\ sufficient(o)
  /\ reserved' = [i \in Ingredient |-> reserved[i] - a_liberer(o, i)]
  /\ onHand' = [i \in Ingredient |-> onHand[i] - sortie(o, i)]
  /\ Ends(o, p)

reserve(o) == writes(o, "reserve", "promised")
consume(o) == writes(o, "consume", "cooking")
release(o) == writes(o, "release", "cancelled")

\* InsufficientStock, or a constraint: everything rolls back.
refused(o) ==
  /\ doing[o] # "nothing"
  /\ ~ sufficient(o)
  /\ Ends(o, phase[o])
  /\ UNCHANGED <<onHand, reserved>>

\* Mutant: a cancellation gives the materials back whatever was cooked.
cancel_cooked_Releases(o) == phase[o] = "cooking" /\ engager(o, "release")

\* Cancelled once on the fire: nothing is given back.
cancel_cooked(o) ==
  /\ phase[o] = "cooking"
  /\ doing[o] = "nothing"
  /\ phase' = [phase EXCEPT ![o] = "cancelled"]
  /\ UNCHANGED <<stockVars, recipe, doing, need, promis, keyVars, touched>>

-----------------------------------------------------------------------------
(* Recipes and rows *)

\* An order counts on what it read: it is promised, or about to be.
Counted == \E o \in Order : phase[o] = "promised" \/ doing[o] # "nothing"

\* set_ingredient with another quantity, or remove_ingredient (quantity 0).
set_ingredient(i, q) ==
  /\ q # recipe[i]
  /\ recipe' = [recipe EXCEPT ![i] = q]
  /\ touched' = (touched \/ Counted)
  /\ UNCHANGED <<stockVars, orderVars, keyVars>>

open_item(i) ==
  /\ i \notin opened
  /\ opened' = opened \cup {i}
  /\ touched' = (touched \/ Counted)
  /\ UNCHANGED <<onHand, reserved, recipe, orderVars, keyVars>>

-----------------------------------------------------------------------------
(* Receptions, losses and corrections *)

\* A keyed movement: the row of stock is locked before the key is looked up.
Journal(k) == mkeys' = mkeys \cup {k} /\ written' = [written EXCEPT ![k] = @ + 1]

\* A reception; replayed with its key, it answers with the first movement.
receive(k, i, q) ==
  /\ i \in opened
  /\ k \notin mkeys
  /\ apply_on_hand(i, q)
  /\ Journal(k)
  /\ UNCHANGED <<opened, reserved, recipe, orderVars, request, asked, touched>>

\* Mutant: a declaration that waited is not recognised when it is replayed.
declared_MovementsOnly(k) == k \in mkeys

\* _rejeu_declaration: the key has a movement or a request; it is answered, or
\* refused if it describes something else.
declared(k) == k \in mkeys \/ request[k] # "none"

\* _declare.  No more is lost than there is; up to the ceiling the movement is
\* written at once ...
declare_applied(k, i, q) ==
  /\ i \in opened
  /\ ~ declared(k)
  /\ q >= -onHand[i] /\ q \in -Ceiling .. Ceiling
  /\ apply_on_hand(i, q)
  /\ Journal(k)
  /\ UNCHANGED <<opened, reserved, recipe, orderVars, request, asked, touched>>

\* ... beyond it, it waits for a second person.
declare_waits(k, s, i, q) ==
  /\ i \in opened
  /\ ~ declared(k)
  /\ q >= -onHand[i] /\ q \notin -Ceiling .. Ceiling
  /\ request' = [request EXCEPT ![k] = "pending"]
  /\ asked' = [asked EXCEPT ![k] = <<i, q, s>>]
  /\ UNCHANGED <<stockVars, recipe, orderVars, mkeys, written, touched>>

\* The movement of a request carries no key: the request keeps it.
approve(k, s) ==
  /\ request[k] = "pending"
  /\ s # asked[k][3]
  /\ apply_on_hand(asked[k][1], asked[k][2])
  /\ request' = [request EXCEPT ![k] = "approved"]
  /\ written' = [written EXCEPT ![k] = @ + 1]
  /\ UNCHANGED <<opened, reserved, recipe, orderVars, mkeys, asked, touched>>

reject(k, s) ==
  /\ request[k] = "pending"
  /\ s # asked[k][3]
  /\ request' = [request EXCEPT ![k] = "rejected"]
  /\ UNCHANGED <<stockVars, recipe, orderVars, mkeys, asked, written, touched>>

-----------------------------------------------------------------------------
Init ==
  /\ opened = {}
  /\ onHand = Nothing
  /\ reserved = Nothing
  /\ recipe = Nothing
  /\ phase = [o \in Order |-> "none"]
  /\ doing = [o \in Order |-> "nothing"]
  /\ need = [o \in Order |-> Nothing]
  /\ promis = [o \in Order |-> Nothing]
  /\ mkeys = {}
  /\ request = [k \in DeclareKey |-> "none"]
  /\ asked = [k \in DeclareKey |-> <<"nothing", 0, "nobody">>]
  /\ written = [k \in Key |-> 0]
  /\ touched = FALSE

Next ==
  \/ \E o \in Order :
       \/ create(o)
       \/ prepare(o)
       \/ cancel(o)
       \/ reserve(o)
       \/ consume(o)
       \/ release(o)
       \/ refused(o)
       \/ cancel_cooked(o)
  \/ \E i \in Ingredient, q \in 0 .. MaxPortion : set_ingredient(i, q)
  \/ \E i \in Ingredient : open_item(i)
  \/ \E k \in ReceiptKey, i \in Ingredient, q \in 1 .. MaxOnHand : receive(k, i, q)
  \/ \E k \in DeclareKey, i \in Ingredient, q \in Quantity \ {0} :
       \/ declare_applied(k, i, q)
       \/ \E s \in Staff : declare_waits(k, s, i, q)
  \/ \E k \in DeclareKey, s \in Staff : approve(k, s) \/ reject(k, s)

Spec == Init /\ [][Next]_vars

-----------------------------------------------------------------------------
(* Properties *)

Promised == {o \in Order : phase[o] = "promised"}

\* Every variable keeps its type; no quantity goes below zero.
TypeOK ==
  /\ opened \subseteq Ingredient
  /\ onHand \in [Ingredient -> 0 .. MaxOnHand]
  /\ reserved \in [Ingredient -> 0 .. MaxOnHand]
  /\ recipe \in [Ingredient -> 0 .. MaxPortion]
  /\ phase \in [Order -> {"none", "promised", "cooking", "cancelled"}]
  /\ doing \in [Order -> {"nothing", "reserve", "consume", "release"}]
  /\ need \in [Order -> [Ingredient -> 0 .. MaxPortion]]
  /\ promis \in [Order -> [Ingredient -> 0 .. MaxOnHand]]
  /\ mkeys \subseteq Key
  /\ request \in [DeclareKey -> {"none", "pending", "approved", "rejected"}]
  /\ written \in [Key -> Nat]
  /\ touched \in BOOLEAN

\* What the rows promise is exactly what the orders that are not cooked yet
\* will take, whatever reservations, preparations and cancellations
\* interleave, as long as nobody changed a recipe or opened a row under an
\* order (the code knows of these cases and settles for less).
PromisesAreExact ==
  ~ touched => \A i \in opened : reserved[i] = Cardinality(Promised) * recipe[i]

\* "Un cas que la reservation a normalement rendu impossible": an order whose
\* materials are promised can be put on the fire and can be cancelled,
\* whatever is lost, corrected or ordered besides.
PromiseIsKept ==
  ~ touched => \A o \in Promised : \A i \in opened :
    recipe[i] <= onHand[i] /\ recipe[i] <= reserved[i]

\* A reception or a declaration moves the stock once, however often it is sent
\* again, and whether it was written at once, approved or refused.
KeyWritesOnce == \A k \in Key : written[k] <= 1
=============================================================================
