--------------------------- MODULE MaterialsProofs ---------------------------
(***************************************************************************)
(* Theorems about Materials, for any finite number of orders, any          *)
(* ingredients, keys, staff, ceiling and bounds.                           *)
(***************************************************************************)
EXTENDS Materials, FiniteSetTheorems, TLAPS

-----------------------------------------------------------------------------
(* Keys *)

\* A key has caused the movement the journal has under it, or the one of its
\* approved request, and never both.
KeyInv ==
  /\ mkeys \subseteq Key
  /\ request \in [DeclareKey -> {"none", "pending", "approved", "rejected"}]
  /\ written \in [Key -> {0, 1}]
  /\ \A k \in ReceiptKey : written[k] = 1 => k \in mkeys
  /\ \A k \in DeclareKey : written[k] = 1 => k \in mkeys \/ request[k] = "approved"
  /\ \A k \in DeclareKey : request[k] # "none" => k \notin mkeys

\* Nothing is written yet.
LEMMA KeyInvInit == Init => KeyInv
  BY DEF Init, KeyInv, Key

\* A key is looked up, in the journal and in the requests, before it writes.
LEMMA KeyInvNext == KeyInv /\ [Next]_vars => KeyInv'
  <1> SUFFICES ASSUME KeyInv, [Next]_vars
               PROVE  KeyInv'
    OBVIOUS
  <1> USE MaterialsAssumption DEF KeyInv, Key
  <1>1. CASE UNCHANGED keyVars
    BY <1>1 DEF keyVars
  <1>2. ASSUME NEW k \in ReceiptKey, NEW i \in Ingredient, NEW q, receive(k, i, q)
        PROVE  KeyInv'
    BY <1>2 DEF receive, Journal
  <1>3. ASSUME NEW k \in DeclareKey, NEW i \in Ingredient, NEW q, declare_applied(k, i, q)
        PROVE  KeyInv'
    BY <1>3 DEF declare_applied, declared, Journal
  <1>4. ASSUME NEW k \in DeclareKey, NEW s, NEW i, NEW q, declare_waits(k, s, i, q)
        PROVE  KeyInv'
    BY <1>4 DEF declare_waits, declared
  <1>5. ASSUME NEW k \in DeclareKey, NEW s, approve(k, s)
        PROVE  KeyInv'
    BY <1>5 DEF approve
  <1>6. ASSUME NEW k \in DeclareKey, NEW s, reject(k, s)
        PROVE  KeyInv'
    BY <1>6 DEF reject
  <1>7. ASSUME NEW o \in Order,
               create(o) \/ prepare(o) \/ cancel(o) \/ reserve(o) \/ consume(o) \/ release(o)
                 \/ refused(o) \/ cancel_cooked(o)
        PROVE  UNCHANGED keyVars
    BY <1>7 DEF create, prepare, cancel, reserve, consume, release, refused, cancel_cooked,
                engager, writes, Ends
  <1>8. ASSUME NEW i, NEW q, set_ingredient(i, q) \/ open_item(i)
        PROVE  UNCHANGED keyVars
    BY <1>8 DEF set_ingredient, open_item
  <1>9. CASE UNCHANGED vars
    BY <1>1, <1>9 DEF vars
  <1>10. QED
    BY <1>1, <1>2, <1>3, <1>4, <1>5, <1>6, <1>7, <1>8, <1>9 DEF Next

\* A reception or a declaration moves the stock at most once (receive,
\* _declare and approve of InventoryService).
THEOREM KeyWritesOnceInvariant == Spec => []KeyWritesOnce
  <1>1. KeyInv => KeyWritesOnce
    BY DEF KeyInv, KeyWritesOnce
  <1>2. QED
    BY <1>1, KeyInvInit, KeyInvNext, PTL DEF Spec

-----------------------------------------------------------------------------
(* Promises *)

StockTypes ==
  /\ opened \subseteq Ingredient
  /\ onHand \in [Ingredient -> Int]
  /\ reserved \in [Ingredient -> Int]
  /\ \A i \in Ingredient : check(onHand[i], reserved[i])
  /\ recipe \in [Ingredient -> Nat]

OrderTypes ==
  /\ phase \in [Order -> {"none", "promised", "cooking", "cancelled"}]
  /\ doing \in [Order -> {"nothing", "reserve", "consume", "release"}]
  /\ need \in [Order -> [Ingredient -> Int]]
  /\ promis \in [Order -> [Ingredient -> Int]]
  /\ \A o \in Order : \A i \in Ingredient : need[o][i] >= 0 /\ promis[o][i] >= 0

\* A row that is not open is empty, and nobody will write it.
ClosedRows ==
  \A i \in Ingredient \ opened :
    reserved[i] = 0 /\ \A o \in Order : need[o][i] = 0

\* The row of the order is locked while its materials are moved.
WorkFollowsPhase ==
  \A o \in Order :
    /\ doing[o] = "reserve" => phase[o] = "none"
    /\ doing[o] \in {"consume", "release"} => phase[o] = "promised"

\* While nothing was touched, what a transaction read of the recipe is still
\* so, and what it read of the promises covered it.
ReadingsHold ==
  ~ touched => \A o \in Order : \A i \in opened :
    /\ doing[o] # "nothing" => need[o][i] = recipe[i]
    /\ doing[o] = "consume" => recipe[i] <= promis[o][i]

\* The inductive strengthening of PromisesAreExact.
PromiseInv ==
  /\ StockTypes
  /\ OrderTypes
  /\ ClosedRows
  /\ WorkFollowsPhase
  /\ ReadingsHold
  /\ PromisesAreExact

\* Arithmetic of a portion more and a portion less.
LEMMA Portions ==
  ASSUME NEW n \in Nat, NEW r \in Nat
  PROVE  /\ (n + 1) * r = n * r + r
         /\ n >= 1 => n * r >= r /\ (n - 1) * r = n * r - r
         /\ 0 * r = 0
  <1>1. (n + 1) * r = n * r + r
    OBVIOUS
  <1>2. ASSUME n >= 1
        PROVE  (n - 1) * r = n * r - r /\ n * r >= r
    <2>1. (n - 1) * r = n * r - r
      OBVIOUS
    <2>2. (n - 1) * r >= 0
      BY <1>2
    <2>3. n * r \in Nat
      OBVIOUS
    <2>4. QED
      BY <2>1, <2>2, <2>3
  <1>3. QED
    BY <1>1, <1>2

\* The orders that hold a promise are finitely many.
LEMMA PromisedIsFinite ==
  /\ IsFiniteSet(Promised) /\ Cardinality(Promised) \in Nat
  /\ \A o \in Promised : Cardinality(Promised) >= 1
  <1>1. IsFiniteSet(Promised)
    BY MaterialsAssumption, FS_Subset DEF Promised
  <1>2. Cardinality(Promised) \in Nat
    BY <1>1, FS_CardinalityType
  <1>3. Cardinality(Promised) = 0 => Promised = {}
    BY <1>1, FS_EmptySet
  <1>4. QED
    BY <1>1, <1>2, <1>3

\* An untouched order finds its portion among the promises and on hand.
LEMMA ExactPromisesSuffice ==
  ASSUME PromiseInv, ~ touched, NEW o \in Order, phase[o] = "promised", NEW i \in opened
  PROVE  recipe[i] <= reserved[i] /\ recipe[i] <= onHand[i]
  <1>1. Cardinality(Promised) \in Nat /\ Cardinality(Promised) >= 1
    BY PromisedIsFinite DEF Promised
  <1>2. recipe[i] \in Nat /\ onHand[i] \in Int /\ reserved[i] <= onHand[i]
    BY DEF PromiseInv, StockTypes, check
  <1>3. reserved[i] = Cardinality(Promised) * recipe[i]
    BY DEF PromiseInv, PromisesAreExact
  <1>4. Cardinality(Promised) * recipe[i] >= recipe[i]
    BY <1>1, <1>2, Portions
  <1>5. recipe[i] <= reserved[i]
    BY <1>3, <1>4
  <1>6. reserved[i] \in Int
    BY DEF PromiseInv, StockTypes
  <1>7. QED
    BY <1>2, <1>5, <1>6

\* No row is open, no order exists.
LEMMA PromiseInvInit == Init => PromiseInv
  <1> SUFFICES ASSUME Init
               PROVE  PromiseInv
    OBVIOUS
  <1>1. StockTypes
    BY DEF Init, StockTypes, check, Nothing
  <1>2. OrderTypes
    BY DEF Init, OrderTypes, Nothing
  <1>3. ClosedRows /\ WorkFollowsPhase
    BY DEF Init, ClosedRows, WorkFollowsPhase, Nothing
  <1>4. ReadingsHold /\ PromisesAreExact
    BY DEF Init, ReadingsHold, PromisesAreExact
  <1>5. QED
    BY <1>1, <1>2, <1>3, <1>4 DEF PromiseInv

\* Reading the recipe and the rows, for any of the three moments.
LEMMA PromiseInvReads ==
  ASSUME PromiseInv, NEW o \in Order, NEW what \in {"reserve", "consume", "release"},
         engager(o, what),
         what = "reserve" => phase[o] = "none",
         what # "reserve" => phase[o] = "promised"
  PROVE  PromiseInv'
  <1>1. StockTypes' /\ OrderTypes'
    BY DEF PromiseInv, engager, StockTypes, OrderTypes, stockVars, Nothing, check
  <1>2. ClosedRows' /\ WorkFollowsPhase'
    BY DEF PromiseInv, engager, StockTypes, OrderTypes, ClosedRows, WorkFollowsPhase, stockVars
  <1>3. ReadingsHold'
    <2> SUFFICES ASSUME ~ touched, NEW p \in Order, NEW i \in opened
                 PROVE  /\ doing'[p] # "nothing" => need'[p][i] = recipe[i]
                        /\ doing'[p] = "consume" => recipe[i] <= promis'[p][i]
      BY DEF engager, ReadingsHold, stockVars
    <2>1. i \in Ingredient
      BY DEF PromiseInv, StockTypes
    <2>2. CASE p # o
      BY <2>2 DEF PromiseInv, OrderTypes, ReadingsHold, engager
    <2>3. CASE p = o
      <3>1. need'[p][i] = recipe[i]
        BY <2>1, <2>3 DEF PromiseInv, OrderTypes, engager
      <3>2. ASSUME what = "consume"
            PROVE  recipe[i] <= promis'[p][i]
        BY <2>1, <2>3, <3>2, ExactPromisesSuffice DEF PromiseInv, OrderTypes, engager
      <3>3. doing'[p] = what
        BY <2>3 DEF PromiseInv, OrderTypes, engager
      <3>4. QED
        BY <3>1, <3>2, <3>3
    <2>4. QED
      BY <2>2, <2>3
  <1>4. PromisesAreExact'
    BY DEF PromiseInv, PromisesAreExact, Promised, engager, stockVars
  <1>5. QED
    BY <1>1, <1>2, <1>3, <1>4 DEF PromiseInv

\* The transaction of o ends; everybody else is where they were.
LEMMA WritesEnd ==
  ASSUME PromiseInv, NEW o \in Order,
         NEW p \in {"none", "promised", "cooking", "cancelled"}, Ends(o, p)
  PROVE  /\ OrderTypes' /\ WorkFollowsPhase' /\ ReadingsHold'
         /\ \A x \in Order : \A i \in Ingredient \ opened : need'[x][i] = 0
  <1>1. OrderTypes'
    BY DEF PromiseInv, Ends, OrderTypes, Nothing
  <1>2. WorkFollowsPhase'
    BY DEF PromiseInv, Ends, OrderTypes, WorkFollowsPhase
  <1>3. ReadingsHold'
    <2> SUFFICES ASSUME ~ touched, NEW x \in Order, NEW i \in opened
                 PROVE  /\ doing'[x] # "nothing" => need'[x][i] = recipe[i]
                        /\ doing'[x] = "consume" => recipe[i] <= promis'[x][i]
      BY DEF Ends, ReadingsHold
    <2>1. CASE x # o
      BY <2>1 DEF PromiseInv, OrderTypes, ReadingsHold, Ends
    <2>2. CASE x = o
      BY <2>2 DEF PromiseInv, OrderTypes, Ends
    <2>3. QED
      BY <2>1, <2>2
  <1>4. \A x \in Order : \A i \in Ingredient \ opened : need'[x][i] = 0
    BY DEF PromiseInv, OrderTypes, ClosedRows, Ends, Nothing
  <1>5. QED
    BY <1>1, <1>2, <1>3, <1>4

\* The UPDATEs of an order leave every row within its constraints.
LEMMA WritesStock ==
  ASSUME PromiseInv, NEW o \in Order,
         NEW what \in {"reserve", "consume", "release"},
         NEW p \in {"none", "promised", "cooking", "cancelled"}, writes(o, what, p)
  PROVE  StockTypes' /\ ClosedRows'
  <1>1. ASSUME NEW i \in Ingredient
        PROVE  /\ a_liberer(o, i) \in Int
               /\ sortie(o, i) \in Int
               /\ i \notin opened => a_liberer(o, i) = 0
    <2>1. /\ need[o][i] \in Int /\ promis[o][i] \in Int
          /\ need[o][i] >= 0 /\ promis[o][i] >= 0
      BY DEF PromiseInv, OrderTypes
    <2>2. i \notin opened => need[o][i] = 0
      BY DEF PromiseInv, ClosedRows
    <2>3. doing[o] = what
      BY DEF writes
    <2>4. QED
      BY <2>1, <2>2, <2>3 DEF a_liberer, sortie
  <1>2. StockTypes'
    BY <1>1 DEF PromiseInv, StockTypes, writes, sufficient, Ends, check
  <1>3. ASSUME NEW i \in Ingredient \ opened
        PROVE  reserved'[i] = 0
    <2>1. reserved[i] = 0
      BY DEF PromiseInv, ClosedRows
    <2>2. QED
      BY <1>1, <2>1 DEF writes
  <1>4. Ends(o, p)
    BY DEF writes
  <1>5. ClosedRows'
    BY <1>3, <1>4, WritesEnd DEF ClosedRows, Ends
  <1>6. QED
    BY <1>2, <1>5

\* An order more: the rows promise one portion more.
LEMMA PromiseInvReserve ==
  ASSUME PromiseInv, NEW o \in Order, reserve(o)
  PROVE  PromiseInv'
  <1>1. writes(o, "reserve", "promised") /\ Ends(o, "promised")
    BY DEF reserve, writes
  <1>2. StockTypes' /\ OrderTypes' /\ ClosedRows' /\ WorkFollowsPhase' /\ ReadingsHold'
    BY <1>1, WritesStock, WritesEnd
  <1>3. PromisesAreExact'
    <2> SUFFICES ASSUME ~ touched, NEW i \in opened
                 PROVE  reserved'[i] = Cardinality(Promised') * recipe[i]
      BY <1>1 DEF PromisesAreExact, Ends
    <2>1. o \notin Promised /\ Promised' = Promised \cup {o}
      BY <1>1 DEF PromiseInv, WorkFollowsPhase, OrderTypes, Promised, writes, Ends
    <2>2. Cardinality(Promised') = Cardinality(Promised) + 1
      BY <2>1, PromisedIsFinite, FS_AddElement
    <2>3. i \in Ingredient /\ recipe[i] \in Nat /\ reserved[i] \in Int
      BY DEF PromiseInv, StockTypes
    <2>4. doing[o] = "reserve" /\ need[o][i] = recipe[i]
      BY <1>1 DEF PromiseInv, ReadingsHold, writes
    <2>5. a_liberer(o, i) = -recipe[i]
      BY <2>4 DEF a_liberer
    <2>6. reserved'[i] = reserved[i] + recipe[i]
      BY <1>1, <2>3, <2>5 DEF writes
    <2>7. reserved[i] = Cardinality(Promised) * recipe[i]
      BY DEF PromiseInv, PromisesAreExact
    <2>8. (Cardinality(Promised) + 1) * recipe[i] = Cardinality(Promised) * recipe[i] + recipe[i]
      BY <2>3, PromisedIsFinite, Portions
    <2>9. QED
      BY <2>2, <2>6, <2>7, <2>8
  <1>4. QED
    BY <1>2, <1>3 DEF PromiseInv

\* An order less, on the fire or cancelled: the rows promise one portion less.
LEMMA PromiseInvLeaves ==
  ASSUME PromiseInv, NEW o \in Order, consume(o) \/ release(o)
  PROVE  PromiseInv'
  <1>1. PICK what \in {"consume", "release"}, p \in {"cooking", "cancelled"} :
          writes(o, what, p)
    BY DEF consume, release
  <1>2. Ends(o, p) /\ doing[o] = what
    BY <1>1 DEF writes
  <1>3. StockTypes' /\ OrderTypes' /\ ClosedRows' /\ WorkFollowsPhase' /\ ReadingsHold'
    BY <1>1, <1>2, WritesStock, WritesEnd
  <1>4. PromisesAreExact'
    <2> SUFFICES ASSUME ~ touched, NEW i \in opened
                 PROVE  reserved'[i] = Cardinality(Promised') * recipe[i]
      BY <1>2 DEF PromisesAreExact, Ends
    <2>1. o \in Promised /\ Promised' = Promised \ {o}
      BY <1>2 DEF PromiseInv, WorkFollowsPhase, OrderTypes, Promised, Ends
    <2>2. Cardinality(Promised') = Cardinality(Promised) - 1
      BY <2>1, PromisedIsFinite, FS_RemoveElement
    <2>3. i \in Ingredient /\ recipe[i] \in Nat /\ reserved[i] \in Int
      BY DEF PromiseInv, StockTypes
    <2>4. need[o][i] = recipe[i] /\ (what = "consume" => recipe[i] <= promis[o][i])
      BY <1>2 DEF PromiseInv, ReadingsHold
    <2>5. a_liberer(o, i) = recipe[i]
      BY <1>2, <2>4 DEF a_liberer
    <2>6. reserved'[i] = reserved[i] - recipe[i]
      BY <1>1, <2>3, <2>5 DEF writes
    <2>7. reserved[i] = Cardinality(Promised) * recipe[i]
      BY DEF PromiseInv, PromisesAreExact
    <2>8. (Cardinality(Promised) - 1) * recipe[i] = Cardinality(Promised) * recipe[i] - recipe[i]
      BY <2>1, <2>3, PromisedIsFinite, Portions
    <2>9. QED
      BY <2>2, <2>6, <2>7, <2>8
  <1>5. QED
    BY <1>3, <1>4 DEF PromiseInv

\* A refusal, and a cancellation of what is cooked: no promise moves.
LEMMA PromiseInvKeeps ==
  ASSUME PromiseInv, NEW o \in Order, refused(o) \/ cancel_cooked(o)
  PROVE  PromiseInv'
  <1>1. CASE refused(o)
    <2>1. /\ Ends(o, phase[o])
          /\ UNCHANGED <<stockVars, recipe, touched>>
      BY <1>1 DEF refused, Ends, stockVars
    <2>2. phase[o] \in {"none", "promised", "cooking", "cancelled"}
      BY DEF PromiseInv, OrderTypes
    <2>3. /\ OrderTypes' /\ WorkFollowsPhase' /\ ReadingsHold'
          /\ \A x \in Order : \A i \in Ingredient \ opened : need'[x][i] = 0
      BY <2>1, <2>2, WritesEnd
    <2>4. StockTypes'
      BY <2>1 DEF PromiseInv, StockTypes, stockVars
    <2>5. ClosedRows'
      BY <2>1, <2>3 DEF PromiseInv, ClosedRows, stockVars
    <2>6. phase' = phase
      BY <2>1 DEF PromiseInv, OrderTypes, Ends
    <2>7. PromisesAreExact'
      BY <2>1, <2>6 DEF PromiseInv, PromisesAreExact, Promised, stockVars
    <2>8. QED
      BY <2>3, <2>4, <2>5, <2>7 DEF PromiseInv
  <1>2. CASE cancel_cooked(o)
    <2>1. StockTypes' /\ ClosedRows'
      BY <1>2 DEF PromiseInv, cancel_cooked, StockTypes, ClosedRows, stockVars
    <2>2. OrderTypes'
      BY <1>2 DEF PromiseInv, cancel_cooked, OrderTypes
    <2>3. WorkFollowsPhase' /\ ReadingsHold'
      BY <1>2 DEF PromiseInv, cancel_cooked, OrderTypes, WorkFollowsPhase, ReadingsHold, stockVars
    <2>4. Promised' = Promised
      BY <1>2 DEF PromiseInv, cancel_cooked, OrderTypes, Promised
    <2>5. PromisesAreExact'
      BY <1>2, <2>4 DEF PromiseInv, cancel_cooked, PromisesAreExact, stockVars
    <2>6. QED
      BY <2>1, <2>2, <2>3, <2>5 DEF PromiseInv
  <1>3. QED
    BY <1>1, <1>2

\* Another quantity in the recipe, another row: untouched means that no order
\* is there to count on it.
LEMMA PromiseInvRecipe ==
  ASSUME PromiseInv, NEW i \in Ingredient, NEW q \in Nat,
         set_ingredient(i, q) \/ open_item(i)
  PROVE  PromiseInv'
  <1>1. touched' = (touched \/ Counted) /\ UNCHANGED <<onHand, reserved, orderVars>>
    BY DEF set_ingredient, open_item, stockVars
  <1>2. StockTypes'
    BY <1>1 DEF PromiseInv, StockTypes, set_ingredient, open_item, stockVars
  <1>3. OrderTypes' /\ WorkFollowsPhase'
    BY <1>1 DEF PromiseInv, OrderTypes, WorkFollowsPhase, orderVars
  <1>4. opened \subseteq opened'
    BY DEF set_ingredient, open_item, stockVars
  <1>5. ClosedRows'
    BY <1>1, <1>4 DEF PromiseInv, ClosedRows, orderVars
  <1>6. ReadingsHold' /\ PromisesAreExact'
    <2> SUFFICES ASSUME ~ touched'
                 PROVE  ReadingsHold' /\ PromisesAreExact'
      BY DEF ReadingsHold, PromisesAreExact
    <2>1. ~ touched /\ ~ Counted
      BY <1>1
    <2>2. Promised = {} /\ Promised' = {} /\ \A o \in Order : doing'[o] = "nothing"
      BY <1>1, <2>1 DEF Counted, Promised, orderVars
    <2>3. ReadingsHold'
      BY <2>2 DEF ReadingsHold
    <2>4. Cardinality(Promised) = 0 /\ Cardinality(Promised') = 0
      BY <2>2, FS_EmptySet
    <2>5. ASSUME NEW j \in opened'
          PROVE  reserved'[j] = Cardinality(Promised') * recipe'[j]
      <3>1. j \in Ingredient /\ recipe[j] \in Nat /\ recipe'[j] \in Nat
        BY <1>2, <2>5 DEF PromiseInv, StockTypes
      <3>2. 0 * recipe[j] = 0 /\ 0 * recipe'[j] = 0
        BY <3>1
      <3>3. reserved[j] = 0
        BY <2>1, <2>4, <3>1, <3>2 DEF PromiseInv, PromisesAreExact, ClosedRows
      <3>4. QED
        BY <1>1, <2>4, <3>2, <3>3
    <2>6. QED
      BY <2>3, <2>5 DEF PromisesAreExact
  <1>7. QED
    BY <1>2, <1>3, <1>5, <1>6 DEF PromiseInv

\* A reception, a loss or a correction moves what is on hand, within its
\* constraints, and no promise.
LEMMA PromiseInvMoves ==
  ASSUME PromiseInv, NEW i \in Ingredient, NEW q \in Int, apply_on_hand(i, q),
         UNCHANGED <<opened, reserved, recipe, orderVars, touched>>
  PROVE  PromiseInv'
  <1>1. StockTypes'
    BY DEF PromiseInv, StockTypes, apply_on_hand, check
  <1>2. OrderTypes' /\ WorkFollowsPhase' /\ ReadingsHold'
    BY DEF PromiseInv, OrderTypes, WorkFollowsPhase, ReadingsHold, orderVars
  <1>3. ClosedRows' /\ PromisesAreExact'
    BY DEF PromiseInv, ClosedRows, PromisesAreExact, Promised, orderVars
  <1>4. QED
    BY <1>1, <1>2, <1>3 DEF PromiseInv

\* A request that waits is about an ingredient and a quantity.
AskedInv ==
  /\ request \in [DeclareKey -> {"none", "pending", "approved", "rejected"}]
  /\ DOMAIN asked = DeclareKey
  /\ \A k \in DeclareKey : request[k] = "pending" => asked[k] \in Ingredient \X Int \X Staff

\* Only declare_waits writes what is asked.
LEMMA AskedInvNext == AskedInv /\ [Next]_vars => AskedInv'
  <1> SUFFICES ASSUME AskedInv, [Next]_vars
               PROVE  AskedInv'
    OBVIOUS
  <1>1. CASE UNCHANGED <<request, asked>>
    BY <1>1 DEF AskedInv
  <1>2. ASSUME NEW k \in DeclareKey, NEW s \in Staff, NEW i \in Ingredient, NEW q \in Quantity,
               declare_waits(k, s, i, q)
        PROVE  AskedInv'
    <2>1. q \in Int
      BY <1>2, MaterialsAssumption DEF Quantity
    <2>2. QED
      BY <1>2, <2>1 DEF AskedInv, declare_waits
  <1>3. ASSUME NEW k \in DeclareKey, NEW s \in Staff, approve(k, s) \/ reject(k, s)
        PROVE  AskedInv'
    BY <1>3 DEF AskedInv, approve, reject
  <1>4. ASSUME NEW o \in Order,
               create(o) \/ prepare(o) \/ cancel(o) \/ reserve(o) \/ consume(o) \/ release(o)
                 \/ refused(o) \/ cancel_cooked(o)
        PROVE  UNCHANGED <<request, asked>>
    BY <1>4 DEF create, prepare, cancel, reserve, consume, release, refused, cancel_cooked,
                engager, writes, Ends, keyVars
  <1>5. ASSUME NEW k, NEW i, NEW q,
               set_ingredient(i, q) \/ open_item(i) \/ receive(k, i, q) \/ declare_applied(k, i, q)
        PROVE  UNCHANGED <<request, asked>>
    BY <1>5 DEF set_ingredient, open_item, receive, declare_applied, keyVars
  <1>6. CASE UNCHANGED vars
    BY <1>1, <1>6 DEF vars, keyVars
  <1>7. QED
    BY <1>1, <1>2, <1>3, <1>4, <1>5, <1>6 DEF Next

\* Every action keeps the promises exact.
LEMMA PromiseInvNext == AskedInv /\ PromiseInv /\ [Next]_vars => PromiseInv'
  <1> SUFFICES ASSUME AskedInv, PromiseInv, [Next]_vars
               PROVE  PromiseInv'
    OBVIOUS
  <1>1. ASSUME NEW o \in Order, create(o) \/ prepare(o) \/ cancel(o)
        PROVE  PromiseInv'
    <2>1. CASE create(o)
      BY <2>1, PromiseInvReads DEF create
    <2>2. CASE prepare(o)
      BY <2>2, PromiseInvReads DEF prepare
    <2>3. CASE cancel(o)
      BY <2>3, PromiseInvReads DEF cancel
    <2>4. QED
      BY <1>1, <2>1, <2>2, <2>3
  <1>2. ASSUME NEW o \in Order,
               reserve(o) \/ consume(o) \/ release(o) \/ refused(o) \/ cancel_cooked(o)
        PROVE  PromiseInv'
    BY <1>2, PromiseInvReserve, PromiseInvLeaves, PromiseInvKeeps
  <1>3. ASSUME NEW i \in Ingredient, NEW q \in 0 .. MaxPortion, set_ingredient(i, q)
        PROVE  PromiseInv'
    BY <1>3, MaterialsAssumption, PromiseInvRecipe
  <1>4. ASSUME NEW i \in Ingredient, open_item(i)
        PROVE  PromiseInv'
    BY <1>4, PromiseInvRecipe
  <1>5. ASSUME NEW k, NEW i \in Ingredient, NEW q \in Quantity,
               receive(k, i, q) \/ declare_applied(k, i, q)
        PROVE  PromiseInv'
    <2>1. q \in Int
      BY MaterialsAssumption DEF Quantity
    <2>2. /\ apply_on_hand(i, q)
          /\ UNCHANGED <<opened, reserved, recipe, orderVars, touched>>
      BY <1>5 DEF receive, declare_applied
    <2>3. QED
      BY <2>1, <2>2, PromiseInvMoves
  <1>6. ASSUME NEW k \in DeclareKey, NEW s \in Staff, approve(k, s)
        PROVE  PromiseInv'
    <2>1. asked[k][1] \in Ingredient /\ asked[k][2] \in Int
      BY <1>6 DEF approve, AskedInv
    <2>2. /\ apply_on_hand(asked[k][1], asked[k][2])
          /\ UNCHANGED <<opened, reserved, recipe, orderVars, touched>>
      BY <1>6 DEF approve
    <2>3. QED
      BY <2>1, <2>2, PromiseInvMoves
  <1>7. CASE UNCHANGED <<stockVars, recipe, orderVars, touched>>
    BY <1>7 DEF PromiseInv, StockTypes, OrderTypes, ClosedRows, WorkFollowsPhase, ReadingsHold,
                PromisesAreExact, Promised, stockVars, orderVars
  <1>8. ASSUME NEW k, NEW s, NEW i, NEW q, declare_waits(k, s, i, q) \/ reject(k, s)
        PROVE  PromiseInv'
    BY <1>7, <1>8 DEF declare_waits, reject
  <1>9. CASE UNCHANGED vars
    BY <1>7, <1>9 DEF vars
  <1>10. 1 .. MaxOnHand \subseteq Quantity
    BY MaterialsAssumption DEF Quantity
  <1>11. QED
    BY <1>1, <1>2, <1>3, <1>4, <1>5, <1>6, <1>8, <1>9, <1>10 DEF Next

\* PromiseInv holds in every reachable state.
THEOREM PromiseInvariant == Spec => [](AskedInv /\ PromiseInv)
  <1>1. Init => AskedInv
    BY DEF Init, AskedInv
  <1>2. QED
    BY <1>1, AskedInvNext, PromiseInvInit, PromiseInvNext, PTL DEF Spec

\* The rows of stock promise exactly what the orders in the queue will take
\* (reserve, consume and release of MaterialService).
THEOREM PromisesAreExactInvariant == Spec => []PromisesAreExact
  <1>1. PromiseInv => PromisesAreExact
    BY DEF PromiseInv
  <1>2. QED
    BY <1>1, PromiseInvariant, PTL

\* An order whose materials were promised is never short of them, whatever is
\* lost, corrected or ordered besides.
THEOREM PromiseIsKeptInvariant == Spec => []PromiseIsKept
  <1>1. PromiseInv => PromiseIsKept
    BY ExactPromisesSuffice DEF PromiseIsKept, Promised
  <1>2. QED
    BY <1>1, PromiseInvariant, PTL
-----------------------------------------------------------------------------
(* Types *)

\* What the invariants above leave of TypeOK: the room of the cold room and
\* the size of a portion, in the rows and in what was read of them.
Bounds ==
  /\ \A i \in Ingredient : onHand[i] <= MaxOnHand /\ recipe[i] <= MaxPortion
  /\ \A o \in Order, i \in Ingredient : need[o][i] <= MaxPortion /\ promis[o][i] <= MaxOnHand
  /\ touched \in BOOLEAN

LEMMA BoundsInit == Init => Bounds
  <1> SUFFICES ASSUME Init PROVE Bounds
    OBVIOUS
  <1> USE MaterialsAssumption DEF Init
  <1>1. \A i \in Ingredient : Nothing[i] = 0
    BY DEF Nothing
  <1>2. \A i \in Ingredient : onHand[i] <= MaxOnHand /\ recipe[i] <= MaxPortion
    BY <1>1
  <1>3. \A o \in Order, i \in Ingredient : need[o][i] <= MaxPortion /\ promis[o][i] <= MaxOnHand
    BY <1>1
  <1>4. touched \in BOOLEAN
    OBVIOUS
  <1>5. QED
    BY <1>2, <1>3, <1>4 DEF Bounds

\* Only receptions, declarations and approvals fill the cold room, and they
\* look at what is in it; what a transaction reads is within what it reads of.
LEMMA BoundsNext == AskedInv /\ PromiseInv /\ Bounds /\ [Next]_vars => Bounds'
  <1> SUFFICES ASSUME AskedInv, PromiseInv, Bounds, [Next]_vars
               PROVE  Bounds'
    OBVIOUS
  <1> USE MaterialsAssumption
  <1>0. StockTypes /\ OrderTypes
    BY DEF PromiseInv
  <1>1. ASSUME NEW o \in Order, NEW what, engager(o, what)
        PROVE  Bounds'
    <2>1. \A i \in Ingredient : reserved[i] <= MaxOnHand
      BY <1>0 DEF StockTypes, Bounds, check
    <2>2. \A i \in Ingredient : /\ [j \in Ingredient |-> IF j \in opened THEN recipe[j] ELSE 0][i] <= MaxPortion
                                /\ (IF what = "consume" THEN reserved ELSE Nothing)[i] <= MaxOnHand
      BY <2>1 DEF Bounds, Nothing
    <2>3. QED
      BY <1>0, <1>1, <2>2 DEF engager, Bounds, OrderTypes, stockVars
  <1>2. ASSUME NEW o \in Order, NEW p, Ends(o, p),
               onHand' = onHand \/ onHand' = [i \in Ingredient |-> onHand[i] - sortie(o, i)]
        PROVE  Bounds'
    <2>1. \A i \in Ingredient : onHand'[i] <= MaxOnHand
      <3>1. \A i \in Ingredient : sortie(o, i) \in Int /\ sortie(o, i) >= 0
        BY <1>0 DEF sortie, OrderTypes
      <3>2. \A i \in Ingredient : onHand'[i] = onHand[i] \/ onHand'[i] = onHand[i] - sortie(o, i)
        BY <1>2
      <3>3. QED
        BY <1>0, <3>1, <3>2 DEF StockTypes, Bounds
    <2>2. \A q \in Order, i \in Ingredient : need'[q][i] <= MaxPortion /\ promis'[q][i] <= MaxOnHand
      BY <1>0, <1>2 DEF Ends, OrderTypes, Bounds, Nothing
    <2>3. QED
      BY <1>2, <2>1, <2>2 DEF Ends, Bounds
  <1>3. ASSUME NEW o \in Order, cancel_cooked(o)
        PROVE  Bounds'
    BY <1>3 DEF cancel_cooked, Bounds, stockVars
  <1>4. ASSUME NEW i \in Ingredient, NEW q \in 0 .. MaxPortion, set_ingredient(i, q)
        PROVE  Bounds'
    BY <1>0, <1>4 DEF set_ingredient, Bounds, StockTypes, stockVars, orderVars
  <1>5. ASSUME NEW i \in Ingredient, open_item(i)
        PROVE  Bounds'
    BY <1>5 DEF open_item, Bounds, orderVars
  <1>6. ASSUME NEW i \in Ingredient, NEW q \in Int, apply_on_hand(i, q),
               UNCHANGED <<recipe, orderVars, touched>>
        PROVE  Bounds'
    BY <1>0, <1>6 DEF apply_on_hand, Bounds, StockTypes, orderVars
  <1>7. CASE UNCHANGED <<stockVars, recipe, orderVars, touched>>
    BY <1>7 DEF Bounds, stockVars, orderVars
  <1>8. ASSUME NEW k, NEW i \in Ingredient, NEW q \in Quantity, receive(k, i, q) \/ declare_applied(k, i, q)
        PROVE  Bounds'
    BY <1>6, <1>8 DEF receive, declare_applied, Quantity
  <1>9. ASSUME NEW k \in DeclareKey, NEW s \in Staff, approve(k, s)
        PROVE  Bounds'
    <2>1. asked[k][1] \in Ingredient /\ asked[k][2] \in Int
      BY <1>9 DEF approve, AskedInv
    <2>2. QED
      BY <1>6, <1>9, <2>1 DEF approve
  <1>10. ASSUME NEW k, NEW s, NEW i, NEW q, declare_waits(k, s, i, q) \/ reject(k, s)
         PROVE  Bounds'
    BY <1>7, <1>10 DEF declare_waits, reject
  <1>11. CASE UNCHANGED vars
    BY <1>7, <1>11 DEF vars
  <1>12. ASSUME NEW o \in Order, create(o) \/ prepare(o) \/ cancel(o)
         PROVE  Bounds'
    BY <1>1, <1>12 DEF create, prepare, cancel
  <1>13. ASSUME NEW o \in Order, reserve(o) \/ consume(o) \/ release(o) \/ refused(o)
         PROVE  Bounds'
    BY <1>2, <1>13 DEF reserve, consume, release, refused, writes
  <1>14. 1 .. MaxOnHand \subseteq Quantity
    BY DEF Quantity
  <1>15. QED
    BY <1>3, <1>4, <1>5, <1>8, <1>9, <1>10, <1>11, <1>12, <1>13, <1>14 DEF Next

\* No quantity goes below zero, no promise above what is held, and nothing
\* above the room there is, in the rows of stock and in what the transactions
\* of the orders have read of them (MaterialService, InventoryService).
THEOREM MaterialsTypes == Spec => []TypeOK
  <1>1. KeyInv /\ AskedInv /\ PromiseInv /\ Bounds => TypeOK
    <2> SUFFICES ASSUME KeyInv, AskedInv, PromiseInv, Bounds
                 PROVE  TypeOK
      OBVIOUS
    <2> USE MaterialsAssumption
    <2>0. StockTypes /\ OrderTypes
      BY DEF PromiseInv
    <2>1. onHand \in [Ingredient -> 0 .. MaxOnHand] /\ reserved \in [Ingredient -> 0 .. MaxOnHand]
      BY <2>0 DEF StockTypes, Bounds, check
    <2>2. recipe \in [Ingredient -> 0 .. MaxPortion]
      BY <2>0 DEF StockTypes, Bounds
    <2>3. need \in [Order -> [Ingredient -> 0 .. MaxPortion]]
      BY <2>0 DEF OrderTypes, Bounds
    <2>4. promis \in [Order -> [Ingredient -> 0 .. MaxOnHand]]
      BY <2>0 DEF OrderTypes, Bounds
    <2>5. written \in [Key -> Nat] /\ mkeys \subseteq Key
      BY DEF KeyInv
    <2>6. QED
      BY <2>0, <2>1, <2>2, <2>3, <2>4, <2>5 DEF TypeOK, StockTypes, OrderTypes, AskedInv, Bounds
  <1>2. Spec => []Bounds
    BY PromiseInvariant, BoundsInit, BoundsNext, PTL DEF Spec
  <1>3. Spec => []KeyInv
    BY KeyInvInit, KeyInvNext, PTL DEF Spec
  <1>4. QED
    BY <1>1, <1>2, <1>3, PromiseInvariant, PTL
=============================================================================
