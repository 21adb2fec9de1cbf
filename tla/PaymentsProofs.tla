--------------------------- MODULE PaymentsProofs ---------------------------
(***************************************************************************)
(* Theorems about Payments, for any number of transactions, participants   *)
(* and workers, any total and any allocation of the shares.                *)
(***************************************************************************)
EXTENDS Payments, SumTheorems

-----------------------------------------------------------------------------
(* Sums *)

Completed(st) == {t \in Txn : st[t] = "completed"}

\* One order opens finitely many transactions.
LEMMA TxnIsFinite == IsFiniteSet(Txn) /\ \A st : IsFiniteSet(Completed(st))
  <1>1. IsFiniteSet(Txn)
    BY PaymentsAssumption, FS_Interval DEF Txn
  <1>2. \A st : Completed(st) \in SUBSET Txn
    BY DEF Completed
  <1>3. QED
    BY <1>1, <1>2, FS_Subset

\* settled_total adds up the amounts of the completed rows.
LEMMA SettledIsSum ==
  ASSUME NEW st, NEW am
  PROVE  settled(st, am) = SumFunctionOnSet(am, Completed(st))
  <1> DEFINE f == [t \in Completed(st) |-> am[t]]
  <1>1. settled(st, am) = SumFunction(f)
    BY DEF settled, Completed
  <1>2. DOMAIN f = Completed(st) /\ \A t \in DOMAIN f : f[t] = am[t]
    OBVIOUS
  <1> HIDE DEF f
  <1>3. SumFunction(f) = SumFunctionOnSet(am, DOMAIN f)
    BY <1>2, TxnIsFinite, SumOfFunction
  <1>4. QED
    BY <1>1, <1>2, <1>3

LEMMA SettledType ==
  ASSUME NEW st, NEW am \in [Txn -> Nat]
  PROVE  settled(st, am) \in Nat
  <1>1. \A t \in Completed(st) : am[t] \in Nat
    BY DEF Completed
  <1>2. SumFunctionOnSet(am, Completed(st)) \in Nat
    BY <1>1, TxnIsFinite, SumType
  <1>3. QED
    BY <1>2, SettledIsSum

\* Nothing is settled while no transaction is completed.
LEMMA NothingSettled ==
  ASSUME NEW st, NEW am, \A t \in Txn : st[t] # "completed"
  PROVE  settled(st, am) = 0
  <1>1. Completed(st) = {}
    BY DEF Completed
  <1>2. QED
    BY <1>1, SettledIsSum, SumEmpty

\* One settled transaction is all that is settled.
LEMMA OneSettled ==
  ASSUME NEW st, NEW am \in [Txn -> Nat], NEW t \in Txn, st[t] = "completed",
         \A u \in Txn : st[u] = "completed" => u = t
  PROVE  settled(st, am) = am[t]
  <1>1. Completed(st) = {} \cup {t}
    BY DEF Completed
  <1>2. SumFunctionOnSet(am, {} \cup {t}) = am[t] + SumFunctionOnSet(am, {})
    BY FS_EmptySet, SumAdd
  <1>3. am[t] \in Nat /\ SumFunctionOnSet(am, {}) = 0
    BY SumEmpty
  <1>4. settled(st, am) = SumFunctionOnSet(am, {} \cup {t})
    BY <1>1, SettledIsSum
  <1>5. QED
    BY <1>2, <1>3, <1>4

\* The settled total depends on the completed rows only: inserting a request,
\* or failing one, does not move it.
LEMMA SettledDependsOnCompleted ==
  ASSUME NEW st1, NEW am1, NEW st2, NEW am2,
         \A t \in Txn : (st1[t] = "completed") <=> (st2[t] = "completed"),
         \A t \in Txn : st1[t] = "completed" => am1[t] = am2[t]
  PROVE  settled(st1, am1) = settled(st2, am2)
  <1> DEFINE f1 == [t \in {u \in Txn : st1[u] = "completed"} |-> am1[t]]
             f2 == [t \in {u \in Txn : st2[u] = "completed"} |-> am2[t]]
  <1>1. {u \in Txn : st1[u] = "completed"} = {u \in Txn : st2[u] = "completed"}
    OBVIOUS
  <1>2. f1 = f2
    BY <1>1
  <1>3. QED
    BY <1>2 DEF settled

-----------------------------------------------------------------------------
(* Statuses *)

\* The statuses the tables of transitions declare, and that the tables are
\* closed: what follows a declared status is declared.
LEMMA StatusTables ==
  /\ OrderStatus = {"pending", "confirmed", "preparing", "ready", "picked_up",
                    "on_the_way", "delivered", "cancelled"}
  /\ PaymentStatus = {"pending", "processing", "completed", "refunded", "failed", "cancelled"}
  /\ \A s \in OrderStatus : ORDER_TRANSITIONS[s] \subseteq OrderStatus
  /\ \A s \in PaymentStatus : PAYMENT_TRANSITIONS[s] \subseteq PaymentStatus
  BY DEF OrderStatus, PaymentStatus, ORDER_TRANSITIONS, PAYMENT_TRANSITIONS

\* A declared transition of an order, or of a payment, ends in a declared
\* status.
LEMMA TransitionsAreDeclared ==
  /\ \A s \in OrderStatus : \A u : can(ORDER_TRANSITIONS, s, u) => u \in OrderStatus
  /\ \A s \in PaymentStatus \cup {"none"} : \A u :
       s # "none" /\ can(PAYMENT_TRANSITIONS, s, u) => u \in PaymentStatus
  BY StatusTables DEF can

\* What a notification asks for: never a refund.
LEMMA TargetIsStatus ==
  ASSUME StatusesOK, NEW w \in Worker, pc[w] # "idle"
  PROVE  target(w) \in {"processing", "completed", "failed"}
  <1>1. wev[w][2] \in {"pending", "completed", "failed", "cancelled"}
    BY PaymentsAssumption DEF StatusesOK, Event
  <1>2. QED
    BY <1>1 DEF target, STATUS_MAP

\* The rows a new order starts with carry declared statuses.
LEMMA StatusesInit == Init => StatusesOK
  BY PaymentsAssumption, StatusTables DEF Init, StatusesOK

\* Every step of a request, a worker, the staff or the expiry task writes
\* declared statuses only.
LEMMA StatusesNext == StatusesOK /\ [Next]_vars => StatusesOK'
  <1> SUFFICES ASSUME StatusesOK, [Next]_vars
               PROVE  StatusesOK'
    OBVIOUS
  <1> USE PaymentsAssumption, StatusTables, TransitionsAreDeclared
  <1>1. CASE initiate
    BY <1>1 DEF initiate, OpenCheckout, StatusesOK, orderVars, splitVars, workerVars
  <1>2. ASSUME NEW amounts \in [Share -> 1 .. Total], create_split(amounts)
        PROVE  StatusesOK'
    BY <1>2 DEF create_split, StatusesOK, orderVars, txnVars, workerVars
  <1>3. ASSUME NEW s \in Share, pay_share(s)
        PROVE  StatusesOK'
    BY <1>3 DEF pay_share, OpenCheckout, StatusesOK, orderVars, workerVars
  <1>4. ASSUME NEW status \in OrderStatus, StaffMoves(status)
        PROVE  StatusesOK'
    BY <1>4 DEF StaffMoves, transition_to, record_cash_collected, StatusesOK,
                txnVars, splitVars, workerVars
  <1>5. CASE CustomerDecides
    BY <1>5 DEF CustomerDecides, StatusesOK, orderVars, txnVars, splitVars, workerVars
  <1>6. CASE ExpiryDecides
    BY <1>6 DEF ExpiryDecides, StatusesOK, orderVars, txnVars, splitVars, workerVars
  <1>7. ASSUME NEW who \in {"customer", "expiry"}, Cancels(who)
        PROVE  StatusesOK'
    BY <1>7 DEF Cancels, transition_to, StatusesOK, orderVars, txnVars, splitVars, workerVars
  <1>8. ASSUME NEW w \in Worker, NEW e \in Event, handle_webhook(w, e)
        PROVE  StatusesOK'
    BY <1>8 DEF handle_webhook, StatusesOK, orderVars, txnVars, splitVars
  <1>9. ASSUME NEW e \in Event, replay(e)
        PROVE  StatusesOK'
    BY <1>9 DEF replay, vars, StatusesOK, orderVars, txnVars, splitVars, workerVars
  <1>10. ASSUME NEW w \in Worker, Apply(w)
         PROVE  StatusesOK'
    <2>1. ASSUME NEW exact \in BOOLEAN, apply_refuses(w, exact)
          PROVE  StatusesOK'
      BY <2>1 DEF apply_refuses, Idle, NoEvent, StatusesOK, orderVars, txnVars, splitVars
    <2>2. CASE apply_moves(w)
      <3>1. target(w) \in {"processing", "completed", "failed"}
        BY <2>2, TargetIsStatus DEF apply_moves
      <3>2. QED
        BY <2>2, <3>1 DEF apply_moves, Idle, NoEvent, StatusesOK, orderVars, splitVars
    <2>3. CASE apply_completes(w)
      BY <2>3 DEF apply_completes, StatusesOK, orderVars, txnVars, splitVars
    <2>4. CASE on_transaction_settled(w)
      BY <2>4 DEF on_transaction_settled, close_if_complete, StatusesOK,
                  orderVars, txnVars, splitVars
    <2>5. CASE report_settled_total(w)
      BY <2>5 DEF report_settled_total, StatusesOK, orderVars, txnVars, splitVars
    <2>6. CASE apply_commits(w)
      BY <2>6 DEF apply_commits, Idle, NoEvent, StatusesOK
    <2>7. CASE apply_raises(w)
      BY <2>7 DEF apply_raises, Idle, NoEvent, StatusesOK, orderVars, txnVars, splitVars
    <2>8. QED
      BY <1>10, <2>1, <2>2, <2>3, <2>4, <2>5, <2>6, <2>7 DEF Apply
  <1>11. ASSUME NEW w \in Worker, crash(w)
         PROVE  StatusesOK'
    BY <1>11 DEF crash, Idle, NoEvent, StatusesOK, orderVars, txnVars, splitVars
  <1>12. CASE UNCHANGED vars
    BY <1>12 DEF vars, StatusesOK, orderVars, txnVars, splitVars, workerVars
  <1>13. QED
    BY <1>1, <1>2, <1>3, <1>4, <1>5, <1>6, <1>7, <1>8, <1>9, <1>10, <1>11, <1>12 DEF Next

\* Every reachable row carries a declared status: no service, and no
\* interleaving of the notification handlers, writes another (C4).
THEOREM StatusesInvariant == Spec => []StatusesOK
  BY StatusesInit, StatusesNext, PTL DEF Spec

-----------------------------------------------------------------------------
(* A paid order is confirmed *)

\* The status a worker read without a lock is at most late: while the order is
\* pending it can only have been read pending.
SeenIsPast == ostatus = "pending" => \A w \in Worker : wseen[w] = "pending"

\* The inductive strengthening of PaidIsNotPending.
PaidInv == StatusesOK /\ SeenIsPast /\ PaidIsNotPending

\* A new order has collected nothing and its total is positive.
LEMMA PaidInit == Init => PaidInv
  <1> SUFFICES ASSUME Init PROVE PaidInv
    OBVIOUS
  <1>1. settled_total = 0
    BY NothingSettled DEF Init, settled_total
  <1>2. ~ (settled_total >= Total)
    BY <1>1, PaymentsAssumption
  <1>3. QED
    BY <1>2, StatusesInit DEF Init, PaidInv, SeenIsPast, PaidIsNotPending

\* A step that completes no transaction and leaves the order where it is, or
\* moves it off pending, preserves the invariant.
LEMMA PaidPreserved ==
  ASSUME PaidInv, StatusesOK',
         ostatus' = ostatus \/ ostatus' # "pending",
         \A w \in Worker : wseen'[w] \in {wseen[w], "pending", ostatus},
         \/ ostatus' # "pending"
         \/ /\ \A t \in Txn : (tstatus[t] = "completed") <=> (tstatus'[t] = "completed")
            /\ \A t \in Txn : tstatus[t] = "completed" => tamount[t] = tamount'[t]
  PROVE  PaidInv'
  <1>1. SeenIsPast'
    BY DEF PaidInv, SeenIsPast
  <1>2. CASE ostatus' # "pending"
    BY <1>1, <1>2 DEF PaidInv, PaidIsNotPending
  <1>3. CASE ostatus' = "pending"
    <2>1. settled(tstatus, tamount) = settled(tstatus', tamount')
      BY <1>3, SettledDependsOnCompleted
    <2>2. PaidIsNotPending'
      BY <1>3, <2>1 DEF PaidInv, PaidIsNotPending, settled_total
    <2>3. QED
      BY <1>1, <2>2 DEF PaidInv
  <1>4. QED
    BY <1>2, <1>3

\* Every step preserves the invariant; only confirm_order needs its three parts
\* together.
LEMMA PaidNext == PaidInv /\ [Next]_vars => PaidInv'
  <1> SUFFICES ASSUME PaidInv, [Next]_vars
               PROVE  PaidInv'
    OBVIOUS
  <1>0. StatusesOK /\ StatusesOK'
    BY StatusesNext DEF PaidInv
  <1>1. CASE initiate
    BY <1>0, <1>1, PaidPreserved
       DEF initiate, OpenCheckout, Fresh, StatusesOK, orderVars, workerVars
  <1>2. ASSUME NEW amounts \in [Share -> 1 .. Total], create_split(amounts)
        PROVE  PaidInv'
    BY <1>0, <1>2, PaidPreserved DEF create_split, orderVars, txnVars, workerVars
  <1>3. ASSUME NEW s \in Share, pay_share(s)
        PROVE  PaidInv'
    BY <1>0, <1>3, PaidPreserved
       DEF pay_share, OpenCheckout, Fresh, StatusesOK, orderVars, workerVars
  <1>4. ASSUME NEW status \in OrderStatus, StaffMoves(status)
        PROVE  PaidInv'
    <2>1. ostatus' # "pending"
      BY <1>0, <1>4, StatusTables
         DEF StaffMoves, transition_to, can, ORDER_TRANSITIONS, StatusesOK
    <2>2. QED
      BY <1>0, <1>4, <2>1, PaidPreserved DEF StaffMoves, workerVars
  <1>5. CASE CustomerDecides
    BY <1>0, <1>5, PaidPreserved DEF CustomerDecides, orderVars, txnVars, workerVars
  <1>6. CASE ExpiryDecides
    BY <1>0, <1>6, PaidPreserved DEF ExpiryDecides, orderVars, txnVars, workerVars
  <1>7. ASSUME NEW who \in {"customer", "expiry"}, Cancels(who)
        PROVE  PaidInv'
    BY <1>0, <1>7, PaidPreserved
       DEF Cancels, transition_to, orderVars, txnVars, workerVars
  <1>8. ASSUME NEW w \in Worker, NEW e \in Event, handle_webhook(w, e)
        PROVE  PaidInv'
    BY <1>0, <1>8, PaidPreserved DEF handle_webhook, orderVars, txnVars
  <1>9. ASSUME NEW e \in Event, replay(e)
        PROVE  PaidInv'
    BY <1>0, <1>9, PaidPreserved DEF replay, vars, orderVars, txnVars, workerVars
  <1>10. ASSUME NEW w \in Worker, Apply(w)
         PROVE  PaidInv'
    <2>1. ASSUME NEW exact \in BOOLEAN, apply_refuses(w, exact)
          PROVE  PaidInv'
      BY <1>0, <2>1, PaidPreserved DEF apply_refuses, Idle, orderVars, txnVars, StatusesOK
    <2>2. CASE apply_moves(w)
      <3>1. wev[w][1] \in Txn
        BY <1>0, <2>2, PaymentsAssumption DEF apply_moves, StatusesOK, Event
      <3>2. tstatus[wev[w][1]] # "completed"
        <4>1. target(w) \in {"processing", "completed", "failed"}
          BY <1>0, <2>2, TargetIsStatus DEF apply_moves
        <4>2. QED
          BY <2>2, <4>1 DEF apply_moves, can, PAYMENT_TRANSITIONS
      <3>3. QED
        BY <1>0, <2>2, <3>1, <3>2, PaidPreserved
           DEF apply_moves, Idle, orderVars, StatusesOK
    <2>3. CASE apply_completes(w)
      BY <1>0, <2>3, PaidPreserved DEF apply_completes, orderVars, txnVars, StatusesOK
    <2>4. CASE on_transaction_settled(w)
      BY <1>0, <2>4, PaidPreserved DEF on_transaction_settled, orderVars, txnVars
    <2>5. CASE report_settled_total(w)
      BY <1>0, <2>5, PaidPreserved DEF report_settled_total, orderVars, txnVars
    <2>6. CASE apply_commits(w)
      <3>1. SeenIsPast'
        BY <2>6 DEF apply_commits, Idle, PaidInv, SeenIsPast, StatusesOK
      <3>2. settled_total' = settled_seen_by(w)
        BY <2>6 DEF apply_commits, settled_total, settled_seen_by
      <3>3. ASSUME ostatus' = "pending" PROVE ~ (settled_total' >= Total)
        \* The order was pending, so it was read pending: the sum fell short.
        <4>1. ostatus = "pending" /\ ~ confirm_order(w)
          BY <2>6, <3>3 DEF apply_commits
        <4>2. wseen[w] = "pending"
          BY <4>1 DEF PaidInv, SeenIsPast
        <4>3. can(ORDER_TRANSITIONS, wseen[w], "confirmed")
          BY <4>2 DEF can, ORDER_TRANSITIONS
        <4>4. QED
          BY <3>2, <4>1, <4>3 DEF confirm_order
      <3>4. QED
        BY <1>0, <3>1, <3>3 DEF PaidInv, PaidIsNotPending
    <2>7. CASE apply_raises(w)
      BY <1>0, <2>7, PaidPreserved DEF apply_raises, Idle, orderVars, txnVars, StatusesOK
    <2>8. QED
      BY <1>10, <2>1, <2>2, <2>3, <2>4, <2>5, <2>6, <2>7 DEF Apply
  <1>11. ASSUME NEW w \in Worker, crash(w)
         PROVE  PaidInv'
    BY <1>0, <1>11, PaidPreserved DEF crash, Idle, orderVars, txnVars, StatusesOK
  <1>12. CASE UNCHANGED vars
    BY <1>0, <1>12, PaidPreserved DEF vars, orderVars, txnVars, workerVars
  <1>13. QED
    BY <1>1, <1>2, <1>3, <1>4, <1>5, <1>6, <1>7, <1>8, <1>9, <1>10, <1>11, <1>12 DEF Next

\* However many notifications are handled at once, an order whose total is
\* collected is never left pending (_confirm_order).
THEOREM PaidIsNotPendingInvariant == Spec => []PaidIsNotPending
  <1>1. PaidInv => PaidIsNotPending
    BY DEF PaidInv
  <1>2. QED
    BY PaidInit, PaidNext, <1>1, PTL DEF Spec

-----------------------------------------------------------------------------
(* The order follows its machine *)

\* Every step of Payments is a declared transition of the order, or leaves its
\* status alone: transition_to reads the status again under the lock, so the
\* stale readings of its callers cannot bring an order back.
THEOREM OrderRefinement == Spec => OrderFollowsTheMachine
  <1>1. Init => Lifecycle!Init
    BY DEF Init, Lifecycle!Init
  <1>2. StatusesOK /\ [Next]_vars => [Lifecycle!Next]_ostatus
    <2> SUFFICES ASSUME StatusesOK, Next, ostatus' # ostatus
                 PROVE  Lifecycle!Next
      BY DEF vars, orderVars
    <2>1. can(ORDER_TRANSITIONS, ostatus, ostatus')
      <3>1. ASSUME NEW status \in OrderStatus, StaffMoves(status)
            PROVE  can(ORDER_TRANSITIONS, ostatus, ostatus')
        BY <3>1 DEF StaffMoves, transition_to
      <3>2. ASSUME NEW who \in {"customer", "expiry"}, Cancels(who)
            PROVE  can(ORDER_TRANSITIONS, ostatus, ostatus')
        BY <3>2 DEF Cancels, transition_to, orderVars
      <3>3. ASSUME NEW w \in Worker, Apply(w)
            PROVE  can(ORDER_TRANSITIONS, ostatus, ostatus')
        BY <3>3 DEF Apply, apply_refuses, apply_moves, apply_completes,
             on_transaction_settled, report_settled_total, apply_commits, apply_raises,
             confirm_raises, is_noop, orderVars
      <3>4. QED
        BY <3>1, <3>2, <3>3
           DEF Next, initiate, create_split, pay_share, CustomerDecides, ExpiryDecides,
               handle_webhook, replay, crash, vars, orderVars
    <2>2. ostatus' \in OrderStatus
      BY <2>1, TransitionsAreDeclared DEF StatusesOK
    <2>3. QED
      BY <2>1, <2>2 DEF Lifecycle!Next, Lifecycle!Advance, Lifecycle!can, can,
         Lifecycle!OrderStatus, OrderStatus, Lifecycle!ORDER_TRANSITIONS, ORDER_TRANSITIONS
  <1>3. QED
    BY <1>1, <1>2, StatusesInvariant, PTL DEF Spec, OrderFollowsTheMachine, Lifecycle!Spec

-----------------------------------------------------------------------------
(* A transaction follows its machine *)

\* Worker w holds the row lock of its transaction.
Holding(w) == pc[w] \in {"moved", "shared", "summed"}

\* initiate writes a request and opens its checkout in one transaction.
NeverPending == \A t \in Txn : tstatus[t] # "pending"

\* A notification being handled is about a transaction that was inserted.
HandledExists ==
  \A w \in Worker : pc[w] # "idle" /\ wev[w][1] \in Txn => tstatus[wev[w][1]] # "none"

\* A transaction under the lock of a worker is still where the worker may
\* complete it, and is under one lock.
HeldIsProcessing ==
  \A w \in Worker :
    Holding(w) => wev[w][1] \in Txn /\ tstatus[wev[w][1]] = "processing"

HeldAlone ==
  \A v, w \in Worker : Holding(v) /\ Holding(w) /\ wev[v][1] = wev[w][1] => v = w

\* The inductive invariant behind TransactionsFollowTheMachine.
HeldInv == StatusesOK /\ NeverPending /\ HandledExists /\ HeldIsProcessing /\ HeldAlone

\* No transaction exists and no worker handles anything yet.
LEMMA HeldInit == Init => HeldInv
  BY StatusesInit DEF Init, HeldInv, NeverPending, HandledExists, HeldIsProcessing,
                      HeldAlone, Holding

\* A step in which nobody takes a lock, and that moves a transaction along its
\* machine under nobody else's lock, is a declared step and keeps the locks.
LEMMA HeldPreserved ==
  ASSUME HeldInv, StatusesOK',
         \A w \in Worker :
           \/ pc'[w] = "idle"
           \/ pc'[w] = pc[w] /\ wev'[w] = wev[w]
           \/ Holding(w) /\ Holding(w)' /\ wev'[w] = wev[w]
           \/ /\ pc'[w] = "created"
              /\ wev'[w][1] \in Txn => tstatus[wev'[w][1]] # "none",
         \A t \in Txn :
           \/ tstatus'[t] = tstatus[t]
           \/ tstatus[t] = "none" /\ tstatus'[t] \in {"processing", "completed"}
           \/ /\ tstatus[t] # "none"
              /\ can(PAYMENT_TRANSITIONS, tstatus[t], tstatus'[t])
              /\ \A w \in Worker : Holding(w)' => wev'[w][1] # t
  PROVE  HeldInv' /\ DeclaredStep
  <1>1. \A t \in Txn : tstatus[t] \in PaymentStatus \cup {"none"}
    BY DEF HeldInv, StatusesOK
  <1>2. NeverPending' /\ \A t \in Txn : tstatus[t] # "none" => tstatus'[t] # "none"
    BY <1>1, StatusTables DEF HeldInv, NeverPending, can, PAYMENT_TRANSITIONS
  <1>3. HandledExists'
    BY <1>2 DEF HeldInv, HandledExists, Holding
  <1>4. \A w \in Worker : Holding(w)' => Holding(w) /\ wev'[w] = wev[w]
    BY DEF Holding
  <1>5. HeldIsProcessing'
    <2> SUFFICES ASSUME NEW w \in Worker, Holding(w)'
                 PROVE  wev'[w][1] \in Txn /\ tstatus'[wev'[w][1]] = "processing"
      BY DEF HeldIsProcessing
    <2>1. wev'[w][1] \in Txn /\ tstatus[wev'[w][1]] = "processing"
      BY <1>4 DEF HeldInv, HeldIsProcessing
    <2>2. QED
      BY <2>1
  <1>6. HeldAlone'
    BY <1>4 DEF HeldInv, HeldAlone
  <1>7. DeclaredStep
    BY DEF DeclaredStep
  <1>8. QED
    BY <1>2, <1>3, <1>5, <1>6, <1>7 DEF HeldInv

\* Cash settles the request the customer opened, which nobody holds, or a new
\* one.
LEMMA CashIsDeclared ==
  ASSUME HeldInv, UNCHANGED <<pc, wev>>, record_cash_collected, NEW t \in Txn
  PROVE  \/ tstatus'[t] = tstatus[t]
         \/ tstatus[t] = "none" /\ tstatus'[t] \in {"processing", "completed"}
         \/ /\ tstatus[t] # "none"
            /\ can(PAYMENT_TRANSITIONS, tstatus[t], tstatus'[t])
            /\ \A w \in Worker : Holding(w)' => wev'[w][1] # t
  <1>1. CASE UNCHANGED txnVars
    BY <1>1 DEF txnVars
  <1>2. CASE ~ UNCHANGED txnVars
    <2>1. PICK u \in Txn : /\ \/ Open(u) /\ ~ Locked(u)
                              \/ tstatus[u] = "none"
                           /\ tstatus' = [tstatus EXCEPT ![u] = "completed"]
      BY <1>2 DEF record_cash_collected, txnVars, Fresh
    <2>2. CASE t # u
      BY <2>1, <2>2 DEF HeldInv, StatusesOK
    <2>3. CASE t = u
      <3>1. tstatus'[t] = "completed"
        BY <2>1, <2>3 DEF HeldInv, StatusesOK
      <3>2. CASE tstatus[u] = "none"
        BY <2>3, <3>1, <3>2
      <3>3. CASE Open(u) /\ ~ Locked(u)
        BY <2>3, <3>1, <3>3
           DEF HeldInv, NeverPending, Open, Locked, Holding, can, PAYMENT_TRANSITIONS
      <3>4. QED
        BY <2>1, <3>2, <3>3
    <2>4. QED
      BY <2>2, <2>3
  <1>3. QED
    BY <1>1, <1>2

\* Every step is a declared one and keeps the invariant; only a worker that
\* takes a lock, or commits under it, needs more than HeldPreserved.
LEMMA HeldNext == HeldInv /\ [Next]_vars => HeldInv' /\ DeclaredStep
  <1> SUFFICES ASSUME HeldInv, [Next]_vars
               PROVE  HeldInv' /\ DeclaredStep
    OBVIOUS
  <1>0. StatusesOK /\ StatusesOK'
    BY StatusesNext DEF HeldInv
  <1>1. CASE initiate
    BY <1>0, <1>1, HeldPreserved DEF initiate, OpenCheckout, Fresh, StatusesOK, workerVars
  <1>2. ASSUME NEW amounts \in [Share -> 1 .. Total], create_split(amounts)
        PROVE  HeldInv' /\ DeclaredStep
    BY <1>0, <1>2, HeldPreserved DEF create_split, txnVars, workerVars
  <1>3. ASSUME NEW s \in Share, pay_share(s)
        PROVE  HeldInv' /\ DeclaredStep
    BY <1>0, <1>3, HeldPreserved DEF pay_share, OpenCheckout, Fresh, StatusesOK, workerVars
  <1>4. ASSUME NEW status \in OrderStatus, StaffMoves(status)
        PROVE  HeldInv' /\ DeclaredStep
    <2>1. CASE record_cash_collected
      BY <1>0, <1>4, <2>1, CashIsDeclared, HeldPreserved DEF StaffMoves, workerVars
    <2>2. CASE UNCHANGED txnVars
      BY <1>0, <1>4, <2>2, HeldPreserved DEF StaffMoves, txnVars, workerVars
    <2>3. QED
      BY <1>4, <2>1, <2>2 DEF StaffMoves, transition_to
  <1>5. CASE CustomerDecides
    BY <1>0, <1>5, HeldPreserved DEF CustomerDecides, txnVars, workerVars
  <1>6. CASE ExpiryDecides
    BY <1>0, <1>6, HeldPreserved DEF ExpiryDecides, txnVars, workerVars
  <1>7. ASSUME NEW who \in {"customer", "expiry"}, Cancels(who)
        PROVE  HeldInv' /\ DeclaredStep
    BY <1>0, <1>7, HeldPreserved DEF Cancels, transition_to, txnVars, workerVars
  <1>8. ASSUME NEW w \in Worker, NEW e \in Event, handle_webhook(w, e)
        PROVE  HeldInv' /\ DeclaredStep
    BY <1>0, <1>8, HeldPreserved DEF handle_webhook, txnVars, StatusesOK
  <1>9. ASSUME NEW e \in Event, replay(e)
        PROVE  HeldInv' /\ DeclaredStep
    BY <1>0, <1>9, HeldPreserved DEF replay, vars, txnVars, workerVars
  <1>10. ASSUME NEW w \in Worker, Apply(w)
         PROVE  HeldInv' /\ DeclaredStep
    <2>1. ASSUME NEW exact \in BOOLEAN, apply_refuses(w, exact)
          PROVE  HeldInv' /\ DeclaredStep
      BY <1>0, <2>1, HeldPreserved DEF apply_refuses, Idle, txnVars, StatusesOK
    <2>2. CASE apply_moves(w)
      <3> DEFINE t == wev[w][1]
      <3>1. t \in Txn
        BY <1>0, <2>2, PaymentsAssumption DEF apply_moves, StatusesOK, Event
      <3>2. tstatus[t] # "none" /\ can(PAYMENT_TRANSITIONS, tstatus[t], target(w))
        BY <2>2, <3>1 DEF apply_moves, HeldInv, HandledExists
      <3>3. \A v \in Worker : Holding(v)' => Holding(v) /\ wev'[v] = wev[v] /\ wev[v][1] # t
        BY <1>0, <2>2 DEF apply_moves, Idle, Holding, Locked, StatusesOK
      <3>4. tstatus' = [tstatus EXCEPT ![t] = target(w)]
        BY <2>2 DEF apply_moves
      <3>5. QED
        BY <1>0, <2>2, <3>1, <3>2, <3>3, <3>4, HeldPreserved DEF apply_moves, Idle, StatusesOK
    <2>3. CASE apply_completes(w)
      <3> DEFINE t == wev[w][1]
      <3>1. t \in Txn
        BY <1>0, <2>3, PaymentsAssumption DEF apply_completes, StatusesOK, Event
      <3>2. tstatus[t] = "processing"
        <4>1. tstatus[t] \in PaymentStatus
          BY <1>0, <2>3, <3>1 DEF apply_completes, HeldInv, HandledExists, StatusesOK
        <4>2. QED
          BY <2>3, <4>1, StatusTables DEF apply_completes, can, PAYMENT_TRANSITIONS
      <3>3. \A v \in Worker : Holding(v)' => v = w \/ (Holding(v) /\ wev[v][1] # t)
        BY <1>0, <2>3 DEF apply_completes, Holding, Locked, StatusesOK
      <3>4. UNCHANGED <<tstatus, wev>>
        BY <2>3 DEF apply_completes, txnVars
      <3>5. HandledExists'
        BY <1>0, <2>3, <3>4 DEF apply_completes, HeldInv, HandledExists, StatusesOK
      <3>6. HeldIsProcessing' /\ HeldAlone'
        BY <3>1, <3>2, <3>3, <3>4 DEF HeldInv, HeldIsProcessing, HeldAlone
      <3>7. QED
        BY <1>0, <3>4, <3>5, <3>6 DEF HeldInv, NeverPending, DeclaredStep
    <2>4. CASE on_transaction_settled(w)
      BY <1>0, <2>4, HeldPreserved DEF on_transaction_settled, Holding, txnVars, StatusesOK
    <2>5. CASE report_settled_total(w)
      BY <1>0, <2>5, HeldPreserved DEF report_settled_total, Holding, txnVars, StatusesOK
    <2>6. CASE apply_commits(w)
      \* The lock is its own: the transaction is where the worker found it.
      <3> DEFINE t == wev[w][1]
      <3>1. Holding(w)
        BY <2>6 DEF apply_commits, Holding
      <3>2. t \in Txn /\ tstatus[t] = "processing"
        BY <3>1 DEF HeldInv, HeldIsProcessing
      <3>3. \A v \in Worker : Holding(v)' => Holding(v) /\ wev'[v] = wev[v] /\ v # w
        BY <1>0, <2>6 DEF apply_commits, Idle, Holding, StatusesOK
      <3>4. \A v \in Worker : Holding(v)' => wev'[v][1] # t
        BY <3>1, <3>3 DEF HeldInv, HeldAlone
      <3>5. can(PAYMENT_TRANSITIONS, tstatus[t], "completed")
        BY <3>2 DEF can, PAYMENT_TRANSITIONS
      <3>6. tstatus' = [tstatus EXCEPT ![t] = "completed"]
        BY <2>6 DEF apply_commits
      <3>7. QED
        BY <1>0, <2>6, <3>2, <3>4, <3>5, <3>6, HeldPreserved
           DEF apply_commits, Idle, StatusesOK
    <2>7. CASE apply_raises(w)
      BY <1>0, <2>7, HeldPreserved DEF apply_raises, Idle, txnVars, StatusesOK
    <2>8. QED
      BY <1>10, <2>1, <2>2, <2>3, <2>4, <2>5, <2>6, <2>7 DEF Apply
  <1>11. ASSUME NEW w \in Worker, crash(w)
         PROVE  HeldInv' /\ DeclaredStep
    BY <1>0, <1>11, HeldPreserved DEF crash, Idle, txnVars, StatusesOK
  <1>12. CASE UNCHANGED vars
    BY <1>0, <1>12, HeldPreserved DEF vars, txnVars, workerVars
  <1>13. QED
    BY <1>1, <1>2, <1>3, <1>4, <1>5, <1>6, <1>7, <1>8, <1>9, <1>10, <1>11, <1>12 DEF Next

\* Two notifications about one transaction, handled at once, never bring it
\* back from where it ended: _apply tests the transition under the row lock.
THEOREM TransactionsFollowTheMachineAlways == Spec => TransactionsFollowTheMachine
  BY HeldInit, HeldNext, PTL DEF Spec, TransactionsFollowTheMachine

-----------------------------------------------------------------------------
(* The amounts *)

AmountsOK ==
  /\ amountPaid \in Nat
  /\ tamount \in [Txn -> Nat]
  /\ wsum \in [Worker -> Nat]

\* What is settled is a natural number, as committed and as a worker sees it.
LEMMA SettledTotals ==
  AmountsOK => settled_total \in Nat /\ \A w \in Worker : settled_seen_by(w) \in Nat
  BY SettledType DEF AmountsOK, settled_total, settled_seen_by

LEMMA AmountsInit == Init => AmountsOK
  BY DEF Init, AmountsOK

\* A request is opened, and cash is collected, only for what is still due.
LEMMA AmountsNext == StatusesOK /\ AmountsOK /\ [Next]_vars => AmountsOK'
  <1> SUFFICES ASSUME StatusesOK, AmountsOK, [Next]_vars
               PROVE  AmountsOK'
    OBVIOUS
  <1>0. settled_total \in Nat /\ \A w \in Worker : settled_seen_by(w) \in Nat
    BY SettledTotals
  <1>a. outstanding > 0 => outstanding \in Nat
    BY <1>0, PaymentsAssumption DEF outstanding
  <1>1. CASE initiate
    BY <1>a, <1>1 DEF initiate, OpenCheckout, AmountsOK, orderVars, workerVars
  <1>2. ASSUME NEW s \in Share, pay_share(s)
        PROVE  AmountsOK'
    <2>1. shAmount[s] \in Nat
      BY PaymentsAssumption DEF StatusesOK
    <2>2. QED
      BY <1>2, <2>1 DEF pay_share, OpenCheckout, AmountsOK, orderVars, workerVars
  <1>3. ASSUME NEW status \in OrderStatus, StaffMoves(status)
        PROVE  AmountsOK'
    <2>1. CASE UNCHANGED <<txnVars, amountPaid>>
      BY <1>3, <2>1 DEF StaffMoves, AmountsOK, txnVars, workerVars
    <2>2. CASE ~ UNCHANGED <<txnVars, amountPaid>>
      <3>1. record_cash_collected
        BY <1>3, <2>2 DEF StaffMoves, transition_to
      <3>2. PICK t \in Txn : /\ outstanding > 0
                             /\ tamount' = [tamount EXCEPT ![t] = outstanding]
                             /\ amountPaid' = settled(tstatus', tamount')
        BY <2>2, <3>1 DEF record_cash_collected
      <3>3. tamount' \in [Txn -> Nat]
        BY <1>a, <3>2 DEF AmountsOK
      <3>4. amountPaid' \in Nat
        BY <3>2, <3>3, SettledType
      <3>5. QED
        BY <1>3, <3>3, <3>4 DEF StaffMoves, AmountsOK, workerVars
    <2>3. QED
      BY <2>1, <2>2
  <1>4. ASSUME NEW w \in Worker, Apply(w)
        PROVE  AmountsOK'
    BY <1>0, <1>4
    DEF Apply, apply_refuses, apply_moves, apply_completes, on_transaction_settled,
        report_settled_total, apply_commits, apply_raises, Idle, AmountsOK, orderVars, txnVars
  <1>5. ASSUME NEW w \in Worker, crash(w)
        PROVE  AmountsOK'
    BY <1>5 DEF crash, Idle, AmountsOK, orderVars, txnVars
  <1>6. CASE UNCHANGED <<amountPaid, tamount, wsum>>
    BY <1>6 DEF AmountsOK
  <1>7. QED
    BY <1>1, <1>2, <1>3, <1>4, <1>5, <1>6
    DEF Next, create_split, CustomerDecides, ExpiryDecides, Cancels, transition_to, handle_webhook,
        replay, vars, orderVars, txnVars, workerVars

-----------------------------------------------------------------------------
(* The shares *)

\* A share has asked for its payment once it has a transaction, and it is paid
\* when the transaction is.
SharesAsk ==
  \A s \in Share :
    /\ shTxn[s] # 0 => /\ split # "none"
                       /\ tstatus[shTxn[s]] # "none"
                       /\ shStatus[s] \in {"processing", "completed"}
    /\ shStatus[s] = "completed" => /\ shTxn[s] # 0
                                    /\ tstatus[shTxn[s]] \in {"completed", "refunded"}
    /\ Method = "online" /\ shTxn[s] # 0 /\ tstatus[shTxn[s]] = "completed" =>
         shStatus[s] = "completed"

\* Who closes a split settles its last share: every other one is paid.
LastShareCloses ==
  \A w \in Worker : pc[w] \in {"shared", "summed"} /\ wclose[w] =>
    /\ split # "none"
    /\ \A s \in Share : shTxn[s] = wev[w][1] \/ shStatus[s] = "completed"

SplitIsPaid == split = "completed" => \A s \in Share : shStatus[s] = "completed"

SharesInv == SharesAsk /\ LastShareCloses /\ SplitIsPaid

LEMMA SharesInit == Init => SharesInv
  BY DEF Init, SharesInv, SharesAsk, LastShareCloses, SplitIsPaid

\* A step that leaves the split alone, settles no transaction but cash at the
\* door, and lets no worker decide to close, preserves the invariant.
LEMMA SharesPreserved ==
  ASSUME StatusesOK, SharesInv, DeclaredStep, UNCHANGED splitVars,
         \A t \in Txn : tstatus'[t] = "completed" =>
           tstatus[t] \in {"completed", "none"} \/ Method = "cash",
         \A w \in Worker : pc'[w] \in {"shared", "summed"} /\ wclose'[w] =>
           pc[w] \in {"shared", "summed"} /\ wclose[w] /\ wev'[w] = wev[w]
  PROVE  SharesInv'
  <1>1. \A t \in Txn : tstatus[t] \in PaymentStatus \cup {"none"}
    BY DEF StatusesOK
  <1>2. \A t \in Txn : /\ tstatus[t] # "none" => tstatus'[t] # "none"
                       /\ tstatus[t] \in {"completed", "refunded"} =>
                            tstatus'[t] \in {"completed", "refunded"}
    BY <1>1, StatusTables DEF DeclaredStep, can, PAYMENT_TRANSITIONS
  <1>3. \A s \in Share : shTxn[s] # 0 => shTxn[s] \in Txn
    BY DEF StatusesOK
  <1>4. Method = "cash" => Method # "online"
    OBVIOUS
  <1>5. SharesAsk'
    BY <1>2, <1>3, <1>4 DEF SharesInv, SharesAsk, splitVars
  <1>6. LastShareCloses' /\ SplitIsPaid'
    BY DEF SharesInv, LastShareCloses, SplitIsPaid, splitVars
  <1>7. QED
    BY <1>5, <1>6 DEF SharesInv

LEMMA SharesNext == HeldInv /\ SharesInv /\ [Next]_vars => SharesInv'
  <1> SUFFICES ASSUME HeldInv, SharesInv, [Next]_vars
               PROVE  SharesInv'
    OBVIOUS
  <1>0. StatusesOK /\ StatusesOK' /\ DeclaredStep
    BY StatusesNext, HeldNext DEF HeldInv
  <1>1. CASE initiate
    BY <1>0, <1>1, SharesPreserved DEF initiate, OpenCheckout, StatusesOK, workerVars
  <1>2. ASSUME NEW amounts \in [Share -> 1 .. Total], create_split(amounts)
        PROVE  SharesInv'
    BY <1>2 DEF create_split, SharesInv, SharesAsk, LastShareCloses, SplitIsPaid, txnVars, workerVars
  <1>3. ASSUME NEW s \in Share, pay_share(s)
        PROVE  SharesInv'
    <2>1. PICK t \in Txn : /\ tstatus[t] = "none"
                           /\ tstatus' = [tstatus EXCEPT ![t] = "processing"]
                           /\ shTxn' = [shTxn EXCEPT ![s] = t]
      BY <1>3 DEF pay_share, OpenCheckout, Fresh
    <2>2. /\ split # "none" /\ shStatus[s] # "completed"
          /\ shTxn[s] # 0 => ~ Open(shTxn[s])
          /\ shStatus' = [shStatus EXCEPT ![s] = "processing"]
          /\ split' \in {split, "processing"}
          /\ UNCHANGED <<pc, wev, wclose>>
      BY <1>3 DEF pay_share, workerVars
    <2>3. t # 0
      BY PaymentsAssumption DEF Txn
    <2>4. SharesAsk'
      <3> SUFFICES ASSUME NEW q \in Share
                   PROVE  /\ shTxn'[q] # 0 => /\ split' # "none"
                                              /\ tstatus'[shTxn'[q]] # "none"
                                              /\ shStatus'[q] \in {"processing", "completed"}
                          /\ shStatus'[q] = "completed" =>
                               shTxn'[q] # 0 /\ tstatus'[shTxn'[q]] \in {"completed", "refunded"}
                          /\ Method = "online" /\ shTxn'[q] # 0 /\ tstatus'[shTxn'[q]] = "completed"
                               => shStatus'[q] = "completed"
        BY DEF SharesAsk
      <3>1. CASE q = s
        BY <1>0, <2>1, <2>2, <2>3, <3>1 DEF StatusesOK
      <3>2. CASE q # s
        <4>1. shTxn'[q] = shTxn[q] /\ shStatus'[q] = shStatus[q] /\ shTxn[q] \in Txn \cup {0}
          BY <1>0, <2>1, <2>2, <3>2 DEF StatusesOK
        <4>2. shTxn[q] # 0 => tstatus[shTxn[q]] # "none"
          BY DEF SharesInv, SharesAsk
        <4>3. shTxn[q] # 0 => tstatus'[shTxn[q]] = tstatus[shTxn[q]]
          BY <1>0, <2>1, <4>1, <4>2 DEF StatusesOK
        <4>4. QED
          BY <2>2, <4>1, <4>2, <4>3 DEF SharesInv, SharesAsk
      <3>3. QED
        BY <3>1, <3>2
    <2>5. LastShareCloses'
      \* The transaction of the last share is under its lock, so it is open and
      \* the share cannot ask again.
      <3>0. split' # "none"
        BY <2>2
      <3> SUFFICES ASSUME NEW w \in Worker, pc[w] \in {"shared", "summed"}, wclose[w], NEW q \in Share
                   PROVE  shTxn'[q] = wev[w][1] \/ shStatus'[q] = "completed"
        BY <2>2, <3>0 DEF LastShareCloses
      <3>1. shTxn[q] = wev[w][1] \/ shStatus[q] = "completed"
        BY DEF SharesInv, LastShareCloses
      <3>2. wev[w][1] \in Txn /\ Open(wev[w][1])
        BY DEF HeldInv, HeldIsProcessing, Holding, Open
      <3>3. q # s
        BY <2>2, <2>3, <3>1, <3>2, PaymentsAssumption DEF Txn
      <3>4. QED
        BY <1>0, <2>1, <2>2, <3>1, <3>3 DEF StatusesOK
    <2>6. SplitIsPaid'
      BY <2>2 DEF SharesInv, SplitIsPaid
    <2>7. QED
      BY <2>4, <2>5, <2>6 DEF SharesInv
  <1>4. ASSUME NEW status \in OrderStatus, StaffMoves(status)
        PROVE  SharesInv'
    <2>1. UNCHANGED <<splitVars, pc, wev, wclose>>
      BY <1>4 DEF StaffMoves, workerVars
    <2>2. tstatus' = tstatus \/ Method = "cash"
      BY <1>4 DEF StaffMoves, transition_to, record_cash_collected, txnVars
    <2>3. QED
      BY <1>0, <2>1, <2>2, SharesPreserved
  <1>5. ASSUME NEW w \in Worker, Apply(w)
        PROVE  SharesInv'
    <2>1. ASSUME NEW exact \in BOOLEAN, apply_refuses(w, exact)
          PROVE  SharesInv'
      BY <1>0, <2>1, SharesPreserved DEF apply_refuses, Idle, txnVars, StatusesOK
    <2>2. CASE apply_moves(w)
      BY <1>0, <2>2, SharesPreserved DEF apply_moves, Idle, StatusesOK
    <2>3. CASE apply_completes(w)
      BY <1>0, <2>3, SharesPreserved DEF apply_completes, txnVars, StatusesOK
    <2>4. CASE on_transaction_settled(w)
      <3>1. /\ UNCHANGED <<tstatus, split, shStatus, shTxn, wev>>
            /\ pc' = [pc EXCEPT ![w] = "shared"]
            /\ wclose' = [wclose EXCEPT ![w] = close_if_complete(wev[w][1])]
        BY <2>4 DEF on_transaction_settled, txnVars, splitVars
      <3>2. SharesAsk' /\ SplitIsPaid'
        BY <3>1 DEF SharesInv, SharesAsk, SplitIsPaid
      <3>3. LastShareCloses'
        <4> SUFFICES ASSUME NEW v \in Worker, pc'[v] \in {"shared", "summed"}, wclose'[v]
                     PROVE  /\ split # "none"
                            /\ \A s \in Share : shTxn[s] = wev[v][1] \/ shStatus[s] = "completed"
          BY <3>1 DEF LastShareCloses
        <4>1. CASE v = w
          <5>1. close_if_complete(wev[w][1])
            BY <1>0, <3>1, <4>1 DEF StatusesOK
          <5>2. PICK s \in Share : /\ shTxn[s] = wev[w][1]
                                   /\ \A other \in Share \ {s} : shStatus[other] = "completed"
            BY <5>1 DEF close_if_complete
          <5>3. wev[w][1] # 0
            BY <2>4, PaymentsAssumption
            DEF on_transaction_settled, HeldInv, HeldIsProcessing, Holding, Txn
          <5>4. QED
            BY <4>1, <5>2, <5>3 DEF SharesInv, SharesAsk
        <4>2. CASE v # w
          BY <1>0, <3>1, <4>2 DEF SharesInv, LastShareCloses, StatusesOK
        <4>3. QED
          BY <4>1, <4>2
      <3>4. QED
        BY <3>2, <3>3 DEF SharesInv
    <2>5. CASE report_settled_total(w)
      BY <1>0, <2>5, SharesPreserved DEF report_settled_total, txnVars, StatusesOK
    <2>6. CASE apply_commits(w)
      <3> DEFINE t == wev[w][1]
      <3>1. t \in Txn /\ tstatus[t] = "processing"
        BY <2>6 DEF apply_commits, HeldInv, HeldIsProcessing, Holding
      <3>2. /\ tstatus' = [tstatus EXCEPT ![t] = "completed"]
            /\ shStatus' = [s \in Share |->
                 IF shTxn[s] = t /\ can(PAYMENT_TRANSITIONS, shStatus[s], "completed")
                 THEN "completed" ELSE shStatus[s]]
            /\ split' = IF wclose[w] THEN "completed" ELSE split
            /\ shTxn' = shTxn
            /\ pc' = [pc EXCEPT ![w] = "idle"]
            /\ wev' = [wev EXCEPT ![w] = NoEvent]
            /\ wclose' = [wclose EXCEPT ![w] = FALSE]
        BY <2>6 DEF apply_commits, Idle
      <3>3. tstatus'[t] = "completed" /\ \A u \in Txn : u # t => tstatus'[u] = tstatus[u]
        BY <1>0, <3>1, <3>2 DEF StatusesOK
      <3>4. \A s \in Share : shTxn[s] = t => shStatus'[s] = "completed"
        <4>1. can(PAYMENT_TRANSITIONS, "processing", "completed")
          BY DEF can, PAYMENT_TRANSITIONS
        <4>2. t # 0
          BY <3>1, PaymentsAssumption DEF Txn
        <4>3. QED
          BY <3>2, <4>1, <4>2 DEF SharesInv, SharesAsk
      <3>5. \A s \in Share : /\ shTxn[s] # t => shStatus'[s] = shStatus[s]
                             /\ shStatus[s] = "completed" => shStatus'[s] = "completed"
        BY <3>2
      <3>6. SharesAsk'
        <4> SUFFICES ASSUME NEW s \in Share
                     PROVE  /\ shTxn[s] # 0 => /\ split' # "none"
                                               /\ tstatus'[shTxn[s]] # "none"
                                               /\ shStatus'[s] \in {"processing", "completed"}
                            /\ shStatus'[s] = "completed" =>
                                 shTxn[s] # 0 /\ tstatus'[shTxn[s]] \in {"completed", "refunded"}
                            /\ Method = "online" /\ shTxn[s] # 0 /\ tstatus'[shTxn[s]] = "completed"
                                 => shStatus'[s] = "completed"
          BY <3>2 DEF SharesAsk
        <4>0. shTxn[s] # 0 => shTxn[s] \in Txn
          BY <1>0 DEF StatusesOK
        <4>1. CASE shTxn[s] = t
          BY <3>1, <3>2, <3>3, <3>4, <4>0, <4>1, PaymentsAssumption DEF SharesInv, SharesAsk, Txn
        <4>2. CASE shTxn[s] # t
          BY <3>2, <3>3, <3>5, <4>0, <4>2 DEF SharesInv, SharesAsk
        <4>3. QED
          BY <4>1, <4>2
      <3>7. LastShareCloses'
        BY <1>0, <3>2, <3>5 DEF SharesInv, LastShareCloses, StatusesOK
      <3>8. SplitIsPaid'
        <4>1. ASSUME wclose[w], NEW s \in Share
              PROVE  shStatus'[s] = "completed"
          BY <2>6, <3>4, <3>5, <4>1 DEF apply_commits, SharesInv, LastShareCloses
        <4>2. CASE wclose[w]
          BY <4>1, <4>2 DEF SplitIsPaid
        <4>3. CASE ~ wclose[w]
          BY <3>2, <3>5, <4>3 DEF SharesInv, SplitIsPaid
        <4>4. QED
          BY <4>2, <4>3
      <3>9. QED
        BY <3>6, <3>7, <3>8 DEF SharesInv
    <2>7. CASE apply_raises(w)
      BY <1>0, <2>7, SharesPreserved DEF apply_raises, Idle, txnVars, StatusesOK
    <2>8. QED
      BY <1>5, <2>1, <2>2, <2>3, <2>4, <2>5, <2>6, <2>7 DEF Apply
  <1>6. ASSUME NEW w \in Worker, crash(w)
        PROVE  SharesInv'
    BY <1>0, <1>6, SharesPreserved DEF crash, Idle, txnVars, StatusesOK
  <1>7. ASSUME NEW w \in Worker, NEW e \in Event, handle_webhook(w, e)
        PROVE  SharesInv'
    BY <1>0, <1>7, SharesPreserved DEF handle_webhook, txnVars, StatusesOK
  <1>8. CASE UNCHANGED <<tstatus, splitVars, pc, wev, wclose>>
    BY <1>0, <1>8, SharesPreserved
  <1>9. QED
    BY <1>1, <1>2, <1>3, <1>4, <1>5, <1>6, <1>7, <1>8
    DEF Next, CustomerDecides, ExpiryDecides, Cancels, transition_to, replay, vars, txnVars, workerVars

-----------------------------------------------------------------------------
(* An order that is not split is collected once *)

\* A transaction that may still settle, or has.
Counts(t) == tstatus[t] \in {"processing", "completed"}

\* Without a split, one request at most counts, for the whole total, and what
\* is reported is what is settled.
OneRequest ==
  split = "none" =>
    /\ \A t \in Txn : Counts(t) => tamount[t] = Total
    /\ \A t, u \in Txn : Counts(t) /\ Counts(u) => t = u
    /\ amountPaid = settled_total
    /\ \A w \in Worker : pc[w] = "summed" => wsum[w] = Total

LEMMA OneRequestInit == Init => OneRequest
  <1>1. Init => settled_total = 0
    BY NothingSettled DEF Init, settled_total
  <1>2. QED
    BY <1>1 DEF Init, OneRequest, Counts

\* Without a split, what is due is the whole total until it is nothing.
LEMMA AllOrNothing ==
  ASSUME AmountsOK, OneRequest, split = "none"
  PROVE  /\ settled_total \in {0, Total}
         /\ outstanding > 0 => /\ outstanding = Total
                               /\ \A t \in Txn : tstatus[t] # "completed"
  <1>1. CASE \A t \in Txn : tstatus[t] # "completed"
    <2>1. settled_total = 0
      BY <1>1, NothingSettled DEF settled_total
    <2>2. QED
      BY <1>1, <2>1, PaymentsAssumption DEF outstanding
  <1>2. CASE \E t \in Txn : tstatus[t] = "completed"
    <2>1. PICK t \in Txn : tstatus[t] = "completed"
      BY <1>2
    <2>2. \A u \in Txn : tstatus[u] = "completed" => u = t
      BY <2>1 DEF OneRequest, Counts
    <2>3. settled_total = tamount[t]
      BY <2>1, <2>2, OneSettled DEF AmountsOK, settled_total
    <2>4. settled_total = Total
      BY <2>1, <2>3 DEF OneRequest, Counts
    <2>5. QED
      BY <2>4, PaymentsAssumption DEF outstanding
  <1>3. QED
    BY <1>1, <1>2

\* A step that opens nothing and settles nothing preserves it.
LEMMA OneRequestPreserved ==
  ASSUME OneRequest,
         split' = "none" => split = "none",
         \A t \in Txn : Counts(t)' => Counts(t) /\ tamount'[t] = tamount[t],
         \A t \in Txn : (tstatus[t] = "completed") <=> (tstatus'[t] = "completed"),
         amountPaid' = amountPaid,
         \A w \in Worker : pc'[w] = "summed" => pc[w] = "summed" /\ wsum'[w] = wsum[w]
  PROVE  OneRequest'
  <1>1. \A t \in Txn : tstatus[t] = "completed" => tamount[t] = tamount'[t]
    BY DEF Counts
  <1>2. settled(tstatus, tamount) = settled(tstatus', tamount')
    BY <1>1, SettledDependsOnCompleted
  <1>3. QED
    BY <1>2 DEF OneRequest, settled_total

\* Of the transaction a worker settles, without a split.
LEMMA HeldIsTheRequest ==
  ASSUME HeldInv, AmountsOK, OneRequest, split = "none", NEW w \in Worker, Holding(w)
  PROVE  /\ wev[w][1] \in Txn /\ Counts(wev[w][1])
         /\ \A t \in Txn : Counts(t) => t = wev[w][1]
         /\ settled_seen_by(w) = Total
  <1> DEFINE t == wev[w][1]
             st == [tstatus EXCEPT ![t] = "completed"]
  <1>1. t \in Txn /\ Counts(t) /\ tamount[t] = Total /\ \A u \in Txn : Counts(u) => u = t
    BY DEF HeldInv, HeldIsProcessing, Counts, OneRequest
  <1>2. st[t] = "completed" /\ \A u \in Txn : st[u] = "completed" => u = t
    BY <1>1 DEF HeldInv, StatusesOK, Counts
  <1> HIDE DEF st
  <1>3. settled(st, tamount) = tamount[t]
    BY <1>1, <1>2, OneSettled DEF AmountsOK
  <1>4. QED
    BY <1>1, <1>3 DEF settled_seen_by, st

LEMMA OneRequestNext == HeldInv /\ AmountsOK /\ OneRequest /\ [Next]_vars => OneRequest'
  <1> SUFFICES ASSUME HeldInv, AmountsOK, OneRequest, [Next]_vars
               PROVE  OneRequest'
    OBVIOUS
  <1>0. StatusesOK /\ StatusesOK' /\ AmountsOK'
    BY StatusesNext, AmountsNext DEF HeldInv
  <1>1. CASE initiate
    <2>1. /\ split = "none" /\ outstanding > 0
          /\ ~ \E t \in Txn : Open(t) /\ tamount[t] = outstanding
          /\ UNCHANGED <<amountPaid, split, pc, wsum>>
      BY <1>1 DEF initiate, orderVars, splitVars, workerVars
    <2>2. outstanding = Total /\ \A t \in Txn : ~ Counts(t)
      <3>1. outstanding = Total /\ \A t \in Txn : tstatus[t] # "completed"
        BY <2>1, AllOrNothing
      <3>2. \A t \in Txn : Counts(t) => Open(t) /\ tamount[t] = Total
        BY <2>1, <3>1 DEF Counts, Open, OneRequest
      <3>3. \A t \in Txn : ~ (Open(t) /\ tamount[t] = Total)
        BY <2>1, <3>1
      <3>4. QED
        BY <3>1, <3>2, <3>3
    <2>w. \A w \in Worker : pc[w] # "summed"
      BY <2>2 DEF HeldInv, HeldIsProcessing, Holding, Counts
    <2>3. PICK t \in Txn : tstatus' = [tstatus EXCEPT ![t] = "processing"]
                           /\ tamount' = [tamount EXCEPT ![t] = Total]
                           /\ tstatus[t] = "none"
      BY <1>1, <2>2 DEF initiate, OpenCheckout, Fresh
    <2>4. \A u \in Txn : Counts(u)' => u = t
      BY <1>0, <2>2, <2>3 DEF Counts, StatusesOK
    <2>5. tamount'[t] = Total
      BY <2>3 DEF AmountsOK
    <2>6. settled(tstatus, tamount) = settled(tstatus', tamount')
      <3>1. \A u \in Txn : tstatus[u] # "completed" /\ tstatus'[u] # "completed"
        BY <1>0, <2>2, <2>3 DEF Counts, StatusesOK
      <3>2. QED
        BY <3>1, SettledDependsOnCompleted
    <2>7. amountPaid' = settled_total'
      BY <2>1, <2>6 DEF OneRequest, settled_total
    <2>8. \A u \in Txn : Counts(u)' => tamount'[u] = Total
      BY <2>4, <2>5
    <2>9. \A w \in Worker : pc'[w] # "summed"
      BY <2>1, <2>w
    <2>10. QED
      BY <2>4, <2>7, <2>8, <2>9 DEF OneRequest
  <1>2. ASSUME NEW amounts \in [Share -> 1 .. Total], create_split(amounts)
        PROVE  OneRequest'
    BY <1>2 DEF create_split, OneRequest
  <1>3. ASSUME NEW s \in Share, pay_share(s)
        PROVE  OneRequest'
    BY <1>3 DEF pay_share, OneRequest
  <1>4. ASSUME NEW status \in OrderStatus, StaffMoves(status)
        PROVE  OneRequest'
    <2>0. UNCHANGED <<split, pc, wev, wsum>>
      BY <1>4 DEF StaffMoves, splitVars, workerVars
    <2>1. CASE UNCHANGED <<txnVars, amountPaid>>
      BY <2>0, <2>1, OneRequestPreserved DEF txnVars, Counts
    <2>2. CASE ~ UNCHANGED <<txnVars, amountPaid>> /\ split = "none"
      <3> DEFINE ask == {t \in Txn : Open(t) /\ tamount[t] = outstanding}
      <3>1. record_cash_collected
        BY <1>4, <2>2 DEF StaffMoves, transition_to
      <3>2. PICK t \in Txn :
              /\ outstanding > 0
              /\ IF ask # {} THEN t \in ask /\ ~ Locked(t) ELSE Fresh(t)
              /\ tstatus' = [tstatus EXCEPT ![t] = "completed"]
              /\ tamount' = [tamount EXCEPT ![t] = outstanding]
              /\ amountPaid' = settled(tstatus', tamount')
        BY <2>2, <3>1 DEF record_cash_collected
      <3>3. outstanding = Total /\ \A u \in Txn : tstatus[u] # "completed"
        BY <2>2, <3>2, AllOrNothing
      <3>4. \A u \in Txn : Counts(u) => u \in ask /\ u = t
        <4> SUFFICES ASSUME NEW u \in Txn, Counts(u)
                     PROVE  u \in ask /\ u = t
          OBVIOUS
        <4>1. Open(u) /\ tamount[u] = Total
          BY <2>2, <3>3 DEF Counts, Open, OneRequest
        <4>2. u \in ask
          BY <3>3, <4>1
        <4>3. t \in ask
          BY <3>2, <4>2
        <4>4. Open(t) /\ tstatus[t] # "pending"
          BY <4>3 DEF HeldInv, NeverPending
        <4>5. QED
          BY <2>2, <4>2, <4>4 DEF Counts, Open, OneRequest
      <3>5. tamount'[t] = Total /\ \A u \in Txn : Counts(u)' => u = t
        BY <1>0, <3>2, <3>3, <3>4 DEF Counts, StatusesOK, AmountsOK
      <3>6. \A w \in Worker : pc[w] # "summed"
        <4> SUFFICES ASSUME NEW w \in Worker, pc[w] = "summed"
                     PROVE  FALSE
          OBVIOUS
        <4>1. wev[w][1] \in Txn /\ Counts(wev[w][1])
          BY DEF HeldInv, HeldIsProcessing, Holding, Counts
        <4>2. wev[w][1] = t /\ ask # {}
          BY <3>4, <4>1
        <4>3. QED
          BY <3>2, <4>2 DEF Locked
      <3>7. QED
        BY <2>0, <3>2, <3>5, <3>6 DEF OneRequest, settled_total
    <2>3. CASE split # "none"
      BY <2>0, <2>3 DEF OneRequest
    <2>4. QED
      BY <2>1, <2>2, <2>3
  <1>5. ASSUME NEW w \in Worker, Apply(w)
        PROVE  OneRequest'
    <2>1. ASSUME NEW exact \in BOOLEAN, apply_refuses(w, exact)
          PROVE  OneRequest'
      BY <1>0, <2>1, OneRequestPreserved
      DEF apply_refuses, Idle, orderVars, txnVars, splitVars, Counts, StatusesOK, AmountsOK
    <2>2. CASE apply_moves(w)
      <3> DEFINE t == wev[w][1]
      <3>1. t \in Txn
        BY <1>0, <2>2, PaymentsAssumption DEF apply_moves, StatusesOK, Event
      <3>2. target(w) \in {"processing", "failed"}
        BY <1>0, <2>2, TargetIsStatus DEF apply_moves
      <3>3. tstatus[t] = "processing" /\ target(w) = "failed"
        <4>1. tstatus[t] \in PaymentStatus /\ tstatus[t] # "pending"
          BY <2>2, <3>1 DEF apply_moves, HeldInv, HandledExists, NeverPending, StatusesOK
        <4>2. QED
          BY <2>2, <3>2, <4>1, StatusTables DEF apply_moves, can, PAYMENT_TRANSITIONS
      <3>4. tstatus' = [tstatus EXCEPT ![t] = "failed"] /\ UNCHANGED <<tamount, amountPaid, split>>
        BY <2>2, <3>3 DEF apply_moves, orderVars, splitVars
      <3>5. \A v \in Worker : pc'[v] = "summed" => pc[v] = "summed" /\ wsum'[v] = wsum[v]
        BY <1>0, <2>2 DEF apply_moves, Idle, StatusesOK, AmountsOK
      <3>6. QED
        BY <1>0, <3>1, <3>3, <3>4, <3>5, OneRequestPreserved DEF Counts, StatusesOK
    <2>3. CASE apply_completes(w)
      BY <1>0, <2>3, OneRequestPreserved
      DEF apply_completes, orderVars, txnVars, splitVars, Counts, StatusesOK
    <2>4. CASE on_transaction_settled(w)
      BY <1>0, <2>4, OneRequestPreserved
      DEF on_transaction_settled, orderVars, txnVars, splitVars, Counts, StatusesOK
    <2>5. CASE report_settled_total(w)
      <3>1. UNCHANGED <<amountPaid, tstatus, tamount, split>> /\ pc[w] = "shared"
            /\ pc' = [pc EXCEPT ![w] = "summed"]
            /\ wsum' = [wsum EXCEPT ![w] = settled_seen_by(w)]
        BY <2>5 DEF report_settled_total, orderVars, txnVars, splitVars
      <3>2. split = "none" => settled_seen_by(w) = Total
        BY <3>1, HeldIsTheRequest DEF Holding
      <3>3. QED
        BY <1>0, <3>1, <3>2 DEF OneRequest, Counts, settled_total, StatusesOK, AmountsOK
    <2>6. CASE apply_commits(w)
      <3> DEFINE t == wev[w][1]
      <3> SUFFICES ASSUME split' = "none"
                   PROVE  OneRequest'
        BY DEF OneRequest
      <3>1. split = "none" /\ pc[w] = "summed" /\ Holding(w)
        BY <2>6 DEF apply_commits, Holding
      <3>2. /\ tstatus' = [tstatus EXCEPT ![t] = "completed"]
            /\ amountPaid' = wsum[w]
            /\ tamount' = tamount
            /\ pc' = [pc EXCEPT ![w] = "idle"]
            /\ wsum' = [wsum EXCEPT ![w] = 0]
        BY <2>6 DEF apply_commits, Idle
      <3>3. /\ t \in Txn /\ Counts(t)
            /\ \A u \in Txn : Counts(u) => u = t
            /\ settled_seen_by(w) = Total
        BY <3>1, HeldIsTheRequest
      <3>4. \A u \in Txn : Counts(u)' => u = t /\ tamount'[u] = Total
        BY <1>0, <3>1, <3>2, <3>3 DEF Counts, OneRequest, StatusesOK
      <3>5. settled_total' = Total
        BY <3>2, <3>3 DEF settled_total, settled_seen_by
      <3>6. amountPaid' = Total
        BY <3>1, <3>2 DEF OneRequest
      <3>7. \A v \in Worker : pc'[v] = "summed" => wsum'[v] = Total
        BY <1>0, <3>1, <3>2 DEF OneRequest, StatusesOK, AmountsOK
      <3>8. QED
        BY <3>4, <3>5, <3>6, <3>7 DEF OneRequest
    <2>7. CASE apply_raises(w)
      BY <1>0, <2>7, OneRequestPreserved
      DEF apply_raises, Idle, orderVars, txnVars, splitVars, Counts, StatusesOK, AmountsOK
    <2>8. QED
      BY <1>5, <2>1, <2>2, <2>3, <2>4, <2>5, <2>6, <2>7 DEF Apply
  <1>6. ASSUME NEW w \in Worker, crash(w)
        PROVE  OneRequest'
    BY <1>0, <1>6, OneRequestPreserved
    DEF crash, Idle, orderVars, txnVars, splitVars, Counts, StatusesOK, AmountsOK
  <1>7. ASSUME NEW w \in Worker, NEW e \in Event, handle_webhook(w, e)
        PROVE  OneRequest'
    BY <1>0, <1>7, OneRequestPreserved
    DEF handle_webhook, orderVars, txnVars, splitVars, Counts, StatusesOK
  <1>8. CASE UNCHANGED <<amountPaid, txnVars, split, pc, wsum>>
    BY <1>8, OneRequestPreserved DEF txnVars, Counts
  <1>9. ASSUME NEW who \in {"customer", "expiry"}, Cancels(who)
        PROVE  OneRequest'
    BY <1>9, OneRequestPreserved
    DEF Cancels, transition_to, orderVars, txnVars, splitVars, workerVars, Counts
  <1>10. QED
    BY <1>1, <1>2, <1>3, <1>4, <1>5, <1>6, <1>7, <1>8, <1>9
    DEF Next, CustomerDecides, ExpiryDecides, replay, vars, orderVars, splitVars, workerVars

\* P2 and C5 for any number of transactions, participants and workers: a share
\* is settled exactly when its transaction is, a split announces itself settled
\* only when its shares are, and an order that is not split is collected once
\* and reported as collected (SplitService, PaymentService._apply, cash.py).
THEOREM SharesFollowTheLedgerInvariant == Spec => []SharesFollowTheLedger
  <1>1. HeldInv /\ AmountsOK /\ SharesInv /\ OneRequest => SharesFollowTheLedger
    <2> SUFFICES ASSUME HeldInv, AmountsOK, SharesInv, OneRequest
                 PROVE  SharesFollowTheLedger
      OBVIOUS
    <2>1. TypeOK
      BY DEF HeldInv, AmountsOK, TypeOK
    <2>2. split = "none" => settled_total <= Total /\ amountPaid = settled_total
      BY AllOrNothing, PaymentsAssumption DEF OneRequest
    <2>3. QED
      BY <2>1, <2>2 DEF SharesInv, SharesAsk, SplitIsPaid, SharesFollowTheLedger
  <1>2. HeldInv /\ AmountsOK /\ [Next]_vars => AmountsOK'
    BY AmountsNext DEF HeldInv
  <1>3. QED
    BY HeldInit, HeldNext, AmountsInit, <1>2, SharesInit, SharesNext, OneRequestInit, OneRequestNext,
       <1>1, PTL DEF Spec
=============================================================================
