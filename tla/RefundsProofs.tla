---------------------------- MODULE RefundsProofs ----------------------------
(***************************************************************************)
(* Theorems about Refunds, for any number of transactions, refunds,        *)
(* participants and workers and any amounts: what is given back is covered *)
(* by what was collected, a transaction is refunded exactly when all of it *)
(* was given back, and the cash of a delivered order is on the books.      *)
(***************************************************************************)
EXTENDS Refunds, PaymentsProofs

-----------------------------------------------------------------------------
(* Sums *)

Collected == {t \in Txn : tstatus[t] \in {"completed", "refunded"}}

Active   == {r \in Refund : rstatus[r] \in {"pending", "processing", "completed"}}
Back(t)  == {r \in Refund : rtxn[r] = t /\ rstatus[r] = "completed"}
Given(r) == {q \in Refund : q = r \/ (rtxn[q] = rtxn[r] /\ rstatus[q] = "completed")}

\* Transactions and refunds are finitely many.
LEMMA RowsAreFinite ==
  /\ \A S \in SUBSET Refund : IsFiniteSet(S)
  /\ \A S \in SUBSET Txn : IsFiniteSet(S)
  <1>1. IsFiniteSet(Refund)
    BY RefundsAssumption, FS_Interval DEF Refund
  <1>2. IsFiniteSet(Txn)
    BY TxnIsFinite
  <1>3. QED
    BY <1>1, <1>2, FS_Subset

\* The sums of the module, restricted to a set, as sums over the set.
LEMMA SumOfRestriction ==
  ASSUME NEW f, NEW S, IsFiniteSet(S)
  PROVE  SumFunction(Restrict(f, S)) = SumFunctionOnSet(f, S)
  <1> DEFINE g == Restrict(f, S)
  <1>1. DOMAIN g = S /\ \A x \in DOMAIN g : g[x] = f[x]
    BY DEF Restrict
  <1> HIDE DEF g
  <1>2. SumFunction(g) = SumFunctionOnSet(f, DOMAIN g)
    BY <1>1, SumOfFunction
  <1>3. QED
    BY <1>1, <1>2 DEF g

-----------------------------------------------------------------------------
(* The payments that refunds give back *)

\* A request is for something, and so is every share of a split.
AmountsArePositive ==
  /\ \A t \in Txn : tstatus[t] # "none" => tamount[t] > 0
  /\ split # "none" => \A s \in Share : shAmount[s] > 0

PayInv == HeldInv /\ AmountsOK /\ SharesInv /\ AmountsArePositive

\* What is settled, or was given back, keeps its status and its amount while
\* payments go on, and payments refund nothing.
LEMMA LedgerStep ==
  HeldInv /\ AmountsOK /\ [Next]_vars =>
    \A t \in Txn :
      /\ tstatus[t] \in {"completed", "refunded"} => tstatus'[t] = tstatus[t] /\ tamount'[t] = tamount[t]
      /\ tstatus'[t] = "refunded" => tstatus[t] = "refunded"
  <1> DEFINE Kept == \A t \in Txn :
               /\ tstatus[t] \in {"completed", "refunded"} =>
                    tstatus'[t] = tstatus[t] /\ tamount'[t] = tamount[t]
               /\ tstatus'[t] = "refunded" => tstatus[t] = "refunded"
  <1> SUFFICES ASSUME HeldInv, AmountsOK, [Next]_vars
               PROVE  Kept
    OBVIOUS
  <1>0. tstatus \in [Txn -> PaymentStatus \cup {"none"}] /\ tamount \in [Txn -> Nat]
    BY DEF HeldInv, StatusesOK, AmountsOK
  <1>1. ASSUME NEW u \in Txn, NEW st \in {"processing", "completed", "failed"}, NEW am,
               tstatus[u] \notin {"completed", "refunded"},
               tstatus' = [tstatus EXCEPT ![u] = st], tamount' = [tamount EXCEPT ![u] = am]
        PROVE  Kept
    BY <1>0, <1>1
  <1>2. CASE UNCHANGED txnVars
    BY <1>2 DEF txnVars
  <1>3. CASE initiate
    BY <1>1, <1>3 DEF initiate, OpenCheckout, Fresh
  <1>4. ASSUME NEW s \in Share, pay_share(s)
        PROVE  Kept
    BY <1>1, <1>4 DEF pay_share, OpenCheckout, Fresh
  <1>5. ASSUME NEW status \in OrderStatus, StaffMoves(status)
        PROVE  Kept
    <2>1. CASE record_cash_collected /\ ~ UNCHANGED txnVars
      <3>1. PICK u \in Txn : /\ tstatus[u] \notin {"completed", "refunded"}
                             /\ tstatus' = [tstatus EXCEPT ![u] = "completed"]
                             /\ tamount' = [tamount EXCEPT ![u] = outstanding]
        BY <2>1 DEF record_cash_collected, txnVars, Fresh, Open
      <3>2. QED
        BY <1>1, <3>1
    <2>2. QED
      BY <1>2, <1>5, <2>1 DEF StaffMoves, transition_to, txnVars
  <1>6. ASSUME NEW w \in Worker, apply_moves(w)
        PROVE  Kept
    <2>1. wev[w][1] \in Txn
      BY <1>6, PaymentsAssumption DEF apply_moves, HeldInv, StatusesOK, Event
    <2>2. target(w) \in {"processing", "completed", "failed"}
      BY <1>6, TargetIsStatus DEF apply_moves, HeldInv
    <2>3. tstatus[wev[w][1]] \notin {"completed", "refunded"}
      BY <1>6, <2>2 DEF apply_moves, can, PAYMENT_TRANSITIONS
    <2>4. tstatus' = [tstatus EXCEPT ![wev[w][1]] = target(w)] /\ tamount' = tamount
      BY <1>6 DEF apply_moves
    <2>5. QED
      BY <1>0, <2>1, <2>2, <2>3, <2>4
  <1>7. ASSUME NEW w \in Worker, apply_commits(w)
        PROVE  Kept
    <2>1. wev[w][1] \in Txn /\ tstatus[wev[w][1]] = "processing"
      BY <1>7 DEF apply_commits, HeldInv, HeldIsProcessing, Holding
    <2>2. tstatus' = [tstatus EXCEPT ![wev[w][1]] = "completed"] /\ tamount' = tamount
      BY <1>7 DEF apply_commits
    <2>3. QED
      BY <1>0, <2>1, <2>2
  <1>8. QED
    BY <1>2, <1>3, <1>4, <1>5, <1>6, <1>7
    DEF Next, Apply, create_split, CustomerDecides, ExpiryDecides, Cancels, transition_to, handle_webhook,
        replay, crash, apply_refuses, apply_completes, on_transaction_settled, report_settled_total,
        apply_raises, vars, txnVars

\* Every request that is opened is for a positive amount.
LEMMA PositiveNext ==
  PayInv /\ [Next]_vars => AmountsArePositive'
  <1> SUFFICES ASSUME HeldInv, AmountsOK, SharesInv, AmountsArePositive, [Next]_vars
               PROVE  AmountsArePositive'
    BY DEF PayInv
  <1>0. /\ tstatus \in [Txn -> PaymentStatus \cup {"none"}]
        /\ tamount \in [Txn -> Nat]
        /\ shAmount \in [Share -> 0 .. Total]
    BY DEF HeldInv, StatusesOK, AmountsOK
  <1>1. ASSUME NEW u \in Txn, NEW st, NEW am, am > 0,
               tstatus' = [tstatus EXCEPT ![u] = st], tamount' = [tamount EXCEPT ![u] = am]
        PROVE  \A t \in Txn : tstatus'[t] # "none" => tamount'[t] > 0
    BY <1>0, <1>1 DEF AmountsArePositive
  <1>2. CASE UNCHANGED <<tstatus, tamount, split, shAmount>>
    BY <1>2 DEF AmountsArePositive
  <1>3. CASE initiate
    BY <1>1, <1>3 DEF initiate, OpenCheckout, splitVars, AmountsArePositive
  <1>4. ASSUME NEW amounts \in [Share -> 1 .. Total], create_split(amounts)
        PROVE  AmountsArePositive'
    BY <1>4, PaymentsAssumption DEF create_split, txnVars, AmountsArePositive
  <1>5. ASSUME NEW s \in Share, pay_share(s)
        PROVE  AmountsArePositive'
    <2>1. shAmount[s] > 0
      BY <1>5 DEF pay_share, AmountsArePositive
    <2>2. \A t \in Txn : tstatus'[t] # "none" => tamount'[t] > 0
      BY <1>1, <1>5, <2>1 DEF pay_share, OpenCheckout
    <2>3. split # "none" /\ UNCHANGED shAmount
      BY <1>5 DEF pay_share
    <2>4. QED
      BY <2>2, <2>3 DEF AmountsArePositive
  <1>6. ASSUME NEW status \in OrderStatus, StaffMoves(status)
        PROVE  AmountsArePositive'
    <2>1. UNCHANGED <<split, shAmount>>
      BY <1>6 DEF StaffMoves, splitVars
    <2>2. CASE record_cash_collected /\ ~ UNCHANGED txnVars
      BY <1>1, <2>1, <2>2 DEF record_cash_collected, txnVars, AmountsArePositive
    <2>3. QED
      BY <1>2, <1>6, <2>1, <2>2 DEF StaffMoves, transition_to, txnVars
  <1>7. ASSUME NEW w \in Worker, apply_moves(w) \/ apply_commits(w)
        PROVE  AmountsArePositive'
    <2>1. wev[w][1] \in Txn => tstatus[wev[w][1]] # "none"
      BY <1>7 DEF apply_moves, apply_commits, HeldInv, HandledExists
    <2>2. \A t \in Txn : tstatus'[t] # "none" => tstatus[t] # "none"
      BY <1>0, <1>7, <2>1 DEF apply_moves, apply_commits
    <2>3. UNCHANGED <<tamount, shAmount>> /\ (split' # "none" => split # "none")
      <3>1. CASE apply_moves(w)
        BY <3>1 DEF apply_moves, splitVars
      <3>2. CASE apply_commits(w)
        BY <3>2 DEF apply_commits, SharesInv, LastShareCloses
      <3>3. QED
        BY <1>7, <3>1, <3>2
    <2>4. QED
      BY <2>2, <2>3 DEF AmountsArePositive
  <1>8. QED
    BY <1>2, <1>3, <1>4, <1>5, <1>6, <1>7
    DEF Next, Apply, CustomerDecides, ExpiryDecides, Cancels, transition_to, handle_webhook,
        replay, crash, apply_refuses, apply_completes, on_transaction_settled, report_settled_total,
        apply_raises, vars, txnVars, splitVars

-----------------------------------------------------------------------------
(* The inductive invariant *)

RefundTypes ==
  /\ rstatus \in [Refund -> {"none", "pending", "completed", "cancelled"}]
  /\ rtxn \in [Refund -> Txn \cup {0}]
  /\ ramount \in [Refund -> Nat]
  /\ spc \in [Refund -> {"idle", "locked", "summed"}]
  /\ ssum \in [Refund -> Nat]

\* A refund is of a transaction that was settled.
RefundsOfSettled ==
  \A r \in Refund : rstatus[r] # "none" =>
    rtxn[r] \in Txn /\ tstatus[rtxn[r]] \in {"completed", "refunded"}

\* A transfer being recorded is still pending; one that completes its
\* transaction does so alone, and what it gives back still reaches the amount.
SettlementsHold ==
  /\ \A r \in Refund : spc[r] # "idle" => rstatus[r] = "pending"
  /\ \A r \in Refund : spc[r] = "summed" =>
       /\ tstatus[rtxn[r]] = "completed"
       /\ SumFunctionOnSet(ramount, Given(r)) >= tamount[rtxn[r]]
  /\ \A q, r \in Refund : spc[q] = "summed" /\ spc[r] = "summed" /\ rtxn[q] = rtxn[r] => q = r

\* The two halves of RefundsAreExact.
RefundsAreCovered ==
  SumFunctionOnSet(ramount, Active) <= SumFunctionOnSet(tamount, Collected)

RefundedWhenGivenBack ==
  \A t \in Txn :
    /\ tstatus[t] = "completed" => SumFunctionOnSet(ramount, Back(t)) < tamount[t]
    /\ tstatus[t] = "refunded"  => SumFunctionOnSet(ramount, Back(t)) >= tamount[t]

RefundInv ==
  /\ PayInv
  /\ RefundTypes
  /\ RefundsOfSettled
  /\ SettlementsHold
  /\ RefundsAreCovered
  /\ RefundedWhenGivenBack

LEMMA RefundInit0 == RefundInit => RefundInv
  <1> SUFFICES ASSUME RefundInit PROVE RefundInv
    OBVIOUS
  <1>1. PayInv
    BY HeldInit, AmountsInit, SharesInit DEF RefundInit, PayInv, AmountsArePositive, Init
  <1>2. RefundTypes /\ RefundsOfSettled /\ SettlementsHold
    BY DEF RefundInit, RefundTypes, RefundsOfSettled, SettlementsHold
  <1>3. Active = {} /\ Collected = {}
    BY DEF RefundInit, Init, Active, Collected
  <1>4. RefundsAreCovered
    BY <1>3, SumEmpty DEF RefundsAreCovered
  <1>5. RefundedWhenGivenBack
    BY DEF RefundInit, Init, RefundedWhenGivenBack
  <1>6. QED
    BY <1>1, <1>2, <1>4, <1>5 DEF RefundInv

\* A step of the payments, or the transfer that completes a refund, keeps what
\* the payments' own proofs rest on.
LEMMA PayInvNext ==
  PayInv /\ RefundTypes /\ SettlementsHold /\ RefundsOfSettled /\ [RefundNext]_allVars => PayInv'
  <1> SUFFICES ASSUME PayInv, RefundTypes, SettlementsHold, RefundsOfSettled, [RefundNext]_allVars
               PROVE  PayInv'
    OBVIOUS
  <1>1. CASE [Next]_vars
    BY <1>1, HeldNext, AmountsNext, SharesNext, PositiveNext DEF PayInv, HeldInv
  <1>2. ASSUME NEW r \in Refund, settle_commits(r)
        PROVE  PayInv'
    <2> DEFINE t == rtxn[r]
    <2>1. t \in Txn /\ tstatus[t] = "completed" /\ ssum[r] \in Nat
      BY <1>2 DEF settle_commits, SettlementsHold, RefundsOfSettled, RefundTypes
    <2>2. /\ tstatus' = [tstatus EXCEPT ![t] = "refunded"]
          /\ amountPaid' = ssum[r]
          /\ UNCHANGED <<ostatus, tamount, splitVars, event, seen, workerVars, crashes>>
      BY <1>2 DEF settle_commits
    <2>3. tstatus \in [Txn -> PaymentStatus \cup {"none"}]
      BY DEF PayInv, HeldInv, StatusesOK
    <2>4. HeldInv'
      <3>1. StatusesOK'
        BY <2>1, <2>2, <2>3, StatusTables
        DEF PayInv, HeldInv, StatusesOK, splitVars, workerVars
      <3>2. NeverPending' /\ HandledExists' /\ HeldIsProcessing' /\ HeldAlone'
        BY <2>1, <2>2, <2>3
        DEF PayInv, HeldInv, NeverPending, HandledExists, HeldIsProcessing, HeldAlone, Holding,
            workerVars
      <3>3. QED
        BY <3>1, <3>2 DEF HeldInv
    <2>5. AmountsOK'
      BY <2>1, <2>2 DEF PayInv, AmountsOK, workerVars
    <2>6. SharesInv'
      <3>1. \A s \in Share : shTxn[s] # 0 => shTxn[s] \in Txn
        BY DEF PayInv, HeldInv, StatusesOK
      <3>2. SharesAsk'
        BY <2>1, <2>2, <2>3, <3>1 DEF PayInv, SharesInv, SharesAsk, splitVars
      <3>3. LastShareCloses' /\ SplitIsPaid'
        BY <2>2 DEF PayInv, SharesInv, LastShareCloses, SplitIsPaid, splitVars, workerVars
      <3>4. QED
        BY <3>2, <3>3 DEF SharesInv
    <2>7. AmountsArePositive'
      BY <2>1, <2>2, <2>3 DEF PayInv, AmountsArePositive, splitVars
    <2>8. QED
      BY <2>4, <2>5, <2>6, <2>7 DEF PayInv
  <1>3. QED
    BY <1>1, <1>2
    DEF RefundNext, allVars, refund, settle_locks, settle_partial, settle_sums, cancel_refund

\* What was collected never shrinks, transfers included.
LEMMA CollectedGrows ==
  PayInv /\ RefundTypes /\ SettlementsHold /\ RefundsOfSettled /\ [RefundNext]_allVars =>
    /\ \A t \in Collected : t \in Collected' /\ tamount'[t] = tamount[t]
    /\ SumFunctionOnSet(tamount, Collected) <= SumFunctionOnSet(tamount', Collected')
  <1> SUFFICES ASSUME PayInv, RefundTypes, SettlementsHold, RefundsOfSettled, [RefundNext]_allVars
               PROVE  /\ \A t \in Collected : t \in Collected' /\ tamount'[t] = tamount[t]
                      /\ SumFunctionOnSet(tamount, Collected) <= SumFunctionOnSet(tamount', Collected')
    OBVIOUS
  <1>1. \A t \in Collected : t \in Collected' /\ tamount'[t] = tamount[t]
    <2>1. CASE [Next]_vars
      BY <2>1, LedgerStep DEF PayInv, Collected
    <2>2. ASSUME NEW r \in Refund, settle_commits(r)
          PROVE  \A t \in Collected : t \in Collected' /\ tamount'[t] = tamount[t]
      BY <2>2 DEF settle_commits, Collected, PayInv, HeldInv, StatusesOK
    <2>3. QED
      BY <2>1, <2>2
      DEF RefundNext, allVars, refund, settle_locks, settle_partial, settle_sums, cancel_refund
  <1>2. IsFiniteSet(Collected) /\ IsFiniteSet(Collected') /\ Collected \in SUBSET Collected'
    BY <1>1, RowsAreFinite DEF Collected
  <1>3. \A t \in Collected' : tamount'[t] \in Nat
    BY PayInvNext DEF Collected, PayInv, AmountsOK
  <1> HIDE DEF Collected
  <1>4. SumFunctionOnSet(tamount', Collected) = SumFunctionOnSet(tamount, Collected)
    BY <1>1, <1>2, SumSame
  <1>5. SumFunctionOnSet(tamount', Collected) <= SumFunctionOnSet(tamount', Collected')
    BY <1>2, <1>3, SumSubset
  <1>6. QED
    BY <1>1, <1>4, <1>5

\* A step that leaves the refunds alone: what was collected grows, and nothing
\* is refunded that was not.
LEMMA RefundsKept ==
  ASSUME RefundInv, [RefundNext]_allVars, UNCHANGED refundVars, [Next]_vars
  PROVE  RefundInv'
  <1>1. PayInv'
    BY PayInvNext DEF RefundInv
  <1>2. UNCHANGED <<rstatus, rtxn, ramount, spc, ssum>>
    BY DEF refundVars, refundRows
  <1>3. \A t \in Txn :
          /\ tstatus[t] \in {"completed", "refunded"} => tstatus'[t] = tstatus[t] /\ tamount'[t] = tamount[t]
          /\ tstatus'[t] = "refunded" => tstatus[t] = "refunded"
    BY LedgerStep DEF RefundInv, PayInv
  <1>4. RefundTypes' /\ RefundsOfSettled'
    BY <1>2, <1>3 DEF RefundInv, RefundTypes, RefundsOfSettled
  <1>5. /\ \A r \in Refund : Given(r)' = Given(r)
        /\ \A t \in Txn : Back(t)' = Back(t)
        /\ Active' = Active
    BY <1>2 DEF Given, Back, Active
  <1>6. SettlementsHold'
    <2>1. \A r \in Refund : spc[r] = "summed" => rtxn[r] \in Txn
      BY DEF RefundInv, SettlementsHold, RefundsOfSettled
    <2>2. QED
      BY <1>2, <1>3, <1>5, <2>1 DEF RefundInv, SettlementsHold
  <1>7. RefundsAreCovered'
    <2>1. SumFunctionOnSet(tamount, Collected) <= SumFunctionOnSet(tamount', Collected')
      BY CollectedGrows DEF RefundInv
    <2>2. /\ SumFunctionOnSet(ramount, Active) \in Int
          /\ SumFunctionOnSet(tamount, Collected) \in Int
          /\ SumFunctionOnSet(tamount', Collected') \in Int
      <3>1. IsFiniteSet(Active) /\ \A r \in Active : ramount[r] \in Int
        BY RowsAreFinite DEF Active, RefundInv, RefundTypes
      <3>2. IsFiniteSet(Collected) /\ \A t \in Collected : tamount[t] \in Int
        BY RowsAreFinite DEF Collected, RefundInv, PayInv, AmountsOK
      <3>3. IsFiniteSet(Collected') /\ \A t \in Collected' : tamount'[t] \in Int
        BY <1>1, RowsAreFinite DEF Collected, PayInv, AmountsOK
      <3> HIDE DEF Active, Collected
      <3>4. QED
        BY <3>1, <3>2, <3>3, SumType
    <2>3. SumFunctionOnSet(ramount', Active') = SumFunctionOnSet(ramount, Active)
      BY <1>2, <1>5
    <2>4. QED
      BY <2>1, <2>2, <2>3 DEF RefundInv, RefundsAreCovered
  <1>8. RefundedWhenGivenBack'
    <2> SUFFICES ASSUME NEW t \in Txn
                 PROVE  /\ tstatus'[t] = "completed" => SumFunctionOnSet(ramount, Back(t)) < tamount'[t]
                        /\ tstatus'[t] = "refunded" => SumFunctionOnSet(ramount, Back(t)) >= tamount'[t]
      BY <1>2, <1>5 DEF RefundedWhenGivenBack
    <2>1. CASE tstatus[t] \in {"completed", "refunded"}
      BY <1>3, <2>1 DEF RefundInv, RefundedWhenGivenBack
    <2>2. CASE tstatus[t] \notin {"completed", "refunded"}
      \* Nothing was given back on a transaction that was not settled.
      <3>1. Back(t) = {}
        BY <2>2 DEF Back, RefundInv, RefundsOfSettled
      <3>2. tstatus'[t] # "refunded" /\ (tstatus'[t] = "completed" => tamount'[t] > 0)
        BY <1>1, <1>3, <2>2 DEF PayInv, AmountsArePositive
      <3>3. SumFunctionOnSet(ramount, Back(t)) = 0
        BY <3>1, SumEmpty
      <3>4. tamount'[t] \in Nat
        BY <1>1 DEF PayInv, AmountsOK
      <3>5. QED
        BY <3>2, <3>3, <3>4
    <2>3. QED
      BY <2>1, <2>2
  <1>9. QED
    BY <1>1, <1>4, <1>6, <1>7, <1>8 DEF RefundInv

\* The sums that concern the refunds are natural numbers.
LEMMA SumsOfRefunds ==
  ASSUME RefundTypes
  PROVE  \A S \in SUBSET Refund : /\ IsFiniteSet(S)
                                  /\ \A q \in S : ramount[q] \in Nat /\ ramount[q] \in Int
                                  /\ SumFunctionOnSet(ramount, S) \in Nat
  <1> SUFFICES ASSUME NEW S \in SUBSET Refund
               PROVE  /\ IsFiniteSet(S)
                      /\ \A q \in S : ramount[q] \in Nat /\ ramount[q] \in Int
                      /\ SumFunctionOnSet(ramount, S) \in Nat
    OBVIOUS
  <1>1. IsFiniteSet(S) /\ \A q \in S : ramount[q] \in Nat /\ ramount[q] \in Int
    BY RowsAreFinite DEF RefundTypes
  <1>2. SumFunctionOnSet(ramount, S) \in Nat
    BY <1>1, SumType
  <1>3. QED
    BY <1>1, <1>2

\* settled_total is part of what was collected.
LEMMA SettledIsCollected ==
  AmountsOK => settled_total <= SumFunctionOnSet(tamount, Collected)
  <1> SUFFICES ASSUME AmountsOK PROVE settled_total <= SumFunctionOnSet(tamount, Collected)
    OBVIOUS
  <1>1. /\ IsFiniteSet(Collected) /\ \A t \in Collected : tamount[t] \in Nat
        /\ Completed(tstatus) \in SUBSET Collected
    BY RowsAreFinite DEF Collected, Completed, AmountsOK
  <1> HIDE DEF Collected
  <1>2. SumFunctionOnSet(tamount, Completed(tstatus)) <= SumFunctionOnSet(tamount, Collected)
    BY <1>1, SumSubset
  <1>3. QED
    BY <1>2, SettledIsSum DEF settled_total

\* A refund is requested within what is left of the collected money.
LEMMA RefundRequested ==
  ASSUME RefundInv, NEW r \in Refund, NEW t \in Txn, NEW amount \in 1 .. Total, refund(r, t, amount)
  PROVE  RefundInv'
  <1>1. /\ rstatus[r] = "none" /\ tstatus[t] = "completed" /\ amount <= remaining
        /\ ~ \E q \in Refund : spc[q] = "summed" /\ rtxn[q] = t
        /\ rstatus' = [rstatus EXCEPT ![r] = "pending"]
        /\ rtxn' = [rtxn EXCEPT ![r] = t]
        /\ ramount' = [ramount EXCEPT ![r] = amount]
        /\ UNCHANGED <<vars, spc, ssum>>
    BY DEF refund
  <1>2. UNCHANGED <<tstatus, tamount>> /\ amount \in Nat /\ amount \in Int
    BY <1>1, PaymentsAssumption DEF vars, txnVars
  <1>3. PayInv'
    BY PayInvNext DEF RefundInv, RefundNext
  <1>4. RefundTypes /\ RefundTypes'
    BY <1>1, <1>2 DEF RefundInv, RefundTypes
  <1>5. RefundsOfSettled'
    BY <1>1, <1>2, <1>4 DEF RefundInv, RefundsOfSettled, RefundTypes
  <1>6. \A q \in Refund : q # r => /\ rstatus'[q] = rstatus[q] /\ rtxn'[q] = rtxn[q]
                                   /\ ramount'[q] = ramount[q]
    BY <1>1, <1>4 DEF RefundTypes
  <1>7. rstatus'[r] = "pending" /\ rtxn'[r] = t /\ ramount'[r] = amount
    BY <1>1, <1>4 DEF RefundTypes
  <1>8. \A u \in Txn : Back(u)' = Back(u) /\ r \notin Back(u) /\ Back(u) \in SUBSET Refund
    BY <1>1, <1>6, <1>7 DEF Back
  <1>9. \A S \in SUBSET Refund :
          r \notin S => SumFunctionOnSet(ramount', S) = SumFunctionOnSet(ramount, S)
    <2> SUFFICES ASSUME NEW S \in SUBSET Refund, r \notin S
                 PROVE  SumFunctionOnSet(ramount', S) = SumFunctionOnSet(ramount, S)
      OBVIOUS
    <2>1. IsFiniteSet(S) /\ \A q \in S : ramount'[q] = ramount[q]
      BY <1>6, RowsAreFinite
    <2>2. QED
      BY <2>1, SumSame
  <1>10. SettlementsHold'
    <2>1. \A q \in Refund : spc[q] # "idle" => q # r /\ rstatus[q] = "pending" /\ rstatus'[q] = "pending"
      BY <1>1, <1>6 DEF RefundInv, SettlementsHold
    <2>2. ASSUME NEW q \in Refund, spc[q] = "summed"
          PROVE  SumFunctionOnSet(ramount', Given(q)') >= tamount[rtxn'[q]]
                 /\ rtxn'[q] = rtxn[q] /\ tstatus[rtxn[q]] = "completed"
      <3>1. Given(q)' = Given(q) /\ r \notin Given(q) /\ Given(q) \in SUBSET Refund
        BY <1>1, <1>6, <1>7, <2>1, <2>2 DEF Given
      <3>2. SumFunctionOnSet(ramount', Given(q)) = SumFunctionOnSet(ramount, Given(q))
        BY <1>9, <3>1
      <3>3. rtxn'[q] = rtxn[q]
        BY <1>6, <2>1, <2>2
      <3>4. QED
        BY <2>2, <3>1, <3>2, <3>3 DEF RefundInv, SettlementsHold
    <2>3. \A q \in Refund : spc'[q] # "idle" => rstatus'[q] = "pending"
      BY <1>1, <2>1
    <2>4. \A q \in Refund : spc'[q] = "summed" =>
            /\ tstatus'[rtxn'[q]] = "completed"
            /\ SumFunctionOnSet(ramount', Given(q)') >= tamount'[rtxn'[q]]
      BY <1>1, <1>2, <2>2
    <2>5. \A q, u \in Refund : spc'[q] = "summed" /\ spc'[u] = "summed" /\ rtxn'[q] = rtxn'[u] => q = u
      BY <1>1, <2>2 DEF RefundInv, SettlementsHold
    <2>6. QED
      BY <2>3, <2>4, <2>5 DEF SettlementsHold
  <1>11. RefundsAreCovered'
    <2>1. Active' = Active \cup {r} /\ r \notin Active /\ Active \in SUBSET Refund
      BY <1>1, <1>6, <1>7 DEF Active
    <2>2. Collected' = Collected
      BY <1>2 DEF Collected
    <2>3. IsFiniteSet(Active) /\ \A q \in Active \cup {r} : ramount'[q] \in Int
      BY <1>4, <2>1, SumsOfRefunds DEF RefundTypes
    <2> HIDE DEF Active, Collected
    <2>4. SumFunctionOnSet(ramount', Active \cup {r}) = amount + SumFunctionOnSet(ramount', Active)
      BY <1>7, <2>1, <2>3, SumAdd
    <2>5. SumFunctionOnSet(ramount', Active) = SumFunctionOnSet(ramount, Active)
      BY <1>9, <2>1
    <2>6. SumFunctionOnSet(ramount, Active) \in Nat
      BY <1>4, <2>1, SumsOfRefunds
    <2>7. amount + SumFunctionOnSet(ramount, Active) <= settled_total
      <3>1. already = SumFunctionOnSet(ramount, Active)
        BY <2>3, SumOfRestriction DEF already, refunded, Active
      <3>2. settled_total \in Nat
        BY SettledTotals DEF RefundInv, PayInv
      <3>3. QED
        BY <1>1, <1>2, <2>6, <3>1, <3>2 DEF remaining
    <2>8. settled_total <= SumFunctionOnSet(tamount, Collected) /\ settled_total \in Nat
      BY SettledIsCollected, SettledTotals DEF RefundInv, PayInv
    <2>9. SumFunctionOnSet(tamount, Collected) \in Int
      <3>1. IsFiniteSet(Collected) /\ \A u \in Collected : tamount[u] \in Int
        BY RowsAreFinite DEF Collected, RefundInv, PayInv, AmountsOK
      <3>2. QED
        BY <3>1, SumType
    <2>10. SumFunctionOnSet(ramount', Active') = amount + SumFunctionOnSet(ramount, Active)
      BY <2>1, <2>4, <2>5
    <2>11. SumFunctionOnSet(tamount', Collected') = SumFunctionOnSet(tamount, Collected)
      BY <1>2, <2>2
    <2>12. SumFunctionOnSet(ramount', Active') <= SumFunctionOnSet(tamount', Collected')
      BY <1>2, <2>6, <2>7, <2>8, <2>9, <2>10, <2>11
    <2>13. QED
      BY <2>12 DEF RefundsAreCovered
  <1>12. RefundedWhenGivenBack'
    <2> SUFFICES ASSUME NEW u \in Txn
                 PROVE  /\ tstatus[u] = "completed" => SumFunctionOnSet(ramount', Back(u)') < tamount[u]
                        /\ tstatus[u] = "refunded" => SumFunctionOnSet(ramount', Back(u)') >= tamount[u]
      BY <1>2 DEF RefundedWhenGivenBack
    <2>1. SumFunctionOnSet(ramount', Back(u)') = SumFunctionOnSet(ramount, Back(u))
      BY <1>8, <1>9
    <2>2. QED
      BY <2>1 DEF RefundInv, RefundedWhenGivenBack
  <1>13. QED
    BY <1>3, <1>4, <1>5, <1>10, <1>11, <1>12 DEF RefundInv

\* Recording a transfer begins, or its sum is read: no row is written.
LEMMA RefundPrepared ==
  ASSUME RefundInv, NEW r \in Refund, settle_locks(r) \/ settle_sums(r)
  PROVE  RefundInv'
  <1>1. UNCHANGED <<vars, rstatus, rtxn, ramount>>
    BY DEF settle_locks, settle_sums, refundRows
  <1>2. UNCHANGED <<tstatus, tamount>>
    BY <1>1 DEF vars, txnVars
  <1>3. PayInv'
    BY PayInvNext DEF RefundInv, RefundNext
  <1>4. RefundTypes'
    <2>1. settled([tstatus EXCEPT ![rtxn[r]] = "refunded"], tamount) \in Nat
      BY SettledType DEF RefundInv, PayInv, AmountsOK
    <2>2. QED
      BY <1>1, <2>1 DEF settle_locks, settle_sums, RefundInv, RefundTypes
  <1>5. RefundsOfSettled' /\ RefundsAreCovered' /\ RefundedWhenGivenBack'
    <2>1. Active' = Active /\ Collected' = Collected /\ \A t \in Txn : Back(t)' = Back(t)
      BY <1>1, <1>2 DEF Active, Collected, Back
    <2>2. QED
      BY <1>1, <1>2, <2>1
      DEF RefundInv, RefundsOfSettled, RefundsAreCovered, RefundedWhenGivenBack
  <1>6. SettlementsHold'
    <2>0. \A q \in Refund : Given(q)' = Given(q)
      BY <1>1 DEF Given
    <2>1. CASE settle_locks(r)
      <3>1. rstatus[r] = "pending" /\ spc' = [spc EXCEPT ![r] = "locked"]
        BY <2>1 DEF settle_locks, can, PAYMENT_TRANSITIONS, RefundInv, RefundTypes
      <3>2. QED
        BY <1>1, <1>2, <2>0, <3>1 DEF RefundInv, SettlementsHold, RefundTypes
    <2>2. CASE settle_sums(r)
      <3>1. /\ spc[r] = "locked" /\ ~ TxnHeld(r) /\ fully_refunded(r)
            /\ spc' = [spc EXCEPT ![r] = "summed"]
        BY <2>2 DEF settle_sums
      <3>2. rstatus[r] = "pending" /\ rtxn[r] \in Txn /\ tstatus[rtxn[r]] \in {"completed", "refunded"}
        BY <3>1 DEF RefundInv, SettlementsHold, RefundsOfSettled
      <3>3. tstatus[rtxn[r]] = "completed"
        BY <3>1, <3>2 DEF fully_refunded, can, PAYMENT_TRANSITIONS
      <3>4. SumFunctionOnSet(ramount, Given(r)) >= tamount[rtxn[r]]
        <4>1. IsFiniteSet(Given(r))
          BY RowsAreFinite DEF Given
        <4>2. rendu(r) = SumFunctionOnSet(ramount, Given(r))
          BY <4>1, SumOfRestriction DEF rendu, refunded, Given
        <4>3. QED
          BY <3>1, <4>2 DEF fully_refunded
      <3>5. \A q \in Refund : spc[q] = "summed" => q # r /\ rtxn[q] # rtxn[r]
        BY <3>1 DEF TxnHeld
      <3>6. \A q \in Refund : spc'[q] = IF q = r THEN "summed" ELSE spc[q]
        BY <3>1 DEF RefundInv, RefundTypes
      <3>7. QED
        BY <1>1, <1>2, <2>0, <3>2, <3>3, <3>4, <3>5, <3>6 DEF RefundInv, SettlementsHold
    <2>3. QED
      BY <2>1, <2>2
  <1>7. QED
    BY <1>3, <1>4, <1>5, <1>6 DEF RefundInv

\* A pending refund is abandoned: it only frees what it promised.
LEMMA RefundCancelled ==
  ASSUME RefundInv, NEW r \in Refund, cancel_refund(r)
  PROVE  RefundInv'
  <1>1. /\ spc[r] = "idle" /\ rstatus[r] # "none"
        /\ can(PAYMENT_TRANSITIONS, rstatus[r], "cancelled")
        /\ rstatus' = [rstatus EXCEPT ![r] = "cancelled"]
        /\ UNCHANGED <<vars, rtxn, ramount, spc, ssum>>
    BY DEF cancel_refund
  <1>2. rstatus[r] = "pending" /\ UNCHANGED <<tstatus, tamount>>
    BY <1>1 DEF can, PAYMENT_TRANSITIONS, RefundInv, RefundTypes, vars, txnVars
  <1>3. PayInv'
    BY PayInvNext DEF RefundInv, RefundNext
  <1>4. RefundTypes /\ RefundTypes' /\ RefundsOfSettled'
    BY <1>1, <1>2 DEF RefundInv, RefundTypes, RefundsOfSettled
  <1>5. \A q \in Refund : rstatus'[q] = IF q = r THEN "cancelled" ELSE rstatus[q]
    BY <1>1, <1>4 DEF RefundTypes
  <1>6. /\ \A t \in Txn : Back(t)' = Back(t)
        /\ \A q \in Refund : Given(q)' = Given(q)
        /\ Active' \in SUBSET Active /\ Active \in SUBSET Refund
    BY <1>1, <1>2, <1>5 DEF Back, Given, Active
  <1>7. SettlementsHold'
    BY <1>1, <1>2, <1>5, <1>6 DEF RefundInv, SettlementsHold
  <1>8. RefundsAreCovered'
    <2>1. Collected' = Collected
      BY <1>2 DEF Collected
    <2>2. IsFiniteSet(Active) /\ \A q \in Active : ramount[q] \in Nat
      BY <1>4, <1>6, SumsOfRefunds
    <2>3. SumFunctionOnSet(ramount, Active) \in Nat /\ SumFunctionOnSet(ramount, Active') \in Nat
      BY <1>4, <1>6, SumsOfRefunds
    <2>4. SumFunctionOnSet(tamount, Collected) \in Int
      <3>1. IsFiniteSet(Collected) /\ \A u \in Collected : tamount[u] \in Int
        BY RowsAreFinite DEF Collected, RefundInv, PayInv, AmountsOK
      <3>2. QED
        BY <3>1, SumType
    <2> HIDE DEF Active, Collected
    <2>5. SumFunctionOnSet(ramount, Active') <= SumFunctionOnSet(ramount, Active)
      BY <1>6, <2>2, SumSubset
    <2>6. SumFunctionOnSet(ramount', Active') <= SumFunctionOnSet(tamount', Collected')
      BY <1>1, <1>2, <2>1, <2>3, <2>4, <2>5 DEF RefundInv, RefundsAreCovered
    <2>7. QED
      BY <2>6 DEF RefundsAreCovered
  <1>9. RefundedWhenGivenBack'
    BY <1>1, <1>2, <1>6 DEF RefundInv, RefundedWhenGivenBack
  <1>10. QED
    BY <1>3, <1>4, <1>7, <1>8, <1>9 DEF RefundInv

\* A transfer is recorded: the refund is completed, and the transaction follows
\* when what was given back reaches its amount.
LEMMA RefundCompleted ==
  ASSUME RefundInv, NEW r \in Refund, rstatus[r] = "pending",
         rstatus' = [rstatus EXCEPT ![r] = "completed"],
         spc' = [spc EXCEPT ![r] = "idle"],
         ssum' \in [Refund -> Nat],
         UNCHANGED <<rtxn, ramount, tamount>>,
         PayInv',
         \A t \in Txn : t # rtxn[r] => tstatus'[t] = tstatus[t],
         tstatus'[rtxn[r]] \in {"completed", "refunded"},
         \A q \in Refund : q # r /\ spc[q] = "summed" => rtxn[q] # rtxn[r],
         tstatus'[rtxn[r]] = "completed" => SumFunctionOnSet(ramount, Given(r)) < tamount[rtxn[r]],
         tstatus'[rtxn[r]] = "refunded" => SumFunctionOnSet(ramount, Given(r)) >= tamount[rtxn[r]]
  PROVE  RefundInv'
  <1>1. rtxn[r] \in Txn /\ tstatus[rtxn[r]] \in {"completed", "refunded"}
    BY DEF RefundInv, RefundsOfSettled
  <1>2. RefundTypes /\ RefundTypes'
    BY DEF RefundInv, RefundTypes
  <1>3. \A q \in Refund : /\ rstatus'[q] = IF q = r THEN "completed" ELSE rstatus[q]
                          /\ spc'[q] = IF q = r THEN "idle" ELSE spc[q]
    BY <1>2 DEF RefundTypes
  <1>4. RefundsOfSettled'
    BY <1>1, <1>3 DEF RefundInv, RefundsOfSettled
  <1>5. /\ Active' = Active /\ Collected' = Collected
        /\ Back(rtxn[r])' = Given(r)
        /\ \A t \in Txn : t # rtxn[r] => Back(t)' = Back(t)
        /\ \A q \in Refund : rtxn[q] # rtxn[r] => Given(q)' = Given(q)
    BY <1>1, <1>3 DEF Active, Collected, Back, Given
  <1>6. SettlementsHold'
    <2>1. \A q \in Refund : spc'[q] # "idle" => q # r /\ spc'[q] = spc[q] /\ rstatus'[q] = "pending"
      BY <1>3 DEF RefundInv, SettlementsHold
    <2>2. ASSUME NEW q \in Refund, spc'[q] = "summed"
          PROVE  /\ tstatus'[rtxn[q]] = "completed"
                 /\ SumFunctionOnSet(ramount, Given(q)') >= tamount[rtxn[q]]
      <3>1. spc[q] = "summed" /\ rtxn[q] # rtxn[r]
        BY <2>1, <2>2
      <3>2. rtxn[q] \in Txn /\ tstatus[rtxn[q]] = "completed"
        BY <3>1 DEF RefundInv, SettlementsHold, RefundsOfSettled
      <3>3. SumFunctionOnSet(ramount, Given(q)) >= tamount[rtxn[q]]
        BY <3>1 DEF RefundInv, SettlementsHold
      <3>4. Given(q)' = Given(q)
        BY <1>5, <3>1
      <3>5. QED
        BY <3>1, <3>2, <3>3, <3>4
    <2>3. \A q, u \in Refund : spc'[q] = "summed" /\ spc'[u] = "summed" /\ rtxn[q] = rtxn[u] => q = u
      BY <2>1 DEF RefundInv, SettlementsHold
    <2>4. QED
      BY <2>1, <2>2, <2>3 DEF SettlementsHold
  <1>7. RefundsAreCovered'
    BY <1>5 DEF RefundInv, RefundsAreCovered
  <1>8. RefundedWhenGivenBack'
    <2> SUFFICES ASSUME NEW t \in Txn
                 PROVE  /\ tstatus'[t] = "completed" => SumFunctionOnSet(ramount, Back(t)') < tamount[t]
                        /\ tstatus'[t] = "refunded" => SumFunctionOnSet(ramount, Back(t)') >= tamount[t]
      BY DEF RefundedWhenGivenBack
    <2>1. CASE t = rtxn[r]
      BY <1>5, <2>1
    <2>2. CASE t # rtxn[r]
      BY <1>5, <2>2 DEF RefundInv, RefundedWhenGivenBack
    <2>3. QED
      BY <2>1, <2>2
  <1>9. QED
    BY <1>2, <1>4, <1>6, <1>7, <1>8 DEF RefundInv

\* A partial refund leaves the transaction settled; after the refund that
\* completed it, any other only gives more back.
LEMMA PartialSettled ==
  ASSUME RefundInv, NEW r \in Refund, settle_partial(r)
  PROVE  RefundInv'
  <1>1. /\ spc[r] = "locked" /\ ~ TxnHeld(r) /\ ~ fully_refunded(r)
        /\ rstatus' = [rstatus EXCEPT ![r] = "completed"]
        /\ spc' = [spc EXCEPT ![r] = "idle"]
        /\ UNCHANGED <<vars, rtxn, ramount, ssum>>
    BY DEF settle_partial
  <1>2. UNCHANGED <<tstatus, tamount>>
    BY <1>1 DEF vars, txnVars
  <1>3. PayInv'
    BY PayInvNext DEF RefundInv, RefundNext
  <1>4. /\ rstatus[r] = "pending" /\ rtxn[r] \in Txn
        /\ tstatus[rtxn[r]] \in {"completed", "refunded"}
        /\ ssum' \in [Refund -> Nat] /\ RefundTypes
    BY <1>1 DEF RefundInv, SettlementsHold, RefundsOfSettled, RefundTypes
  <1>5. \A q \in Refund : q # r /\ spc[q] = "summed" => rtxn[q] # rtxn[r]
    BY <1>1 DEF TxnHeld
  <1>6. /\ Given(r) \in SUBSET Refund /\ Back(rtxn[r]) \in SUBSET Given(r)
        /\ Back(rtxn[r]) \in SUBSET Refund
    BY DEF Given, Back
  <1>7. /\ IsFiniteSet(Given(r)) /\ \A q \in Given(r) : ramount[q] \in Nat
        /\ SumFunctionOnSet(ramount, Given(r)) \in Nat
        /\ SumFunctionOnSet(ramount, Back(rtxn[r])) \in Nat
    BY <1>4, <1>6, SumsOfRefunds
  <1>8. rendu(r) = SumFunctionOnSet(ramount, Given(r))
    BY <1>7, SumOfRestriction DEF rendu, refunded, Given
  <1>9. tamount[rtxn[r]] \in Nat
    BY <1>4 DEF RefundInv, PayInv, AmountsOK
  <1> HIDE DEF Given, Back
  <1>10. tstatus[rtxn[r]] = "completed" => SumFunctionOnSet(ramount, Given(r)) < tamount[rtxn[r]]
    BY <1>1, <1>7, <1>8, <1>9 DEF fully_refunded, can, PAYMENT_TRANSITIONS
  <1>11. tstatus[rtxn[r]] = "refunded" => SumFunctionOnSet(ramount, Given(r)) >= tamount[rtxn[r]]
    <2>1. SumFunctionOnSet(ramount, Back(rtxn[r])) <= SumFunctionOnSet(ramount, Given(r))
      BY <1>6, <1>7, SumSubset
    <2>2. tstatus[rtxn[r]] = "refunded" => SumFunctionOnSet(ramount, Back(rtxn[r])) >= tamount[rtxn[r]]
      BY <1>4 DEF RefundInv, RefundedWhenGivenBack
    <2>3. QED
      BY <1>7, <1>9, <2>1, <2>2
  <1>12. QED
    BY <1>1, <1>2, <1>3, <1>4, <1>5, <1>10, <1>11, RefundCompleted

\* The refund that completes its transaction is committed.
LEMMA FullSettled ==
  ASSUME RefundInv, NEW r \in Refund, settle_commits(r)
  PROVE  RefundInv'
  <1>1. /\ spc[r] = "summed"
        /\ rstatus' = [rstatus EXCEPT ![r] = "completed"]
        /\ tstatus' = [tstatus EXCEPT ![rtxn[r]] = "refunded"]
        /\ spc' = [spc EXCEPT ![r] = "idle"]
        /\ ssum' = [ssum EXCEPT ![r] = 0]
        /\ UNCHANGED <<rtxn, ramount, tamount>>
    BY DEF settle_commits
  <1>2. PayInv'
    BY PayInvNext DEF RefundInv, RefundNext
  <1>3. /\ rstatus[r] = "pending" /\ rtxn[r] \in Txn /\ tstatus \in [Txn -> PaymentStatus \cup {"none"}]
        /\ SumFunctionOnSet(ramount, Given(r)) >= tamount[rtxn[r]]
    BY <1>1 DEF RefundInv, PayInv, HeldInv, StatusesOK, SettlementsHold, RefundsOfSettled
  <1>4. ssum' \in [Refund -> Nat]
    BY <1>1 DEF RefundInv, RefundTypes
  <1>5. \A q \in Refund : q # r /\ spc[q] = "summed" => rtxn[q] # rtxn[r]
    BY <1>1 DEF RefundInv, SettlementsHold
  <1>6. tstatus'[rtxn[r]] = "refunded" /\ \A t \in Txn : t # rtxn[r] => tstatus'[t] = tstatus[t]
    BY <1>1, <1>3
  <1>7. QED
    BY <1>1, <1>2, <1>3, <1>4, <1>5, <1>6, RefundCompleted

LEMMA RefundNextKeeps == RefundInv /\ [RefundNext]_allVars => RefundInv'
  <1> SUFFICES ASSUME RefundInv, [RefundNext]_allVars PROVE RefundInv'
    OBVIOUS
  <1>1. CASE [Next]_vars /\ UNCHANGED refundVars
    BY <1>1, RefundsKept
  <1>2. ASSUME NEW r \in Refund, NEW t \in Txn, NEW amount \in 1 .. Total, refund(r, t, amount)
        PROVE  RefundInv'
    BY <1>2, RefundRequested
  <1>3. ASSUME NEW r \in Refund, settle_locks(r) \/ settle_sums(r)
        PROVE  RefundInv'
    BY <1>3, RefundPrepared
  <1>4. ASSUME NEW r \in Refund, settle_partial(r)
        PROVE  RefundInv'
    BY <1>4, PartialSettled
  <1>5. ASSUME NEW r \in Refund, settle_commits(r)
        PROVE  RefundInv'
    BY <1>5, FullSettled
  <1>6. ASSUME NEW r \in Refund, cancel_refund(r)
        PROVE  RefundInv'
    BY <1>6, RefundCancelled
  <1>7. QED
    BY <1>1, <1>2, <1>3, <1>4, <1>5, <1>6 DEF RefundNext, allVars

LEMMA RefundInvariant == RefundSpec => []RefundInv
  BY RefundInit0, RefundNextKeeps, PTL DEF RefundSpec

-----------------------------------------------------------------------------
(* What a reader can rely on *)

\* What the module's sums say, in the terms of the invariant.
LEMMA SumsOfTheModule ==
  ASSUME RefundTypes, AmountsOK
  PROVE  /\ already = SumFunctionOnSet(ramount, Active)
         /\ collected = SumFunctionOnSet(tamount, Collected)
         /\ \A t \in Txn : refunded({r \in Refund : rtxn[r] = t /\ rstatus[r] = "completed"})
                             = SumFunctionOnSet(ramount, Back(t))
  <1>1. IsFiniteSet(Active) /\ IsFiniteSet(Collected) /\ \A t \in Txn : IsFiniteSet(Back(t))
    BY RowsAreFinite DEF Active, Collected, Back
  <1>2. already = SumFunctionOnSet(ramount, Active)
    BY <1>1, SumOfRestriction DEF already, refunded, Active
  <1>3. collected = SumFunctionOnSet(tamount, Collected)
    BY <1>1, SumOfRestriction DEF collected, Collected
  <1>4. \A t \in Txn : refunded({r \in Refund : rtxn[r] = t /\ rstatus[r] = "completed"})
                       = SumFunctionOnSet(ramount, Back(t))
    BY <1>1, SumOfRestriction DEF refunded, Back
  <1>5. QED
    BY <1>2, <1>3, <1>4

\* RefundService (payments/services.py): with any number of refunds requested,
\* recorded and abandoned in any order, what is given back or promised is
\* covered by what was collected, and a transaction is refunded exactly when
\* what was given back on it reaches its amount.
THEOREM RefundsAreExactInvariant == RefundSpec => []RefundsAreExact
  <1>1. RefundInv => RefundsAreExact
    <2> SUFFICES ASSUME RefundInv PROVE RefundsAreExact
      OBVIOUS
    <2>1. /\ already = SumFunctionOnSet(ramount, Active)
          /\ collected = SumFunctionOnSet(tamount, Collected)
          /\ \A t \in Txn : refunded({r \in Refund : rtxn[r] = t /\ rstatus[r] = "completed"})
                              = SumFunctionOnSet(ramount, Back(t))
      BY SumsOfTheModule DEF RefundInv, PayInv
    <2>2. already <= collected
      BY <2>1 DEF RefundInv, RefundsAreCovered
    <2>3. ASSUME NEW t \in Txn
          PROVE  LET back == refunded({r \in Refund : rtxn[r] = t /\ rstatus[r] = "completed"}) IN
                 /\ tstatus[t] = "completed" => back < tamount[t]
                 /\ tstatus[t] = "refunded" => back >= tamount[t]
      BY <2>1 DEF RefundInv, RefundedWhenGivenBack
    <2>4. QED
      BY <2>2, <2>3 DEF RefundsAreExact
  <1>2. QED
    BY <1>1, RefundInvariant, PTL

\* RefundService.settle and cancel take the refund under its lock: a transfer
\* that was recorded is never abandoned nor recorded again.
THEOREM RefundsFollowTheMachineHolds == RefundSpec => RefundsFollowTheMachine
  <1> DEFINE Machine == \A r \in Refund :
               rstatus'[r] # rstatus[r] =>
                 <<rstatus[r], rstatus'[r]>> \in
                   {<<"none", "pending">>, <<"pending", "completed">>, <<"pending", "cancelled">>}
  <1>1. RefundInv /\ [RefundNext]_allVars => [Machine]_allVars
    <2> SUFFICES ASSUME RefundInv, RefundNext PROVE Machine
      OBVIOUS
    <2>0. rstatus \in [Refund -> {"none", "pending", "completed", "cancelled"}]
      BY DEF RefundInv, RefundTypes
    <2>1. CASE UNCHANGED rstatus
      BY <2>1
    <2>2. ASSUME NEW r \in Refund, NEW t \in Txn, NEW amount \in 1 .. Total, refund(r, t, amount)
          PROVE  Machine
      BY <2>0, <2>2 DEF refund
    <2>3. ASSUME NEW r \in Refund, settle_partial(r) \/ settle_commits(r)
          PROVE  Machine
      <3>1. rstatus[r] = "pending" /\ rstatus' = [rstatus EXCEPT ![r] = "completed"]
        BY <2>3 DEF settle_partial, settle_commits, RefundInv, SettlementsHold
      <3>2. QED
        BY <2>0, <3>1
    <2>4. ASSUME NEW r \in Refund, cancel_refund(r)
          PROVE  Machine
      <3>1. rstatus[r] = "pending" /\ rstatus' = [rstatus EXCEPT ![r] = "cancelled"]
        BY <2>0, <2>4 DEF cancel_refund, can, PAYMENT_TRANSITIONS
      <3>2. QED
        BY <2>0, <3>1
    <2>5. QED
      BY <2>1, <2>2, <2>3, <2>4
      DEF RefundNext, settle_locks, settle_sums, refundVars, refundRows
  <1>2. QED
    BY <1>1, RefundInvariant, PTL DEF RefundSpec, RefundsFollowTheMachine

\* What changes hands at the door is all that was still due.
LEMMA CashSettlesTheRest ==
  ASSUME HeldInv, AmountsOK, AmountsOK', Method = "cash", record_cash_collected
  PROVE  settled_total' >= Total
  <1>0. /\ tstatus \in [Txn -> PaymentStatus \cup {"none"}] /\ tamount \in [Txn -> Nat]
        /\ settled_total \in Nat /\ Total \in Nat
    BY SettledTotals, PaymentsAssumption DEF HeldInv, StatusesOK, AmountsOK
  <1>1. CASE outstanding > 0
    <2>1. PICK t \in Txn : /\ tstatus[t] # "completed"
                           /\ tstatus' = [tstatus EXCEPT ![t] = "completed"]
                           /\ tamount' = [tamount EXCEPT ![t] = outstanding]
      BY <1>1 DEF record_cash_collected, Open, Fresh
    <2> DEFINE S == Completed(tstatus)
    <2>2. Completed(tstatus') = S \cup {t} /\ t \notin S
      BY <1>0, <2>1 DEF Completed
    <2>3. tamount'[t] = outstanding /\ outstanding \in Int
      BY <1>0, <2>1 DEF outstanding
    <2>4. IsFiniteSet(S) /\ (\A u \in S \cup {t} : tamount'[u] \in Int) /\ \A u \in S : tamount'[u] = tamount[u]
      BY <1>0, <2>1, <2>3, TxnIsFinite DEF Completed
    <2> HIDE DEF S
    <2>5. SumFunctionOnSet(tamount', S \cup {t}) = outstanding + SumFunctionOnSet(tamount', S)
      BY <2>2, <2>3, <2>4, SumAdd
    <2>6. SumFunctionOnSet(tamount', S) = SumFunctionOnSet(tamount, S)
      BY <2>4, SumSame
    <2>7. SumFunctionOnSet(tamount, S) = settled_total
      BY SettledIsSum DEF settled_total, S
    <2>8. settled_total' = SumFunctionOnSet(tamount', S \cup {t})
      <3>1. settled_total' = SumFunctionOnSet(tamount', Completed(tstatus'))
        BY SettledIsSum DEF settled_total
      <3>2. QED
        BY <2>2, <3>1
    <2>9. QED
      BY <1>0, <2>5, <2>6, <2>7, <2>8 DEF outstanding
  <1>2. CASE ~ (outstanding > 0)
    <2>1. UNCHANGED <<tstatus, tamount>>
      BY <1>2 DEF record_cash_collected, txnVars
    <2>2. settled_total' = settled_total
      BY <2>1 DEF settled_total
    <2>3. QED
      BY <1>0, <1>2, <2>2 DEF outstanding
  <1>3. QED
    BY <1>1, <1>2

\* The cash of a delivered order is on the books, as a sum of rows.
CashIsOnTheBooks ==
  Method = "cash" /\ ostatus = "delivered" => SumFunctionOnSet(tamount, Collected) >= Total

LEMMA CashInit == RefundInit => CashIsOnTheBooks
  BY DEF RefundInit, Init, CashIsOnTheBooks

LEMMA CashNext == RefundInv /\ RefundInv' /\ CashIsOnTheBooks /\ [RefundNext]_allVars => CashIsOnTheBooks'
  <1> SUFFICES ASSUME RefundInv, RefundInv', CashIsOnTheBooks, [RefundNext]_allVars,
                      Method = "cash", ostatus' = "delivered"
               PROVE  SumFunctionOnSet(tamount', Collected') >= Total
    BY DEF CashIsOnTheBooks
  <1>1. /\ SumFunctionOnSet(tamount, Collected) \in Int
        /\ SumFunctionOnSet(tamount', Collected') \in Int
    <2>1. IsFiniteSet(Collected) /\ \A t \in Collected : tamount[t] \in Int
      BY RowsAreFinite DEF Collected, RefundInv, PayInv, AmountsOK
    <2>2. IsFiniteSet(Collected') /\ \A t \in Collected' : tamount'[t] \in Int
      BY RowsAreFinite DEF Collected, RefundInv, PayInv, AmountsOK
    <2> HIDE DEF Collected
    <2>3. QED
      BY <2>1, <2>2, SumType
  <1>2. ostatus = "delivered" \/ record_cash_collected
    BY DEF RefundNext, refund, settle_locks, settle_partial, settle_sums, settle_commits, cancel_refund,
           allVars, Next, initiate, create_split, pay_share, StaffMoves, transition_to, CustomerDecides,
           ExpiryDecides, Cancels, handle_webhook, replay, crash, Apply, apply_refuses, apply_moves,
           apply_completes, on_transaction_settled, report_settled_total, apply_commits, apply_raises,
           vars, orderVars
  <1>3. CASE ostatus = "delivered"
    <2>1. SumFunctionOnSet(tamount, Collected) <= SumFunctionOnSet(tamount', Collected')
      BY CollectedGrows DEF RefundInv
    <2>2. SumFunctionOnSet(tamount, Collected) >= Total /\ Total \in Nat
      BY <1>3, PaymentsAssumption DEF CashIsOnTheBooks
    <2>3. QED
      BY <1>1, <2>1, <2>2
  <1>4. CASE record_cash_collected
    <2>1. settled_total' >= Total
      BY <1>4, CashSettlesTheRest DEF RefundInv, PayInv
    <2>2. (AmountsOK => settled_total <= SumFunctionOnSet(tamount, Collected))'
      BY SettledIsCollected, PTL
    <2>3. (AmountsOK => settled_total \in Nat)'
      BY SettledTotals, PTL
    <2>4. settled_total' <= SumFunctionOnSet(tamount', Collected') /\ settled_total' \in Nat
      BY <2>2, <2>3 DEF RefundInv, PayInv
    <2>5. QED
      BY <1>1, <2>1, <2>4, PaymentsAssumption
  <1>5. QED
    BY <1>2, <1>3, <1>4

\* cash.py, record_cash_collected: whatever the customer opened or paid before,
\* whatever has been given back since, the cash of an order that was delivered
\* was collected.
THEOREM DeliveredCashIsCollectedInvariant == RefundSpec => []DeliveredCashIsCollected
  <1>1. RefundSpec => [](RefundInv /\ CashIsOnTheBooks)
    BY RefundInvariant, CashInit, CashNext, PTL DEF RefundSpec
  <1>2. RefundInv /\ CashIsOnTheBooks => DeliveredCashIsCollected
    BY SumsOfTheModule DEF RefundInv, PayInv, CashIsOnTheBooks, DeliveredCashIsCollected
  <1>3. QED
    BY <1>1, <1>2, PTL
=============================================================================
