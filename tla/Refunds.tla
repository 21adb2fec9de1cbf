------------------------------- MODULE Refunds -------------------------------
(***************************************************************************)
(* The refunds of an order (RefundService of apps/payments/services.py),   *)
(* composed with the payments they give back.  PayDunya has no refund API: *)
(* a refund is requested, a human makes the transfer, and a second call    *)
(* records that it was made, or that it will not be.                       *)
(*                                                                         *)
(* Requesting locks the order, so it is one action.  Recording the         *)
(* transfer locks the refund, then the transaction, then (its UPDATE of    *)
(* the amount paid) the order: three steps, whose writes are published by  *)
(* the last one.                                                           *)
(***************************************************************************)
EXTENDS Payments

CONSTANT MaxRefund  \* bound: refunds requested on the order

ASSUME RefundsAssumption == MaxRefund \in Nat \ {0}

Refund == 1 .. MaxRefund

VARIABLES
  rstatus, \* Refund.status, or "none"
  rtxn,    \* Refund.transaction, 0 before it is inserted
  ramount, \* Refund.amount
  spc,     \* how far the recording of the transfer has got
  ssum     \* the settled total it will write on the order

refundRows == <<rstatus, rtxn, ramount>>
refundVars == <<refundRows, spc, ssum>>
allVars == <<vars, refundVars>>

\* What the refunds of a set add up to.
refunded(S) == SumFunction(Restrict(ramount, S))

\* P3 counts every refund that is not abandoned.
already == refunded({r \in Refund : rstatus[r] \in {"pending", "processing", "completed"}})

remaining == settled_total - already

-----------------------------------------------------------------------------
\* Mutant: each refund is capped by what was collected, alone.
refund_CappedAlone(r, t, amount) ==
  /\ rstatus[r] = "none" /\ \A q \in 1 .. (r - 1) : rstatus[q] # "none"
  /\ tstatus[t] = "completed"
  /\ amount > 0
  /\ amount <= settled_total
  /\ rstatus' = [rstatus EXCEPT ![r] = "pending"]
  /\ rtxn' = [rtxn EXCEPT ![r] = t]
  /\ ramount' = [ramount EXCEPT ![r] = amount]
  /\ UNCHANGED <<vars, spc, ssum>>

\* RefundService.refund.  A settlement that holds the row of the transaction
\* makes it wait.
refund(r, t, amount) ==
  /\ rstatus[r] = "none" /\ \A q \in 1 .. (r - 1) : rstatus[q] # "none"
  /\ tstatus[t] = "completed"
  /\ ~ \E q \in Refund : spc[q] = "summed" /\ rtxn[q] = t
  /\ amount > 0
  /\ amount <= remaining
  /\ rstatus' = [rstatus EXCEPT ![r] = "pending"]
  /\ rtxn' = [rtxn EXCEPT ![r] = t]
  /\ ramount' = [ramount EXCEPT ![r] = amount]
  /\ UNCHANGED <<vars, spc, ssum>>

\* RefundService.settle, step 1: the refund is read again under its lock.
settle_locks(r) ==
  /\ spc[r] = "idle"
  /\ rstatus[r] # "none"
  /\ can(PAYMENT_TRANSITIONS, rstatus[r], "processing")
  /\ spc' = [spc EXCEPT ![r] = "locked"]
  /\ UNCHANGED <<vars, refundRows, ssum>>

\* What has been given back on the transaction of r, r included.
rendu(r) ==
  refunded({q \in Refund : q = r \/ (rtxn[q] = rtxn[r] /\ rstatus[q] = "completed")})

fully_refunded(r) ==
  rendu(r) >= tamount[rtxn[r]] /\ can(PAYMENT_TRANSITIONS, tstatus[rtxn[r]], "refunded")

\* The row of the transaction of r is held by another settlement.
TxnHeld(r) == \E q \in Refund \ {r} : spc[q] = "summed" /\ rtxn[q] = rtxn[r]

\* Step 2, a partial refund: the transaction stays settled.
settle_partial(r) ==
  /\ spc[r] = "locked"
  /\ ~ TxnHeld(r)
  /\ ~ fully_refunded(r)
  /\ rstatus' = [rstatus EXCEPT ![r] = "completed"]
  /\ spc' = [spc EXCEPT ![r] = "idle"]
  /\ UNCHANGED <<vars, rtxn, ramount, ssum>>

\* Step 2, the refund completes the transaction: it leaves the settled total,
\* which is read before the UPDATE of the order waits for the row.
settle_sums(r) ==
  /\ spc[r] = "locked"
  /\ ~ TxnHeld(r)
  /\ fully_refunded(r)
  /\ spc' = [spc EXCEPT ![r] = "summed"]
  /\ ssum' = [ssum EXCEPT ![r] = settled([tstatus EXCEPT ![rtxn[r]] = "refunded"], tamount)]
  /\ UNCHANGED <<vars, refundRows>>

\* Step 3: the writes of the settlement are committed.
settle_commits(r) ==
  /\ spc[r] = "summed"
  /\ rstatus' = [rstatus EXCEPT ![r] = "completed"]
  /\ tstatus' = [tstatus EXCEPT ![rtxn[r]] = "refunded"]
  /\ amountPaid' = ssum[r]
  /\ spc' = [spc EXCEPT ![r] = "idle"]
  /\ ssum' = [ssum EXCEPT ![r] = 0]
  /\ UNCHANGED <<ostatus, tamount, splitVars, event, seen, workerVars, crashes, rtxn, ramount>>

\* Mutant: the status is tested on the instance the caller holds.
cancel_refund_Unlocked(r) ==
  /\ rstatus[r] # "none"
  /\ rstatus' = [rstatus EXCEPT ![r] = "cancelled"]
  /\ UNCHANGED <<vars, rtxn, ramount, spc, ssum>>

\* RefundService.cancel, under the lock of the refund.
cancel_refund(r) ==
  /\ spc[r] = "idle"
  /\ rstatus[r] # "none"
  /\ can(PAYMENT_TRANSITIONS, rstatus[r], "cancelled")
  /\ rstatus' = [rstatus EXCEPT ![r] = "cancelled"]
  /\ UNCHANGED <<vars, rtxn, ramount, spc, ssum>>

-----------------------------------------------------------------------------
RefundInit ==
  /\ Init
  /\ rstatus = [r \in Refund |-> "none"]
  /\ rtxn = [r \in Refund |-> 0]
  /\ ramount = [r \in Refund |-> 0]
  /\ spc = [r \in Refund |-> "idle"]
  /\ ssum = [r \in Refund |-> 0]

RefundNext ==
  \/ Next /\ UNCHANGED refundVars
  \/ \E r \in Refund, t \in Txn, amount \in 1 .. Total : refund(r, t, amount)
  \/ \E r \in Refund :
       \/ settle_locks(r)
       \/ settle_partial(r)
       \/ settle_sums(r)
       \/ settle_commits(r)
       \/ cancel_refund(r)

RefundSpec == RefundInit /\ [][RefundNext]_allVars

-----------------------------------------------------------------------------
(* Properties *)

collected == SumFunction(Restrict(tamount, {t \in Txn : tstatus[t] \in {"completed", "refunded"}}))

\* P3: what is given back, or promised, never exceeds what was collected, and
\* a transaction is refunded exactly when what was given back reaches its
\* amount, whatever refunds and settlements interleave.
RefundsAreExact ==
  /\ already <= collected
  /\ \A t \in Txn :
       LET back == refunded({r \in Refund : rtxn[r] = t /\ rstatus[r] = "completed"}) IN
       /\ tstatus[t] = "completed" => back < tamount[t]
       /\ tstatus[t] = "refunded" => back >= tamount[t]

\* A transfer that was made stays on the books: a completed refund is never
\* abandoned, and a refund is recorded once.
RefundsFollowTheMachine ==
  [][\A r \in Refund :
       rstatus'[r] # rstatus[r] =>
         <<rstatus[r], rstatus'[r]>> \in
           {<<"none", "pending">>, <<"pending", "completed">>, <<"pending", "cancelled">>}]_allVars

\* The cash of a delivered order was collected, whether or not the customer
\* had opened a request, whether or not the order is split, and whatever has
\* been given back.
DeliveredCashIsCollected ==
  Method = "cash" /\ ostatus = "delivered" => collected >= Total

\* P3, as the doc of RefundService.refund states the cap: what was really
\* collected, less what has already been given back, can be refunded.
RefundableIsCollectedLessRefunded == collected > already => remaining = collected - already
=============================================================================
