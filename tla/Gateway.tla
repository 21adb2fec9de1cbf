------------------------------- MODULE Gateway -------------------------------
(***************************************************************************)
(* The PayDunya connector (apps/payments/paydunya.py) between the provider *)
(* and the transactions: opening an invoice, and what the webhook of       *)
(* apps/payments/views.py makes of a notification.  PayDunya itself is     *)
(* external.                                                               *)
(*                                                                         *)
(* The body of a notification only names an invoice.  Its status and its   *)
(* amount are asked of the provider in return, and applied later, when the *)
(* provider may have moved on and another worker may have applied more     *)
(* recent news.                                                            *)
(***************************************************************************)
EXTENDS Naturals, StateMachines

CONSTANTS
  Txn,       \* transactions
  Billed,    \* the amount of each of them
  Worker,    \* web workers that handle notifications
  Claim      \* the statuses bodies claim

VARIABLES
  status,    \* Transaction.status, "none" before the row is there
  invoice,   \* PayDunya: the state of the invoice of each transaction and
             \*   the amount it states
  post,      \* what each worker holds: a body, then the provider's answer
  events     \* WebhookEvent: event_id of the notifications recorded

vars == <<status, invoice, post, events>>

STATUS_MAP ==
  [pending |-> "processing", completed |-> "completed", failed |-> "failed",
   cancelled |-> "failed"]

Stated == {0, Billed - 1, Billed}   \* 0: the answer states no amount
Idle == [step |-> "idle"]
NoInvoice == [state |-> "none", amount |-> 0]

Init ==
  /\ status = [t \in Txn |-> "none"]
  /\ invoice = [t \in Txn |-> NoInvoice]
  /\ post = [w \in Worker |-> Idle]
  /\ events = {}

-----------------------------------------------------------------------------
(* PayDunya *)

\* The customer pays, gives up or fails on the page of the provider.
provider_moves(t, s) ==
  /\ invoice[t].state = "pending"
  /\ invoice' = [invoice EXCEPT ![t].state = s]
  /\ UNCHANGED <<status, post, events>>

-----------------------------------------------------------------------------
(* Out *)

\* open_checkout: the transaction is inserted once the invoice is open; an
\* answer that is lost, refused or unreadable raises GatewayError, and no row
\* is written (SUCCESS_CODE, _read_checkout).
open_checkout(t, amount, answered) ==
  /\ status[t] = "none"
  /\ invoice[t] = NoInvoice
  /\ invoice' = [invoice EXCEPT ![t] = [state |-> "pending", amount |-> amount]]
  /\ status' = IF answered THEN [status EXCEPT ![t] = "processing"] ELSE status
  /\ UNCHANGED <<post, events>>

-----------------------------------------------------------------------------
(* In *)

\* WebhookView.post: a body that carries the hash names an invoice and claims
\* a status for it; one without the hash is turned away and changes nothing.
authenticate(w, t, claim) ==
  /\ post[w] = Idle
  /\ post' = [post EXCEPT ![w] = [step |-> "authentic", token |-> t, claim |-> claim]]
  /\ UNCHANGED <<status, invoice, events>>

\* Mutant: the status is read in the body.
parse_Body(w) ==
  /\ post[w].step = "authentic"
  /\ LET t == post[w].token
     IN  /\ invoice[t].state # "none"
         /\ post' = [post EXCEPT ![w] = [step |-> "parsed", token |-> t,
                                         brut |-> post[w].claim, amount |-> invoice[t].amount]]
  /\ UNCHANGED <<status, invoice, events>>

\* parse: the status and the amount are those _confirm is answered.
parse(w) ==
  /\ post[w].step = "authentic"
  /\ LET t == post[w].token
     IN  /\ invoice[t].state # "none"
         /\ post' = [post EXCEPT ![w] = [step |-> "parsed", token |-> t,
                                         brut |-> invoice[t].state, amount |-> invoice[t].amount]]
  /\ UNCHANGED <<status, invoice, events>>

\* _confirm: the provider is away or knows no such invoice, and the
\* notification is answered 200 all the same, to be forgotten.
_confirm_fails(w) ==
  /\ post[w].step = "authentic"
  /\ post' = [post EXCEPT ![w] = Idle]
  /\ UNCHANGED <<status, invoice, events>>

\* _apply: a notification already recorded is answered at once; a transition
\* that is not declared and an amount that differs change nothing.
Applies(w) ==
  LET p == post[w]
      target == STATUS_MAP[p.brut]
  IN  /\ <<p.token, p.brut>> \notin events
      /\ status[p.token] # "none"
      /\ ~is_noop(status[p.token], target)
      /\ can(PAYMENT_TRANSITIONS, status[p.token], target)
      /\ target = "completed" => p.amount \in {0, Billed}

\* handle_webhook records the notification in a transaction of its own: one
\* that raises, or a worker that is stopped, leaves it recorded and unapplied.
handle_webhook(w, applied) ==
  /\ post[w].step = "parsed"
  /\ status' = IF applied /\ Applies(w) THEN
                 [status EXCEPT ![post[w].token] = STATUS_MAP[post[w].brut]]
               ELSE status
  /\ events' = events \cup {<<post[w].token, post[w].brut>>}
  /\ post' = [post EXCEPT ![w] = Idle]
  /\ UNCHANGED invoice

Next ==
  \/ \E t \in Txn :
       \/ \E s \in {"completed", "failed", "cancelled"} : provider_moves(t, s)
       \/ \E amount \in Stated, answered \in BOOLEAN : open_checkout(t, amount, answered)
       \/ \E w \in Worker, claim \in Claim : authenticate(w, t, claim)
  \/ \E w \in Worker :
       \/ parse(w) \/ _confirm_fails(w)
       \/ \E applied \in BOOLEAN : handle_webhook(w, applied)

Spec == Init /\ [][Next]_vars

-----------------------------------------------------------------------------
(* Properties *)

\* A transaction ends as its own invoice has ended at the provider, whatever
\* the bodies claim and in whatever order answers are applied; one that is
\* settled was not stated to be of another amount (parse, _confirm, _apply).
SettledAsTheProviderSays ==
  \A t \in Txn :
    /\ status[t] = "completed" =>
         invoice[t].state = "completed" /\ invoice[t].amount \in {0, Billed}
    /\ status[t] = "failed" => invoice[t].state \in {"failed", "cancelled"}
=============================================================================
