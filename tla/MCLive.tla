------------------------------ MODULE MCLive ------------------------------
(***************************************************************************)
(* What must happen in the end, one component at a time, under the         *)
(* fairness of the task queue and of the web workers.                      *)
(***************************************************************************)
EXTENDS Naturals

VARIABLES
  part,          \* the component the behaviour is about
  ostatus_paymen, amountPaid, tstatus, tamount, split, shStatus, shAmount, shTxn, event,
  seen_paymen, pc, wev, wseen, wclose, wsum, crashes_paymen,
  ostatus_delive, astatus, aorder, acourier, fee, deliveredAt, completed, earnings,
  eligible, target, plan, accepting_delive, declining,
  host, gstatus, due, members, lines, asked, selected, ordered,
  file, seen_courie, desk, upload, crossed, today, rows, task, notices,
  clock, campaign, agreed, accepting_campai, inbox, listed,
  owner, note, queue, run, copies, lost, crashes_push

Payments == INSTANCE Payments WITH
  Share <- {"ann", "bob"}, Worker <- {"w1", "w2"}, MaxTxn <- 2, Total <- 2,
  Method <- "online", ProviderStatus <- {"completed"}, Stray <- {}, MaxCrashes <- 0,
  ostatus <- ostatus_paymen, seen <- seen_paymen, crashes <- crashes_paymen

Delivery == INSTANCE Delivery WITH
  Courier <- {1, 2}, Process <- {"p1"}, MaxOrder <- 1, MaxCourse <- 2, Fee <- 1,
  RATTRAPAGE_MAX <- 1, Serves <- {1, 2} \X {1}, ostatus <- ostatus_delive,
  accepting <- accepting_delive

GroupCarts == INSTANCE GroupCarts WITH
  User <- {"u1", "u2"}, Dish <- {"d1"}, MaxQuantity <- 2

CourierFile == INSTANCE CourierFile WITH
  MaxDocument <- 2, MaxDay <- 2, Worker <- {1}, seen <- seen_courie

Campaigns == INSTANCE Campaigns WITH
  Person <- {"p1"}, Worker <- {1}, MaxText <- 2, MaxTime <- 3,
  accepting <- accepting_campai

Push == INSTANCE Push WITH
  Device <- {1, 2}, User <- {"u", "v"}, Recipient <- "u", MaxRetries <- 2,
  MaxCrashes <- 1, crashes <- crashes_push

paymentsVars == <<ostatus_paymen, amountPaid, tstatus, tamount, split, shStatus, shAmount, shTxn, event,
  seen_paymen, pc, wev, wseen, wclose, wsum, crashes_paymen>>
deliveryVars == <<ostatus_delive, astatus, aorder, acourier, fee, deliveredAt, completed, earnings,
  eligible, target, plan, accepting_delive, declining>>
groupcartVars == <<host, gstatus, due, members, lines, asked, selected, ordered>>
courier_fileVars == <<file, seen_courie, desk, upload, crossed, today, rows, task, notices>>
campaignVars == <<clock, campaign, agreed, accepting_campai, inbox, listed>>
pushVars == <<owner, note, queue, run, copies, lost, crashes_push>>
vars == <<part, paymentsVars, deliveryVars, groupcartVars, courier_fileVars, campaignVars, pushVars>>

Init ==
  /\ part \in {"payments", "delivery", "groupcart", "courier_file", "campaign", "push"}
  /\ Payments!Init
  /\ Delivery!Init
  /\ GroupCarts!Init
  /\ CourierFile!Init
  /\ Campaigns!Init
  /\ Push!Init

\* One component moves, the others rest.
Next ==
  \/ part = "payments" /\ Payments!Next
     /\ UNCHANGED <<part, deliveryVars, groupcartVars, courier_fileVars, campaignVars, pushVars>>
  \/ part = "delivery" /\ Delivery!Next
     /\ UNCHANGED <<part, paymentsVars, groupcartVars, courier_fileVars, campaignVars, pushVars>>
  \/ part = "groupcart" /\ GroupCarts!Next
     /\ UNCHANGED <<part, paymentsVars, deliveryVars, courier_fileVars, campaignVars, pushVars>>
  \/ part = "courier_file" /\ CourierFile!Next
     /\ UNCHANGED <<part, paymentsVars, deliveryVars, groupcartVars, campaignVars, pushVars>>
  \/ part = "campaign" /\ Campaigns!Next
     /\ UNCHANGED <<part, paymentsVars, deliveryVars, groupcartVars, courier_fileVars, pushVars>>
  \/ part = "push" /\ Push!Next
     /\ UNCHANGED <<part, paymentsVars, deliveryVars, groupcartVars, courier_fileVars, campaignVars>>

\* The live actions of a component, when the behaviour is about it.
Fair(name, A) == part = name /\ A

\* Every process that has taken a request runs it to its end; Celery beat
\* posts each task again and again, and a send that fails does not fail for
\* ever.  Nothing is assumed of customers, couriers and staff beyond the
\* request they have made.
Fairness ==
  /\ \A w \in {"w1", "w2"} : WF_paymentsVars(Fair("payments", Payments!Apply(w)))
  /\ WF_deliveryVars(Fair("delivery", Delivery!dispatch_waiting("p1", 1)))
  /\ WF_deliveryVars(Fair("delivery", Delivery!offer("p1") \/ Delivery!offer_refused("p1")))
  /\ \A a \in {1, 2} :
       /\ WF_deliveryVars(Fair("delivery", Delivery!expire(a)))
       /\ WF_deliveryVars(Fair("delivery", Delivery!accept(a)))
       /\ WF_deliveryVars(Fair("delivery", Delivery!decline(a)))
  /\ WF_groupcartVars(Fair("groupcart", GroupCarts!expire_group_carts))
  /\ WF_groupcartVars(Fair("groupcart", GroupCarts!expire_due))
  /\ WF_courier_fileVars(Fair("courier_file", CourierFile!remind_document_expiry(1)))
  /\ WF_courier_fileVars(Fair("courier_file", CourierFile!reminded(1)))
  /\ WF_campaignVars(Fair("campaign", Campaigns!send_due_campaigns(1)))
  /\ SF_campaignVars(Fair("campaign", Campaigns!task_sends(1)))
  /\ WF_campaignVars(Fair("campaign", Campaigns!tick))
  /\ WF_pushVars(Fair("push", \E t \in queue : Push!send_push(t)))
  /\ WF_pushVars(Fair("push", Push!task_ends))
  /\ \A d \in {1, 2} :
       WF_pushVars(Fair("push", \E x \in {"delivered", "unregistered", "failed", "lost"} : Push!_send_one(d, x)))

Spec == Init /\ [][Next]_vars /\ Fairness

-----------------------------------------------------------------------------
(* Properties *)

\* A recorded notification is applied, unless the order leaves the statuses
\* in which a payment confirms it while the notification is being handled, or
\* a worker is lost: no worker waits for a lock for ever.
NotificationLeadsToApplied == Payments!NotificationLeadsToApplied

\* A ready order without a course, for which some courier is available, is
\* proposed to somebody (unless the order or the couriers change first).
\*
\* A proposal does not stay open for ever: somebody answers or it is closed.
ProposalsEnd ==
  /\ Delivery!WaitingOrderIsProposed
  /\ Delivery!ProposalIsClosed

\* Once its deadline is past, a cart does not stay open to its members'
\* money: it is confirmed, cancelled or expired.
\*
\* A document that expires while its file stays approved is announced.
\*
\* A campaign whose hour has come is sent, or called back by its author.
\*
\* What was committed is tried on every device until it is shown, refused for
\* good or given up after the retries: no task stays behind.
TasksFinish ==
  /\ GroupCarts!DueCartIsClosed
  /\ CourierFile!ExpiryIsAnnounced
  /\ Campaigns!DueCampaignLeaves
  /\ Push!EveryTaskEnds
=============================================================================
