------------------------------ MODULE Campaigns ------------------------------
(***************************************************************************)
(* A campaign and the people it is sent to (apps/notifications/services.py *)
(* and backoffice.py).  Every operation locks the row of the campaign; the *)
(* task reads the list of the campaigns that are due before it locks them, *)
(* and more than one worker may run it.                                    *)
(***************************************************************************)
EXTENDS Naturals, FiniteSets

CONSTANTS
  Person,        \* accounts of the audience
  Worker,        \* workers that may run send_due_campaigns
  MaxText,       \* bound: texts the campaign has had
  MaxTime        \* bound: the clock

VARIABLES
  clock,
  campaign,      \* status, scheduled_at (0 when null), text, recipient_count
  agreed,        \* text and hour the author has last scheduled
  accepting,     \* people with marketing_push_enabled
  inbox,         \* notifications of the campaign, per person: texts received
  listed         \* workers that have the campaign in their list

vars == <<clock, campaign, agreed, accepting, inbox, listed>>

CampaignStatus == {"draft", "scheduled", "sent"}
Campaign == [status : CampaignStatus, at : 0 .. MaxTime, text : 1 .. MaxText, recipients : 0 .. Cardinality(Person)]

-----------------------------------------------------------------------------
\* CampaignViewSet.perform_update: neither sent nor scheduled.
perform_update ==
  /\ campaign.status = "draft" /\ campaign.text < MaxText
  /\ campaign' = [campaign EXCEPT !.text = @ + 1]
  /\ UNCHANGED <<clock, agreed, accepting, inbox, listed>>

\* Another hour may be given to a campaign that is scheduled already.
schedule_campaign(quand) ==
  /\ campaign.status # "sent"
  /\ quand > clock
  /\ campaign' = [campaign EXCEPT !.status = "scheduled", !.at = quand]
  /\ agreed' = [text |-> campaign.text, at |-> quand]
  /\ UNCHANGED <<clock, accepting, inbox, listed>>

unschedule_campaign ==
  /\ campaign.status = "scheduled"
  /\ campaign' = [campaign EXCEPT !.status = "draft", !.at = 0]
  /\ UNCHANGED <<clock, agreed, accepting, inbox, listed>>

\* A person changes what they accept.
preferences(p) ==
  /\ accepting' = IF p \in accepting THEN accepting \ {p} ELSE accepting \cup {p}
  /\ UNCHANGED <<clock, campaign, agreed, inbox, listed>>

_accepts_marketing(p) == p \in accepting

\* notify, for each of recipients_of: a marketing message only to those who
\* accept them.
send_to_all ==
  LET reached == {p \in Person : _accepts_marketing(p)} IN
  /\ inbox' = [p \in Person |-> IF p \in reached THEN inbox[p] \cup {<<campaign.text, Cardinality(inbox[p])>>} ELSE inbox[p]]
  /\ campaign' = [campaign EXCEPT !.status = "sent", !.recipients = Cardinality(reached)]

\* The button of the back office: nothing for a campaign already sent.
send_campaign ==
  /\ campaign.status # "sent"
  /\ send_to_all
  /\ UNCHANGED <<clock, agreed, accepting, listed>>

\* The task lists what is due ...
send_due_campaigns(w) ==
  /\ w \notin listed
  /\ campaign.status = "scheduled" /\ campaign.at <= clock
  /\ listed' = listed \cup {w}
  /\ UNCHANGED <<clock, campaign, agreed, accepting, inbox>>

\* Mutant: the lock is taken, the status not looked at again.
_send_if_still_due_Blind(w) == \A p \in Person : Cardinality(inbox[p]) < 2
\* ... and looks again once it holds the row.
_send_if_still_due(w) == campaign.status = "scheduled" /\ campaign.at # 0 /\ campaign.at <= clock

task_sends(w) ==
  /\ w \in listed
  /\ listed' = listed \ {w}
  /\ IF _send_if_still_due(w) THEN send_to_all ELSE UNCHANGED <<inbox, campaign>>
  /\ UNCHANGED <<clock, agreed, accepting>>

\* A failure rolls the campaign back; it is taken again at the next turn.
task_fails(w) ==
  /\ w \in listed
  /\ listed' = listed \ {w}
  /\ UNCHANGED <<clock, campaign, agreed, accepting, inbox>>

tick ==
  /\ clock < MaxTime
  /\ clock' = clock + 1
  /\ UNCHANGED <<campaign, agreed, accepting, inbox, listed>>

-----------------------------------------------------------------------------
Init ==
  /\ clock = 1
  /\ campaign = [status |-> "draft", at |-> 0, text |-> 1, recipients |-> 0]
  /\ agreed = [text |-> 0, at |-> 0]
  /\ accepting = Person
  /\ inbox = [p \in Person |-> {}]
  /\ listed = {}

Next ==
  \/ perform_update
  \/ \E quand \in 1 .. MaxTime : schedule_campaign(quand)
  \/ unschedule_campaign
  \/ \E p \in Person : preferences(p)
  \/ send_campaign
  \/ \E w \in Worker : send_due_campaigns(w) \/ task_sends(w) \/ task_fails(w)
  \/ tick

Spec == Init /\ [][Next]_vars

\* Celery beat runs the task every few minutes; a send that fails is tried
\* again, and does not fail for ever.
Fairness ==
  /\ \A w \in Worker : WF_vars(send_due_campaigns(w)) /\ SF_vars(task_sends(w))
  /\ WF_vars(tick)

-----------------------------------------------------------------------------
(* Properties *)

\* A campaign reaches a person once at most, whatever button and tasks cross,
\* and the count of its recipients is that of the messages it has left.
CampaignIsSentOnce ==
  /\ campaign \in Campaign
  /\ \A p \in Person : Cardinality(inbox[p]) <= 1
  /\ campaign.recipients = Cardinality({p \in Person : inbox[p] # {}})

\* A task sends nothing but the text that was scheduled, not before its hour,
\* although it had listed the campaign before it was put off, called back or
\* rewritten.
TaskSendsWhatWasAgreed ==
  [][listed' # listed /\ inbox' # inbox =>
       /\ campaign.text = agreed.text
       /\ agreed.at <= clock
       /\ campaign.status = "scheduled"]_vars

\* A campaign whose hour has come is sent, or called back by its author.
DueCampaignLeaves ==
  (campaign.status = "scheduled" /\ campaign.at <= clock) ~>
    (campaign.status # "scheduled" \/ campaign.at > clock)
=============================================================================
