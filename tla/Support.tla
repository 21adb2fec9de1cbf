------------------------------- MODULE Support -------------------------------
(***************************************************************************)
(* A customer's ticket, complaint and returns, and the desk that answers   *)
(* them (apps/support/services.py, models.py).                             *)
(*                                                                         *)
(* A member of the staff looks at the rows, and acts on them later: each   *)
(* decision reads its row again under a lock, the answer to a ticket does  *)
(* not.                                                                    *)
(***************************************************************************)
EXTENDS Naturals

CONSTANTS
  Desk,     \* members of the staff at work
  Return,   \* bound: returns asked for on the order
  Total,    \* what the order cost
  Amount    \* amounts asked for

VARIABLES
  ticket,      \* status, whether it has a resolution and whether resolved_at is set
  complaint,   \* "none" or its status
  returns,     \* status and amount of each return
  order,       \* whether the order is delivered
  refund,      \* "none", or the status of the refund the till keeps of the order
  seen         \* the rows as each member of the staff last read them

vars == <<ticket, complaint, returns, order, refund, seen>>

_TICKET_TERMINAL == {"resolved", "closed"}
_COMPLAINT_TERMINAL == {"resolved", "rejected"}
TicketStatus == {"open", "in_progress"} \cup _TICKET_TERMINAL
ComplaintStatus == {"pending", "under_review"} \cup _COMPLAINT_TERMINAL

RETURN_TRANSITIONS ==
  [none |-> {}, pending |-> {"approved", "rejected"}, approved |-> {"refunded", "rejected"},
   rejected |-> {}, refunded |-> {}]

NoTicket == [status |-> "none", resolution |-> FALSE, resolved_at |-> FALSE]
NoReturn == [status |-> "none", amount |-> 0]
Rows == [ticket |-> ticket, complaint |-> complaint, returns |-> returns]

-----------------------------------------------------------------------------
(* SupportService: the customer *)

open_ticket ==
  /\ ticket = NoTicket
  /\ ticket' = [NoTicket EXCEPT !.status = "open"]
  /\ UNCHANGED <<complaint, returns, order, refund, seen>>

\* reply: a message to a ticket that is over opens it again, under its lock.
reply ==
  /\ ticket.status \in _TICKET_TERMINAL
  /\ ticket' = [ticket EXCEPT !.status = "open", !.resolved_at = FALSE]
  /\ UNCHANGED <<complaint, returns, order, refund, seen>>

file_complaint ==
  /\ complaint = "none"
  /\ complaint' = "pending"
  /\ UNCHANGED <<ticket, returns, order, refund, seen>>

\* request_return: of a delivered order, for its total at most; any number
\* of times.
request_return(r, amount) ==
  /\ returns[r] = NoReturn
  /\ order = "delivered" /\ amount > 0 /\ amount <= Total
  /\ returns' = [returns EXCEPT ![r] = [status |-> "pending", amount |-> amount]]
  /\ UNCHANGED <<ticket, complaint, order, refund, seen>>

-----------------------------------------------------------------------------
(* SupportDeskService: the staff *)

\* get_object: the rows the desk then acts on.
get_object(d) ==
  /\ seen[d] # Rows
  /\ seen' = [seen EXCEPT ![d] = Rows]
  /\ UNCHANGED <<ticket, complaint, returns, order, refund>>

\* answer: the ticket is taken up if it was not when it was read.
answer(d) ==
  /\ seen[d].ticket.status \notin {"none", "in_progress"}
  /\ ticket' = [ticket EXCEPT !.status = "in_progress", !.resolved_at = FALSE]
  /\ UNCHANGED <<complaint, returns, order, refund, seen>>

\* set_ticket_status, on the locked row
set_ticket_status(d, status, resolution) ==
  /\ seen[d].ticket # NoTicket
  /\ status = "resolved" => resolution \/ ticket.resolution
  /\ ticket' = [status |-> status, resolution |-> resolution \/ ticket.resolution,
                resolved_at |-> status \in _TICKET_TERMINAL]
  /\ UNCHANGED <<complaint, returns, order, refund, seen>>

\* decide_complaint, on the locked row; an answer goes with a decision.
decide_complaint(d, status) ==
  /\ seen[d].complaint # "none"
  /\ complaint \notin _COMPLAINT_TERMINAL
  /\ complaint' = status
  /\ UNCHANGED <<ticket, returns, order, refund, seen>>

\* A refund of the order was recorded as paid.
_assert_rembourse == refund = "completed"

\* decide_return, on the locked row
decide_return(d, r, status) ==
  /\ seen[d].returns[r] # NoReturn
  /\ status \in RETURN_TRANSITIONS[returns[r].status]
  /\ status = "refunded" => _assert_rembourse
  /\ returns' = [returns EXCEPT ![r].status = status]
  /\ UNCHANGED <<ticket, complaint, order, refund, seen>>

-----------------------------------------------------------------------------
(* What the other parts do meanwhile: the courier delivers, the till refunds *)

Order_delivered ==
  /\ order = "on_the_way" /\ order' = "delivered"
  /\ UNCHANGED <<ticket, complaint, returns, refund, seen>>

Refund_moves(status) ==
  /\ \/ refund = "none" /\ status = "pending"
     \/ refund = "pending" /\ status \in {"completed", "cancelled"}
  /\ refund' = status
  /\ UNCHANGED <<ticket, complaint, returns, order, seen>>

Init ==
  /\ ticket = NoTicket /\ complaint = "none"
  /\ returns = [r \in Return |-> NoReturn]
  /\ order = "on_the_way" /\ refund = "none"
  /\ seen = [d \in Desk |-> Rows]

Next ==
  \/ open_ticket \/ reply \/ file_complaint \/ Order_delivered
  \/ \E r \in Return, amount \in Amount : request_return(r, amount)
  \/ \E status \in {"pending", "completed", "cancelled"} : Refund_moves(status)
  \/ \E d \in Desk :
       \/ get_object(d) \/ answer(d)
       \/ \E status \in TicketStatus, resolution \in BOOLEAN : set_ticket_status(d, status, resolution)
       \/ \E status \in ComplaintStatus : decide_complaint(d, status)
       \/ \E r \in Return, status \in DOMAIN RETURN_TRANSITIONS : decide_return(d, r, status)

Spec == Init /\ [][Next]_vars

-----------------------------------------------------------------------------
(* Properties *)

\* A ticket is dated as resolved exactly while it is over, and never called
\* resolved without saying how: an answer on a ticket read long ago, a
\* customer's reply and a colleague's decision may cross.
ResolutionIsDated ==
  /\ ticket.resolved_at = (ticket.status \in _TICKET_TERMINAL)
  /\ ticket.status = "resolved" => ticket.resolution

\* What the desk has told the customer is not taken back by a colleague who
\* read the row before: a complaint that was decided stays decided, a return
\* that was refused or refunded stays so, and one that is called refunded
\* had a refund the till recorded as paid.
DecisionsAreFinal ==
  /\ [][(complaint \in _COMPLAINT_TERMINAL) => complaint' = complaint]_vars
  /\ [][\A r \in Return : returns[r].status \in {"rejected", "refunded"} => returns'[r] = returns[r]]_vars
  /\ [](\A r \in Return : returns[r].status = "refunded" => refund = "completed")
=============================================================================
