--------------------------- MODULE CourierAccount ---------------------------
(***************************************************************************)
(* What the service counts for one courier: the earnings its deliveries    *)
(* bring (AssignmentService._credit), the withdrawals that take them       *)
(* (WithdrawalService), and the average of its ratings                     *)
(* (CourierRatingService).                                                 *)
(*                                                                         *)
(* The three lock the row of the courier.  What is read before a lock: the *)
(* withdrawal the back office shows, and whether a course was rated.       *)
(***************************************************************************)
EXTENDS StateMachines, Integers, FiniteSets, Functions

CONSTANTS
  Course,         \* assignments of the courier
  Fee,            \* Assignment.courier_fee
  Withdrawal,     \* withdrawals the courier may ask for
  Score           \* scores customers give, in 1 .. 5

VARIABLES
  delivered,      \* courses delivered and credited
  earnings,       \* CourierProfile.total_earnings
  withdrawals,    \* rows of Withdrawal: status and amount
  rating,         \* rating_count and rating_average, in hundredths
  scores,         \* sum of the scores of CourierRating
  rated,          \* courses with a row of CourierRating
  asking          \* courses a rating request has found not rated

vars == <<delivered, earnings, withdrawals, rating, scores, rated, asking>>

NoWithdrawal == [status |-> "none", amount |-> 0]

-----------------------------------------------------------------------------
_credit(c) ==
  /\ c \notin delivered
  /\ delivered' = delivered \cup {c}
  /\ earnings' = earnings + Fee
  /\ UNCHANGED <<withdrawals, rating, scores, rated, asking>>

\* Mutant: the earnings are looked at, and taken later.
request_Overdrawn(w, amount) ==
  /\ withdrawals[w].status = "none"
  /\ earnings > 0
  /\ earnings' = earnings - amount
  /\ withdrawals' = [withdrawals EXCEPT ![w] = [status |-> "pending", amount |-> amount]]
  /\ UNCHANGED <<delivered, rating, scores, rated, asking>>

\* The amount leaves the earnings with the request.
request(w, amount) ==
  /\ withdrawals[w].status = "none"
  /\ amount <= earnings
  /\ earnings' = earnings - amount
  /\ withdrawals' = [withdrawals EXCEPT ![w] = [status |-> "pending", amount |-> amount]]
  /\ UNCHANGED <<delivered, rating, scores, rated, asking>>

\* The back office has paid it: the two steps of the machine at once.
settle(w) ==
  /\ withdrawals[w].status # "none"
  /\ can(PAYMENT_TRANSITIONS, withdrawals[w].status, "processing")
  /\ can(PAYMENT_TRANSITIONS, "processing", "completed")
  /\ withdrawals' = [withdrawals EXCEPT ![w].status = "completed"]
  /\ UNCHANGED <<delivered, earnings, rating, scores, rated, asking>>

\* Refused: the amount goes back to the earnings.
fail(w) ==
  /\ withdrawals[w].status # "none"
  /\ can(PAYMENT_TRANSITIONS, withdrawals[w].status, "failed")
  /\ withdrawals' = [withdrawals EXCEPT ![w].status = "failed"]
  /\ earnings' = earnings + withdrawals[w].amount
  /\ UNCHANGED <<delivered, rating, scores, rated, asking>>

-----------------------------------------------------------------------------
\* A request finds the course delivered and not rated; the unique constraint
\* refuses the second row.
rate_reads(c) ==
  /\ c \in delivered \ rated
  /\ asking' = asking \cup {c}
  /\ UNCHANGED <<delivered, earnings, withdrawals, rating, scores, rated>>

\* The new average, half up to the hundredth.
_recompute_average(score) ==
  LET total == rating.average * rating.count + 100 * score
      count == rating.count + 1 IN
  [count |-> count, average |-> (2 * total + count) \div (2 * count)]

rate(c, score) ==
  /\ c \in asking
  /\ asking' = asking \ {c}
  /\ c \notin rated
  /\ rated' = rated \cup {c}
  /\ rating' = _recompute_average(score)
  /\ scores' = scores + score
  /\ UNCHANGED <<delivered, earnings, withdrawals>>

-----------------------------------------------------------------------------
Init ==
  /\ delivered = {}
  /\ earnings = 0
  /\ withdrawals = [w \in Withdrawal |-> NoWithdrawal]
  /\ rating = [count |-> 0, average |-> 0]
  /\ scores = 0
  /\ rated = {}
  /\ asking = {}

Next ==
  \/ \E c \in Course :
       \/ _credit(c)
       \/ rate_reads(c)
       \/ \E score \in Score : rate(c, score)
  \/ \E w \in Withdrawal :
       \/ \E amount \in 1 .. Fee * Cardinality(Course) : request(w, amount)
       \/ settle(w)
       \/ fail(w)

Spec == Init /\ [][Next]_vars

-----------------------------------------------------------------------------
(* Properties *)

Sum(W) == SumFunctionOnSet([w \in Withdrawal |-> withdrawals[w].amount], W)

\* What the courier has earned is in the account, asked for or paid, to the
\* unit: nothing is paid twice or given back after it was paid.
EarningsAreAccountedFor ==
  /\ earnings >= 0
  /\ earnings + Sum({w \in Withdrawal : withdrawals[w].status \in {"pending", "completed"}})
       = Fee * Cardinality(delivered)

\* The average kept by increments is rounded once per rating: after n ratings
\* it is within (n + 1) / 4 hundredths of the mean of the scores, and that
\* error grows with n.
RatingFollowsTheScores ==
  /\ rating.count = Cardinality(rated)
  /\ LET drift == 100 * scores - rating.average * rating.count IN
     /\ 4 * drift <= rating.count * (rating.count + 1)
     /\ -4 * drift <= rating.count * (rating.count + 1)
=============================================================================
