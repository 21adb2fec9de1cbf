------------------------------- MODULE Reviews -------------------------------
(***************************************************************************)
(* The reviews of one dish and the rating shown beside it                  *)
(* (apps/catalog/services.py: record_purchase, ReviewService and           *)
(* ReviewModerationService).                                               *)
(*                                                                         *)
(* A transaction writes its review, reads every review it can see, and     *)
(* writes the rating of the dish: it does not see the reviews written by   *)
(* the transactions that have not committed, and no lock on the dish is    *)
(* held while the reviews are read.                                        *)
(***************************************************************************)
EXTENDS Naturals, FiniteSets, Functions

CONSTANTS
  User,
  Rating,      \* stars given
  Request      \* transactions at work at once

VARIABLES
  purchased,   \* VerifiedPurchase: users who have received the dish
  review,      \* the review of each user
  shown,       \* rating_average, in hundredths, and rating_count of the dish
  tx,          \* transactions at work: the review they write, the rating they found
  crossed      \* history: the last rating written was reckoned beside another writer

vars == <<purchased, review, shown, tx, crossed>>

None == [rating |-> 0, visible |-> FALSE, verified |-> FALSE]
Idle == [user |-> "none"]
Running == {q \in Request : tx[q] # Idle}
WrittenBy(u) == \E q \in Running : tx[q].user = u

Init ==
  /\ purchased = {}
  /\ review = [u \in User |-> None]
  /\ shown = [average |-> 0, count |-> 0]
  /\ tx = [q \in Request |-> Idle]
  /\ crossed = FALSE

-----------------------------------------------------------------------------

Visible(rows) == {u \in User : rows[u].visible}

Stars(rows) == [u \in User |-> rows[u].rating]

\* refresh_rating: the mean of the visible reviews, to two decimals, half up.
refresh_rating(rows) ==
  LET n == Cardinality(Visible(rows))
      sum == SumFunctionOnSet(Stars(rows), Visible(rows))
  IN  [average |-> IF n = 0 THEN 0 ELSE (200 * sum + n) \div (2 * n), count |-> n]

\* A transaction writes row for u; whoever is at work has been crossed.
Writes(q, u, row) ==
  /\ tx[q] = Idle
  /\ tx' = [p \in Request |->
              IF p = q THEN [user |-> u, row |-> row, crossed |-> Running # {},
                             rating |-> refresh_rating([review EXCEPT ![u] = row])]
              ELSE IF p \in Running THEN [tx[p] EXCEPT !.crossed = TRUE]
              ELSE Idle]
  /\ UNCHANGED <<purchased, review, shown, crossed>>

record_purchase(u) ==
  /\ purchased' = purchased \cup {u}
  /\ UNCHANGED <<review, shown, tx, crossed>>

\* submit: one review per user; a second insert waits for the first.
submit(q, u, r) ==
  /\ review[u] = None
  /\ ~WrittenBy(u)
  /\ Writes(q, u, [rating |-> r, visible |-> TRUE, verified |-> u \in purchased])

\* hide and show lock the review first.
hide(q, u) ==
  /\ review[u].visible
  /\ ~WrittenBy(u)
  /\ Writes(q, u, [review[u] EXCEPT !.visible = FALSE])

show(q, u) ==
  /\ review[u] # None
  /\ ~review[u].visible
  /\ ~WrittenBy(u)
  /\ Writes(q, u, [review[u] EXCEPT !.visible = TRUE])

commits(q) ==
  /\ q \in Running
  /\ review' = [review EXCEPT ![tx[q].user] = tx[q].row]
  /\ shown' = tx[q].rating
  /\ crossed' = tx[q].crossed
  /\ tx' = [tx EXCEPT ![q] = Idle]
  /\ UNCHANGED purchased

rolls_back(q) ==
  /\ q \in Running
  /\ tx' = [tx EXCEPT ![q] = Idle]
  /\ UNCHANGED <<purchased, review, shown, crossed>>

Next ==
  \/ \E u \in User : record_purchase(u)
  \/ \E q \in Request :
       \/ \E u \in User : (\E r \in Rating : submit(q, u, r)) \/ hide(q, u) \/ show(q, u)
       \/ commits(q) \/ rolls_back(q)

Spec == Init /\ [][Next]_vars

-----------------------------------------------------------------------------
(* Properties *)

\* The mean of the reviews of a set of users lies between their extremes.
Between(average, users) ==
  /\ \E u \in users : 100 * review[u].rating <= average
  /\ \E u \in users : 100 * review[u].rating >= average

\* A rating reckoned while nobody else was writing is that of the reviews in
\* sight, whatever was crossed, hidden or rolled back before: the rating heals
\* by itself.  A dish never shows more reviews than it was given, and a review
\* is marked verified only when its author has received the dish
\* (refresh_rating, hide, show, submit).
RatingHeals ==
  /\ ~crossed =>
       /\ shown.count = Cardinality(Visible(review))
       /\ IF Visible(review) = {} THEN shown.average = 0
          ELSE Between(shown.average, Visible(review))
  /\ shown.count <= Cardinality({u \in User : review[u] # None})
  /\ \A u \in User : review[u].verified => u \in purchased
=============================================================================
