------------------------------- MODULE Social -------------------------------
(***************************************************************************)
(* A social group, its members, and one post of the group with its likes   *)
(* and comments (apps/social/services.py, models.py, views.py).            *)
(*                                                                         *)
(* Every request reads before it writes: a user who taps twice has two     *)
(* requests at work.  The conditional update of the group's row and the    *)
(* writes that follow it are one transaction, behind that row's lock.      *)
(***************************************************************************)
EXTENDS Naturals, FiniteSets

CONSTANTS
  User,
  Creator,
  max_members,
  Request,       \* requests at work at once
  MaxRows        \* bound: likes and comments ever inserted

VARIABLES
  member,           \* per user: no membership, an active one, one that was left
  member_count,     \* SocialGroup.member_count
  post,             \* the post exists, and who may read it
  like,             \* the row of each user's like, 0 for none
  likes_count,
  comments,         \* comments of the post
  comments_count,
  rows,             \* rows inserted so far
  request           \* what each request has read

vars == <<member, member_count, post, like, likes_count, comments, comments_count, rows,
          request>>

Idle == [op |-> "none"]
Active == {u \in User : member[u] = "active"}
Likers == {u \in User : like[u] # 0}

\* create_group: the creator is its first member.
Init ==
  /\ member = [u \in User |-> IF u = Creator THEN "active" ELSE "none"]
  /\ member_count = 1
  /\ post = "none"
  /\ like = [u \in User |-> 0]
  /\ likes_count = 0
  /\ comments = 0
  /\ comments_count = 0
  /\ rows = 0
  /\ request = [q \in Request |-> Idle]

Ends(q) == request' = [request EXCEPT ![q] = Idle]
Reads(q, r) == request[q] = Idle /\ request' = [request EXCEPT ![q] = r]
group == <<member, member_count>>
feed == <<post, like, likes_count, comments, comments_count, rows>>

-----------------------------------------------------------------------------
(* The group *)

\* join: the membership is read first; an active member has nothing to do.
join(q, u) ==
  /\ member[u] # "active"
  /\ Reads(q, [op |-> "join", user |-> u, existing |-> member[u]])
  /\ UNCHANGED <<group, feed>>

\* one_membership_per_user refuses a second row.
one_membership_per_user(u, existing) == existing = "none" => member[u] = "none"

\* join: a place is taken if there is one, then the membership is inserted or
\* made active again; a row inserted meanwhile rolls all of it back.
joined(q) ==
  /\ request[q].op = "join"
  /\ LET r == request[q]
     IN  IF member_count < max_members /\ one_membership_per_user(r.user, r.existing)
         THEN /\ member_count' = member_count + 1
              /\ member' = [member EXCEPT ![r.user] = "active"]
         ELSE UNCHANGED group
  /\ Ends(q)
  /\ UNCHANGED feed

\* SocialGroupViewSet.leave: only an active member finds the group.
leave(q, u) ==
  /\ member[u] = "active"
  /\ Reads(q, [op |-> "leave", user |-> u])
  /\ UNCHANGED <<group, feed>>

\* Mutant: the place is given back by every request.
left_Twice(q) ==
  /\ request[q].op = "leave"
  /\ member' = [member EXCEPT ![request[q].user] = "left"]
  /\ member_count' = member_count - 1
  /\ Ends(q)
  /\ UNCHANGED feed

\* leave: the place is given back by the request that ends the membership.
left(q) ==
  /\ request[q].op = "leave"
  /\ LET u == request[q].user
     IN  IF member[u] = "active"
         THEN /\ member' = [member EXCEPT ![u] = "left"]
              /\ member_count' = member_count - 1
         ELSE UNCHANGED group
  /\ Ends(q)
  /\ UNCHANGED feed

-----------------------------------------------------------------------------
(* The post *)

\* Post.save: a post of a group is private, however it was written.
is_public(in_group) == ~in_group

\* create_post: a member posts in the group, anybody outside of it.
create_post(u, in_group) ==
  /\ post = "none"
  /\ in_group => member[u] = "active"
  /\ post' = IF is_public(in_group) THEN "public" ELSE "private"
  /\ UNCHANGED <<group, like, likes_count, comments, comments_count, rows, request>>

\* PostViewSet.get_queryset
get_object(u) == post = "public" \/ (post = "private" /\ member[u] = "active")

toggle_like(q, u) ==
  /\ get_object(u)
  /\ Reads(q, [op |-> "like", user |-> u, like |-> like[u]])
  /\ UNCHANGED <<group, feed>>

\* get_or_create: the like is counted by the request that inserts it.
toggled(q) ==
  /\ request[q].op = "like"
  /\ request[q].like = 0
  /\ rows < MaxRows
  /\ IF like[request[q].user] = 0
     THEN /\ like' = [like EXCEPT ![request[q].user] = rows + 1]
          /\ rows' = rows + 1
          /\ likes_count' = likes_count + 1
     ELSE UNCHANGED <<like, rows, likes_count>>
  /\ Ends(q)
  /\ UNCHANGED <<group, post, comments, comments_count>>

\* toggle_like: the row that was read is deleted, if it is still there, and
\* counted off in any case; the column refuses to go below 0.
untoggled(q) ==
  /\ request[q].op = "like"
  /\ request[q].like # 0
  /\ LET r == request[q]
     IN  IF likes_count = 0 THEN UNCHANGED <<like, likes_count>>
         ELSE /\ like' = [like EXCEPT ![r.user] = IF @ = r.like THEN 0 ELSE @]
              /\ likes_count' = likes_count - 1
  /\ Ends(q)
  /\ UNCHANGED <<group, post, comments, comments_count, rows>>

\* add_comment inserts the comment and counts it in two transactions.
add_comment(q, u) ==
  /\ get_object(u)
  /\ rows < MaxRows
  /\ Reads(q, [op |-> "comment"])
  /\ comments' = comments + 1
  /\ rows' = rows + 1
  /\ UNCHANGED <<group, post, like, likes_count, comments_count>>

comment_counted(q) ==
  /\ request[q].op = "comment"
  /\ comments_count' = comments_count + 1
  /\ Ends(q)
  /\ UNCHANGED <<group, post, like, likes_count, comments, rows>>

\* The process is stopped between two steps.
request_lost(q) ==
  /\ request[q] # Idle
  /\ Ends(q)
  /\ UNCHANGED <<group, feed>>

Next ==
  \/ \E q \in Request :
       \/ \E u \in User : join(q, u) \/ leave(q, u) \/ toggle_like(q, u) \/ add_comment(q, u)
       \/ joined(q) \/ left(q) \/ toggled(q) \/ untoggled(q) \/ comment_counted(q)
       \/ request_lost(q)
  \/ \E u \in User, in_group \in BOOLEAN : create_post(u, in_group)

Spec == Init /\ [][Next]_vars

-----------------------------------------------------------------------------
(* Properties *)

\* Whatever requests cross, a member holds a place that is counted, the group
\* is never over its capacity, and a post never shows more likes or comments
\* than it has (join, leave, toggle_like, add_comment).
PlacesAndLikesAreReal ==
  /\ Cardinality(Active) <= member_count
  /\ member_count <= max_members
  /\ likes_count <= Cardinality(Likers)
  /\ comments_count <= comments
=============================================================================
