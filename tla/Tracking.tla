------------------------------ MODULE Tracking ------------------------------
(***************************************************************************)
(* The positions of one courier on one course (apps/tracking/services.py,  *)
(* consumers.py, views.py, tasks.py).                                      *)
(*                                                                         *)
(* A position bears the time of the device: it may come late, after newer  *)
(* ones, and from a clock that is ahead.  The device sends it by a request *)
(* or by a socket.  The course is read, the position is judged against the *)
(* latest row, the row is created, and a position that came by the socket  *)
(* is relayed to the client's screen: each in a statement of its own, with *)
(* no transaction and no lock, and those of several positions cross.       *)
(* Rows are sampled and the relay is not; the client whose socket is down  *)
(* is given the latest row instead.                                        *)
(***************************************************************************)
EXTENDS Integers, FiniteSets

CONSTANTS
  Place,                                  \* points of the road, numbered along it
  CLOCK_SKEW_AHEAD, CLOCK_SKEW_BEHIND,
  TRACKING_MIN_WRITE_SECONDS, TRACKING_MIN_WRITE_METERS,
  Request,                                \* requests of the courier's device under way
  MaxTime, MaxRows                        \* bounds: the clock, positions kept

VARIABLES
  now,      \* the server's clock
  course,   \* status of the course
  rows,     \* LocationPing: stamp of the device, place, time of reception
  profile,  \* last_location and last_location_at of the courier
  screen,   \* the last position relayed to the client
  request   \* what each position under way is at

vars == <<now, course, rows, profile, screen, request>>

\* TRACKABLE_STATUSES: a course that was accepted, picked up or is on the way
\* is trackable; one that was delivered, declined or cancelled is over.
Course == {"offered", "trackable", "over"}
Nowhere == [stamp |-> -1, place |-> 0]
Stamp == 0..MaxTime + CLOCK_SKEW_AHEAD
Position == [stamp : Stamp, place : Place]
Idle == [at |-> "idle", ping |-> Nowhere, keep |-> FALSE]

\* latest_for: a position no other is newer than.
latest_for(track) == {r \in track : \A q \in track : q.stamp <= r.stamp}

Road(a, b) == IF a > b THEN a - b ELSE b - a

_deserves_a_row(ping, last) ==
  \/ ping.stamp - last.stamp >= TRACKING_MIN_WRITE_SECONDS
  \/ Road(ping.place, last.place) >= TRACKING_MIN_WRITE_METERS

-----------------------------------------------------------------------------
\* PingWriteSerializer and _assert_own_course: the stamp is neither of the
\* future nor of long ago, and the course is under way when it is read.
PingWriteSerializer(q, ping) ==
  /\ request[q].at = "idle"
  /\ ping.stamp <= now + CLOCK_SKEW_AHEAD /\ ping.stamp >= now - CLOCK_SKEW_BEHIND
  /\ course = "trackable"
  /\ request' = [request EXCEPT ![q] = [at |-> "read", ping |-> ping, keep |-> FALSE]]
  /\ UNCHANGED <<now, course, rows, profile, screen>>

\* Mutant: a position is compared with the last one received, kept or not.
record_LastReceived(q) ==
  /\ request[q].at = "read"
  /\ profile' = request[q].ping
  /\ request' = [request EXCEPT ![q].at = "judged",
                                ![q].keep = profile = Nowhere \/ _deserves_a_row(request[q].ping, profile)]
  /\ UNCHANGED <<now, course, rows, screen>>

\* record: the courier's file takes every position; the position is judged
\* against the latest row, as it is now...
record(q) ==
  /\ request[q].at = "read"
  /\ profile' = request[q].ping
  /\ \/ /\ rows = {}
        /\ request' = [request EXCEPT ![q].at = "judged", ![q].keep = TRUE]
     \/ \E last \in latest_for(rows) :
          request' = [request EXCEPT ![q].at = "judged", ![q].keep = _deserves_a_row(request[q].ping, last)]
  /\ UNCHANGED <<now, course, rows, screen>>

\* ... and the row is created, whatever rows were meanwhile.
create(q) ==
  /\ request[q].at = "judged"
  /\ request[q].keep => Cardinality(rows) < MaxRows
  /\ rows' = IF request[q].keep
             THEN rows \cup {[received |-> now, stamp |-> request[q].ping.stamp, place |-> request[q].ping.place]}
             ELSE rows
  /\ request' = [request EXCEPT ![q].at = "recorded", ![q].keep = FALSE]
  /\ UNCHANGED <<now, course, profile, screen>>

\* PingView: a position that came by a request goes no further.
PingView(q) ==
  /\ request[q].at = "recorded"
  /\ request' = [request EXCEPT ![q] = Idle]
  /\ UNCHANGED <<now, course, rows, profile, screen>>

\* receive_json: one that came by the socket is relayed, kept or not and
\* whatever its time: the screen may well go back.
receive_json(q) ==
  /\ request[q].at = "recorded"
  /\ screen' = request[q].ping
  /\ request' = [request EXCEPT ![q] = Idle]
  /\ UNCHANGED <<now, course, rows, profile>>

\* A statement raises, or the process ends.
fails(q) ==
  /\ request[q].at # "idle"
  /\ request' = [request EXCEPT ![q] = Idle]
  /\ UNCHANGED <<now, course, rows, profile, screen>>

\* The course is accepted, and ends (module Delivery).
course_moves ==
  /\ \/ course = "offered" /\ course' = "trackable"
     \/ course # "over" /\ course' = "over"
  /\ UNCHANGED <<now, rows, profile, screen, request>>

\* purge_stale_locations: weeks after the course.
purge_stale_locations ==
  /\ course = "over" /\ rows # {}
  /\ \E horizon \in 0..now : rows' = {r \in rows : r.received >= horizon}
  /\ UNCHANGED <<now, course, profile, screen, request>>

tick == now < MaxTime /\ now' = now + 1 /\ UNCHANGED <<course, rows, profile, screen, request>>

Init ==
  /\ now = 0 /\ course = "offered"
  /\ rows = {} /\ profile = Nowhere /\ screen = Nowhere
  /\ request = [q \in Request |-> Idle]

Next ==
  \/ \E q \in Request :
       \/ \E ping \in Position : PingWriteSerializer(q, ping)
       \/ record(q) \/ create(q) \/ PingView(q) \/ receive_json(q) \/ fails(q)
  \/ course_moves \/ purge_stale_locations \/ tick

Spec == Init /\ [][Next]_vars

-----------------------------------------------------------------------------
(* Properties *)

\* What is sampled keeps up with what is not: whatever positions cross, come
\* late or are cut short, while the course is under way the track has a point
\* near the one on the screen, and a client whose socket falls is not sent
\* back by as much as the sampling interval (OrderTrackingView, latest_for).
FallbackKeepsUp ==
  course = "trackable" /\ screen # Nowhere =>
    /\ \E r \in rows : Road(r.place, screen.place) < TRACKING_MIN_WRITE_METERS
    /\ \A r \in latest_for(rows) : screen.stamp - r.stamp < TRACKING_MIN_WRITE_SECONDS
=============================================================================
