------------------------------ MODULE Realtime ------------------------------
(***************************************************************************)
(* One group of the realtime channel: its publishers and one client        *)
(* (common/realtime.py, common/consumers.py).                              *)
(*                                                                         *)
(* A publication takes a number from a counter of the cache, writes the    *)
(* event under that number, and sends it to the sockets of the group: three *)
(* calls, which other publications and a connection come between.  The     *)
(* counter lives fifteen minutes from its creation, whatever is under way  *)
(* when they end, and the numbers start again after it: an event is known  *)
(* by its number and by the numbering it was given in.  A client that      *)
(* comes back names the last number it holds.                              *)
(***************************************************************************)
EXTENDS Integers, FiniteSets

CONSTANTS
  Publisher,      \* processes that publish
  BACKLOG_SIZE,
  MaxSeq,         \* bound: numbers the counter reaches
  MaxEpoch        \* bound: times the counter is created

VARIABLES
  counter,        \* the cached counter, 0 when just created or not there
  there,          \* whether the counter is in the cache
  epoch,          \* times the numbering was begun
  issued,         \* every number given so far
  again,          \* a number was given twice
  journal,        \* under each number, the numbering of the event and the one it was written in
  publisher,      \* what each process is at, with its number and the numbering it is of
  lost,           \* numbers of this numbering whose publication was cut short
  stray,          \* numbers of former numberings not yet written when this one began
  socket          \* the client's connection

vars == <<counter, there, epoch, issued, again, journal, publisher, lost, stray, socket>>

Seq == 1..MaxSeq
Idle == [at |-> "idle", seq |-> 0, of |-> 0]
Unwritten == [of |-> 0, till |-> 0]
Closed == [at |-> "closed", in |-> FALSE, since |-> 0, same |-> FALSE, last |-> 0, got |-> {}, gap |-> 0, queue |-> {}]

\* The numbers that were given and that nothing was written under yet.
Unsettled == {publisher[p].seq : p \in {q \in Publisher : publisher[q].at = "numbered"}}

-----------------------------------------------------------------------------
(* publish *)

\* _next_seq: the counter is created when it is not there...
add(p) ==
  /\ publisher[p].at = "idle" /\ counter < MaxSeq /\ (there \/ epoch < MaxEpoch)
  /\ publisher' = [publisher EXCEPT ![p].at = "added"]
  /\ there' = TRUE
  /\ epoch' = IF there THEN epoch ELSE epoch + 1
  /\ lost' = IF there THEN lost ELSE {}
  /\ stray' = IF there THEN stray ELSE Unsettled
  /\ UNCHANGED <<counter, issued, again, journal, socket>>

\* A number is given: to p, from here on.
Give(p, n) ==
  /\ publisher' = [publisher EXCEPT ![p] = [at |-> "numbered", seq |-> n, of |-> epoch']]
  /\ issued' = issued \cup {n}
  /\ again' = (again \/ n \in issued)
  /\ counter' = n

\* ... and incremented
incr(p) ==
  /\ publisher[p].at = "added" /\ there /\ counter < MaxSeq
  /\ UNCHANGED <<there, epoch, journal, lost, stray, socket>>
  /\ Give(p, counter + 1)

\* or set to 1 when it expired between the two calls, whatever another
\* process has made of it since.
incr_raises(p) ==
  /\ publisher[p].at = "added" /\ ~ there
  /\ publisher' = [publisher EXCEPT ![p].at = "raised"]
  /\ UNCHANGED <<counter, there, epoch, issued, again, journal, lost, stray, socket>>

set_one(p) ==
  /\ publisher[p].at = "raised" /\ epoch < MaxEpoch
  /\ there' = TRUE /\ epoch' = epoch + 1 /\ lost' = {} /\ stray' = Unsettled
  /\ Give(p, 1)
  /\ socket' = [socket EXCEPT !.same = FALSE]
  /\ UNCHANGED journal

\* The event is written under its number, for fifteen minutes from now and
\* over whatever is there, be it of another numbering.
write(p) ==
  /\ publisher[p].at = "numbered"
  /\ publisher' = [publisher EXCEPT ![p].at = "written"]
  /\ journal' = [journal EXCEPT ![publisher[p].seq] = [of |-> publisher[p].of, till |-> epoch]]
  /\ UNCHANGED <<counter, there, epoch, issued, again, lost, stray, socket>>

\* group_send: a socket of the group keeps the message until it is done with
\* its connection.
group_send(p) ==
  /\ publisher[p].at = "written"
  /\ publisher' = [publisher EXCEPT ![p] = Idle]
  /\ socket' = IF socket.in
               THEN [socket EXCEPT !.queue = @ \cup {<<publisher[p].seq, publisher[p].of>>}]
               ELSE socket
  /\ UNCHANGED <<counter, there, epoch, issued, again, journal, lost, stray>>

\* One of the three calls raises, or the process ends.
fails(p) ==
  /\ publisher[p].at # "idle"
  /\ publisher' = [publisher EXCEPT ![p] = Idle]
  /\ lost' = IF publisher[p].of = epoch THEN lost \cup {publisher[p].seq} ELSE lost
  /\ UNCHANGED <<counter, there, epoch, issued, again, journal, stray, socket>>

\* The counter expires, whatever publications are under way.
counter_expires ==
  /\ there
  /\ there' = FALSE /\ counter' = 0
  /\ socket' = [socket EXCEPT !.same = FALSE]
  /\ UNCHANGED <<epoch, issued, again, journal, publisher, lost, stray>>

\* An event expires after the counter that was there when it was written.
event_expires(s) ==
  /\ journal[s].till \in 1..(IF there THEN epoch - 1 ELSE epoch)
  /\ journal' = [journal EXCEPT ![s] = Unwritten]
  /\ UNCHANGED <<counter, there, epoch, issued, again, publisher, lost, stray, socket>>

-----------------------------------------------------------------------------
(* AuthorizedConsumer *)

\* Mutant: the socket joins the group once it has caught up.
connect_Late(since) ==
  /\ socket.at = "closed" /\ since <= counter
  /\ socket' = [Closed EXCEPT !.at = "joined", !.since = since, !.same = there]
  /\ UNCHANGED <<counter, there, epoch, issued, again, journal, publisher, lost, stray>>

\* connect: the socket is in the group before it reads what it missed.  The
\* client holds a number of this numbering, or of an earlier one.
connect(since) ==
  /\ socket.at = "closed"
  /\ \E same \in BOOLEAN :
       /\ same => there /\ since <= counter
       /\ socket' = [Closed EXCEPT !.at = "joined", !.in = TRUE, !.since = since, !.same = same]
  /\ UNCHANGED <<counter, there, epoch, issued, again, journal, publisher, lost, stray>>

\* A first connection names no number and catches up with nothing.
connect_first ==
  /\ socket.at = "closed"
  /\ socket' = [Closed EXCEPT !.at = "live", !.in = TRUE]
  /\ UNCHANGED <<counter, there, epoch, issued, again, journal, publisher, lost, stray>>

Max2(a, b) == IF a > b THEN a ELSE b
\* replay: the numbers of the window
premier(since, dernier) == Max2(Max2(since, dernier - BACKLOG_SIZE) + 1, 1)

\* replay reads the counter
replay_counts ==
  /\ socket.at = "joined"
  /\ socket' = IF premier(socket.since, counter) > counter
               THEN [socket EXCEPT !.at = "live", !.in = TRUE]
               ELSE [socket EXCEPT !.at = "reading", !.last = counter]
  /\ UNCHANGED <<counter, there, epoch, issued, again, journal, publisher, lost, stray>>

\* and then the events, in one call; a hole at the head of the window is told.
_catch_up ==
  LET missed == {s \in premier(socket.since, socket.last)..socket.last : journal[s] # Unwritten}
      first  == CHOOSE s \in missed : \A t \in missed : s <= t
  IN  /\ socket.at = "reading"
      /\ socket' = [socket EXCEPT !.at = "live", !.in = TRUE, !.got = {<<s, journal[s].of>> : s \in missed},
                                  !.gap = IF missed # {} /\ first > socket.since + 1 THEN first ELSE 0]
      /\ UNCHANGED <<counter, there, epoch, issued, again, journal, publisher, lost, stray>>

\* realtime_event: a message of the group goes to the client.
realtime_event ==
  /\ socket.at = "live"
  /\ \E event \in socket.queue :
       socket' = [socket EXCEPT !.queue = @ \ {event}, !.got = @ \cup {event}]
  /\ UNCHANGED <<counter, there, epoch, issued, again, journal, publisher, lost, stray>>

\* The connection drops, with the messages that were on their way.
disconnect ==
  /\ socket.at # "closed"
  /\ socket' = Closed
  /\ UNCHANGED <<counter, there, epoch, issued, again, journal, publisher, lost, stray>>

-----------------------------------------------------------------------------
Init ==
  /\ counter = 0 /\ there = FALSE /\ epoch = 0
  /\ issued = {} /\ again = FALSE
  /\ journal = [s \in Seq |-> Unwritten]
  /\ publisher = [p \in Publisher |-> Idle]
  /\ lost = {} /\ stray = {}
  /\ socket = Closed

Next ==
  \/ \E p \in Publisher :
       add(p) \/ incr(p) \/ incr_raises(p) \/ set_one(p) \/ write(p) \/ group_send(p) \/ fails(p)
  \/ counter_expires
  \/ \E s \in Seq : event_expires(s)
  \/ \E since \in 0..MaxSeq : connect(since)
  \/ realtime_event \/ connect_first \/ replay_counts \/ _catch_up \/ disconnect

Spec == Init /\ [][Next]_vars

-----------------------------------------------------------------------------
(* Properties *)

\* The event of this numbering is on its way: a process has the number and
\* will send it.
Coming(s) == \E p \in Publisher : publisher[p].seq = s /\ publisher[p].of = epoch

\* A client that came back with a number of the current numbering has the
\* very event of every number since, or has it coming, or can tell that it
\* has not: a later one reached it or will, or it was told of a hole.  Two
\* exceptions: a publication that was cut short at that number or later, and
\* a number that a publication numbered by a former counter still bore when
\* this one was created, since the two write under the same key.
CaughtUpOrTold ==
  socket.at = "live" /\ socket.same =>
    \A s \in socket.since + 1..counter :
      \/ s < socket.gap \/ s \in stray
      \/ \E t \in s..counter :
           <<t, epoch>> \in socket.got \cup socket.queue \/ Coming(t) \/ t \in lost

\* Event: "seq est croissant par groupe et jamais reutilise".
SeqIsNeverReused == ~ again
=============================================================================
