-------------------------------- MODULE Push --------------------------------
(***************************************************************************)
(* One notification on its way to the devices of its recipient             *)
(* (apps/notifications/tasks.py, push.py, fcm.py).                         *)
(*                                                                         *)
(* The row is written with what it announces; the task is posted once that *)
(* is committed.  A task that is lost with its worker is run again (acks   *)
(* late), one that leaves devices unserved is run again for these.  A      *)
(* device is a token; it moves to the account that last registered it.     *)
(***************************************************************************)
EXTENDS Naturals, FiniteSets

CONSTANTS
  Device, User,
  Recipient,      \* the user the notification is for
  MaxRetries,     \* max_retries of send_push
  MaxCrashes      \* bound: workers lost

VARIABLES
  owner,          \* Device.user, "nobody" when the device has no row
  note,           \* "none", "written", "rolled_back" or "deleted"
  queue,          \* tasks posted: the retry they are and the tokens they are for
  run,            \* the task a worker is at, with what is left to send and what failed
  copies,         \* copies of the message a device has shown, and to whom
  lost,           \* answers of the push service that did not come back
  crashes

vars == <<owner, note, queue, run, copies, lost, crashes>>

Idle == [retry |-> 0, for |-> {}, todo |-> {}, failed |-> {}, busy |-> FALSE]
Posted(retry, tokens) == [retry |-> retry, for |-> tokens]

\* The devices of a user, among the tokens the task is for.
reachable(tokens) == {d \in tokens : owner[d] = Recipient}

-----------------------------------------------------------------------------
\* AuthService.register_device: the token goes to the account that signs in.
register_device(d, u) ==
  /\ owner[d] # u
  /\ owner' = [owner EXCEPT ![d] = u]
  /\ UNCHANGED <<note, queue, run, copies, lost, crashes>>

\* DeviceView.delete and purge_unregistered_devices
delete_device(d) ==
  /\ owner[d] # "nobody"
  /\ owner' = [owner EXCEPT ![d] = "nobody"]
  /\ UNCHANGED <<note, queue, run, copies, lost, crashes>>

\* notify: the row, and the task once the transaction is committed.
notify ==
  /\ note = "none"
  /\ note' = "written"
  /\ queue' = {Posted(0, Device)}
  /\ UNCHANGED <<owner, run, copies, lost, crashes>>

\* What the notification announces is rolled back, and the notification too.
rolled_back ==
  /\ note = "none"
  /\ note' = "rolled_back"
  /\ UNCHANGED <<owner, queue, run, copies, lost, crashes>>

\* send_push: a worker takes the task and lists the devices.
send_push(t) ==
  /\ t \in queue /\ ~ run.busy
  /\ queue' = queue \ {t}
  /\ run' = [retry |-> t.retry, for |-> t.for, todo |-> reachable(t.for), failed |-> {}, busy |-> TRUE]
  /\ UNCHANGED <<owner, note, copies, lost, crashes>>

Shown(d) == copies' = [copies EXCEPT ![d] = @ + 1]

\* _send_one: shown, refused for good, refused for now, or shown with an
\* answer that was lost.
_send_one(d, outcome) ==
  /\ run.busy /\ d \in run.todo
  /\ run' = [run EXCEPT !.todo = @ \ {d},
                        !.failed = IF outcome \in {"failed", "lost"} THEN @ \cup {d} ELSE @]
  /\ IF outcome \in {"delivered", "lost"} THEN Shown(d) ELSE UNCHANGED copies
  /\ lost' = IF outcome = "lost" THEN lost \cup {d} ELSE lost
  /\ owner' = IF outcome = "unregistered" THEN [owner EXCEPT ![d] = "nobody"] ELSE owner
  /\ UNCHANGED <<note, queue, crashes>>

_demander_reprise == Posted(run.retry + 1, run.failed)

\* The devices that were not served are tried again, a few times.
task_ends ==
  /\ run.busy /\ run.todo = {}
  /\ queue' = IF run.failed # {} /\ run.retry < MaxRetries THEN queue \cup {_demander_reprise} ELSE queue
  /\ run' = Idle
  /\ UNCHANGED <<owner, note, copies, lost, crashes>>

\* The worker is lost: the broker gives the task to another one.
worker_lost ==
  /\ run.busy /\ crashes < MaxCrashes
  /\ crashes' = crashes + 1
  /\ queue' = queue \cup {Posted(run.retry, run.for)}
  /\ run' = Idle
  /\ UNCHANGED <<owner, note, copies, lost>>

-----------------------------------------------------------------------------
Init ==
  /\ owner = [d \in Device |-> Recipient]
  /\ note = "none"
  /\ queue = {}
  /\ run = Idle
  /\ copies = [d \in Device |-> 0]
  /\ lost = {}
  /\ crashes = 0

Next ==
  \/ \E d \in Device :
       \/ \E u \in User : register_device(d, u)
       \/ delete_device(d)
       \/ \E outcome \in {"delivered", "unregistered", "failed", "lost"} : _send_one(d, outcome)
  \/ notify \/ rolled_back
  \/ \E t \in queue : send_push(t)
  \/ task_ends
  \/ worker_lost

Spec == Init /\ [][Next]_vars

\* The workers take what the broker holds and finish what they take.
Fairness ==
  /\ WF_vars(\E t \in queue : send_push(t))
  /\ WF_vars(task_ends)
  /\ \A d \in Device : WF_vars(\E outcome \in {"delivered", "unregistered", "failed", "lost"} : _send_one(d, outcome))

-----------------------------------------------------------------------------
(* Properties *)

\* "Reprendre toute la liste ferait vibrer deux fois le telephone de ceux qui
\* avaient recu": a device shows a message twice only if the answer to the
\* first one was lost, or a worker was.
ShownOnce == \A d \in Device : copies[d] <= 1 \/ d \in lost \/ crashes > 0

\* A task never lists the devices of another account, even when a retry carries
\* the token of a device that has changed hands since.
OnlyTheRecipientsDevices ==
  [][~ run.busy /\ run'.busy => \A d \in run'.todo : owner[d] = Recipient]_vars

\* What was committed is tried on every device until it is shown, refused for
\* good or given up after the retries: no task stays behind.
EveryTaskEnds == note = "written" ~> (queue = {} /\ ~ run.busy)
=============================================================================
