----------------------------- MODULE CourierFile -----------------------------
(***************************************************************************)
(* The file of one courier (apps/delivery): the document that was filed,   *)
(* the decision on it, the reminders of its expiry.                        *)
(*                                                                         *)
(* review locks the row; replace_documents does not: it decides on the     *)
(* status the view had read.  A reviewer decides on the document that was  *)
(* on the screen.  The reminder task reads the files, and then writes and  *)
(* sends one reminder after the other; two of them may be running.         *)
(***************************************************************************)
EXTENDS StateMachines, Integers, FiniteSets

CONSTANTS
  MaxDocument,   \* bound: documents filed
  MaxDay,        \* bound: days
  Worker         \* celery workers that may run remind_document_expiry

VARIABLES
  file,          \* row of CourierProfile: status, is_online, document, expiry
  seen,          \* document the last approval was given on
  desk,          \* document on the screen of a reviewer, 0 for none
  upload,        \* status the upload of a document has read, "none" without one
  crossed,       \* an upload or a review was written over another one
  today,
  rows,          \* rows of DocumentReminder
  task,          \* the expiry a worker has read, 0 for none, and its threshold
  notices        \* reminders sent, by expiry and threshold

vars == <<file, seen, desk, upload, crossed, today, rows, task, notices>>

\* apps/delivery/states.py
VERIFICATION_TRANSITIONS ==
  [ pending   |-> {"approved", "rejected"},
    approved  |-> {"pending", "suspended"},
    rejected  |-> {"pending"},
    suspended |-> {"approved", "rejected"} ]

\* RAPPELS_EN_JOURS, on the scale of the bounds.
RAPPELS_EN_JOURS == {0, 1}

\* The smallest threshold the expiry has crossed.
_seuil_atteint(expires) ==
  LET crossed_thresholds == {t \in RAPPELS_EN_JOURS : expires - today <= t} IN
  IF crossed_thresholds = {} THEN {} ELSE {CHOOSE t \in crossed_thresholds : \A u \in crossed_thresholds : t <= u}

\* Mutant: the document of an approved file is replaced, and stays approved.
ROUVRE_L_INSTRUCTION_Rejected == {"rejected"}
ROUVRE_L_INSTRUCTION == {"approved", "rejected"}

-----------------------------------------------------------------------------
set_online(flag) ==
  /\ file.online # flag
  /\ file' = [file EXCEPT !.online = flag]
  /\ UNCHANGED <<seen, desk, upload, crossed, today, rows, task, notices>>

\* CourierProfileView.post finds the file ...
courier_of ==
  /\ upload = "none" /\ file.document < MaxDocument
  /\ upload' = file.status
  /\ UNCHANGED <<file, seen, desk, crossed, today, rows, task, notices>>

\* ... and writes the documents, without their date, and the status if the one
\* it has read asks for it.
replace_documents ==
  /\ upload # "none"
  /\ file' = IF upload \in ROUVRE_L_INSTRUCTION
             THEN [file EXCEPT !.document = @ + 1, !.expires = 0, !.status = "pending", !.online = FALSE]
             ELSE [file EXCEPT !.document = @ + 1, !.expires = 0]
  /\ crossed' = (crossed \/ upload # file.status)
  /\ upload' = "none"
  /\ UNCHANGED <<seen, desk, today, rows, task, notices>>

\* A reviewer opens the file ...
retrieve ==
  /\ desk = 0
  /\ desk' = file.document
  /\ UNCHANGED <<file, seen, upload, crossed, today, rows, task, notices>>

\* _poser_expirations: the dates the reviewer has read on the document.
_poser_expirations(expires) == IF expires = 0 THEN file ELSE [file EXCEPT !.expires = expires]

_refuser_si_expire(f) == f.expires = 0 \/ f.expires >= today

\* ... and decides: the dates, the refusal of an expired document, and the
\* status, off line unless it is approved.
review(target, expires) ==
  LET dated == _poser_expirations(expires) IN
  /\ desk # 0
  /\ target = "approved" => _refuser_si_expire(dated)
  /\ \/ /\ is_noop(file.status, target)
        /\ file' = dated
     \/ /\ can(VERIFICATION_TRANSITIONS, file.status, target)
        /\ file' = [dated EXCEPT !.status = target, !.online = @ /\ target = "approved"]
  /\ seen' = IF target = "approved" THEN desk ELSE seen
  /\ crossed' = (crossed \/ desk # file.document)
  /\ desk' = 0
  /\ UNCHANGED <<upload, today, rows, task, notices>>

-----------------------------------------------------------------------------
midnight ==
  /\ today < MaxDay
  /\ today' = today + 1
  /\ UNCHANGED <<file, seen, desk, upload, crossed, rows, task, notices>>

\* The task finds an approved file with a date in its window ...
remind_document_expiry(w) ==
  /\ task[w] = <<0, 0>>
  /\ file.status = "approved" /\ file.expires # 0
  /\ \E t \in _seuil_atteint(file.expires) : task' = [task EXCEPT ![w] = <<file.expires, t>>]
  /\ UNCHANGED <<file, seen, desk, upload, crossed, today, rows, notices>>

\* The unique constraint decides between two tasks.
_consigner(reminder) == reminder \notin rows

\* ... and writes the reminder before it sends it.
reminded(w) ==
  /\ task[w] # <<0, 0>>
  /\ task' = [task EXCEPT ![w] = <<0, 0>>]
  /\ rows' = rows \cup {task[w]}
  /\ notices' = IF _consigner(task[w]) THEN [notices EXCEPT ![task[w]] = @ + 1] ELSE notices
  /\ UNCHANGED <<file, seen, desk, upload, crossed, today>>

-----------------------------------------------------------------------------
\* provision: a file without its documents, pending.
Init ==
  /\ file = [status |-> "pending", online |-> FALSE, document |-> 1, expires |-> 0]
  /\ seen = 0
  /\ desk = 0
  /\ upload = "none"
  /\ crossed = FALSE
  /\ today = 1
  /\ rows = {}
  /\ task = [w \in Worker |-> <<0, 0>>]
  /\ notices = [r \in (1 .. MaxDay) \X RAPPELS_EN_JOURS |-> 0]

Next ==
  \/ \E flag \in BOOLEAN : set_online(flag)
  \/ courier_of \/ replace_documents
  \/ retrieve
  \/ \E target \in DOMAIN VERIFICATION_TRANSITIONS, expires \in 0 .. MaxDay : review(target, expires)
  \/ midnight
  \/ \E w \in Worker : remind_document_expiry(w) \/ reminded(w)

Spec == Init /\ [][Next]_vars

\* Celery beat runs the reminders every day.
Fairness == \A w \in Worker : WF_vars(remind_document_expiry(w)) /\ WF_vars(reminded(w))

-----------------------------------------------------------------------------
(* Properties *)

\* L5: the document of an approved file is one somebody has looked at, unless
\* an upload had read the file before a decision, or a reviewer decided on a
\* document that was replaced meanwhile.
ApprovedFileWasRead == file.status = "approved" /\ ~ crossed => seen = file.document

\* A suspension is not lifted by filing documents, and no decision leaves the
\* machine, unless an upload is written over a decision it had not read.
FileFollowsItsMachine ==
  [][crossed' \/ file'.status = file.status
     \/ can(VERIFICATION_TRANSITIONS, file.status, file'.status)]_vars

\* document_reminder_once: a courier hears of an expiry once per threshold,
\* whatever number of tasks run together.
RemindedOnce == \A r \in DOMAIN notices : notices[r] <= 1

\* A document that expires while its file stays approved is announced.
ExpiryIsAnnounced ==
  \A e \in 1 .. MaxDay :
    (file.status = "approved" /\ file.expires = e /\ today >= e) ~>
      (notices[<<e, 0>>] = 1 \/ file.status # "approved" \/ file.expires # e)
=============================================================================
