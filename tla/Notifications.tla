--------------------------- MODULE Notifications ---------------------------
(***************************************************************************)
(* The e-mails the users get.  Every five minutes celery-beat starts a     *)
(* sweep that lists pending e-mail notifications and queues a delivery for *)
(* each; a Celery worker loads the row, hands the mail to the mail server  *)
(* and only then saves the row as SENT.  The next sweep may list a row     *)
(* whose delivery is still waiting or under way, and its user may mark the *)
(* notification as read at any time.  A worker takes its message off the   *)
(* queue before it starts: what it was doing when it dies is lost.         *)
(***************************************************************************)
EXTENDS Naturals, FiniteSets

CONSTANTS
  Notes,       \* rows of the notifications table, once created
  Emails,      \* those whose channel is EMAIL
  Addressed,   \* those whose user has an e-mail address
  Workers,     \* Celery workers, one task at a time each
  Clients,     \* web processes serving PATCH .../read/
  NoNote,      \* what an idle process works on
  SweepLimit,  \* process_pending_email_notifications(limit)
  MaxQueued,   \* bound of the model: messages waiting for one notification
  MaxDeaths    \* bound of the model: workers that die

ASSUME NotesAssumption ==
  /\ Emails \subseteq Notes
  /\ Addressed \subseteq Notes
  /\ NoNote \notin Notes

ASSUME LimitsAssumption ==
  /\ SweepLimit \in Nat \ {0}
  /\ MaxQueued \in Nat \ {0}
  /\ MaxDeaths \in Nat

VARIABLES
  state,    \* Notification.status, or "absent" before the row is there
  stamped,  \* notifications with a sent_at
  listed,   \* ids the running sweep has still to queue
  queue,    \* deliver_email_notification messages waiting for each row
  task,     \* the delivery each worker is at
  reading,  \* the row a PATCH has loaded
  \* ---- what the outside world has seen
  mails,    \* mails each worker has handed over for each row
  lost,     \* of these, the ones the worker died after, before the save
  deaths    \* workers that have died

nvars == <<state, stamped, listed, queue, task, reading, mails, lost, deaths>>
-----------------------------------------------------------------------------
Absent  == "absent"
Pending == "pending"
Sent    == "sent"
Read    == "read"
State   == {Absent, Pending, Sent, Read}

Idle == [pc |-> "idle", note |-> NoNote]
Task == [pc: {"loaded", "handed"}, note: Notes]

At(w, step, n) == task[w] = [pc |-> step, note |-> n]

(* What a sweep selects from.                                              *)
Waiting == {n \in Emails : state[n] = Pending}

NInit ==
  /\ state = [n \in Notes |-> Absent]
  /\ stamped = {}
  /\ listed = {}
  /\ queue = [n \in Notes |-> 0]
  /\ task = [w \in Workers |-> Idle]
  /\ reading = [c \in Clients |-> NoNote]
  /\ mails = [w \in Workers |-> [n \in Notes |-> 0]]
  /\ lost = [w \in Workers |-> [n \in Notes |-> 0]]
  /\ deaths = 0
-----------------------------------------------------------------------------
(* No code of the repository creates notifications yet: some caller does.  *)
Create(n) ==
  /\ state[n] = Absent
  /\ state' = [state EXCEPT ![n] = Pending]
  /\ UNCHANGED <<stamped, listed, queue, task, reading, mails, lost, deaths>>

(* The query has a limit and no order: any SweepLimit of the waiting rows. *)
SweepList ==
  /\ listed = {}
  /\ \E ids \in SUBSET Waiting :
       /\ ids # {}
       /\ Cardinality(ids) = SweepLimit \/ (ids = Waiting /\ Cardinality(ids) < SweepLimit)
       /\ listed' = ids
  /\ UNCHANGED <<state, stamped, queue, task, reading, mails, lost, deaths>>

SweepQueue(n) ==
  /\ n \in listed
  /\ queue[n] < MaxQueued
  /\ queue' = [queue EXCEPT ![n] = @ + 1]
  /\ listed' = listed \ {n}
  /\ UNCHANGED <<state, stamped, task, reading, mails, lost, deaths>>
-----------------------------------------------------------------------------
(* A definition named ...Mutant is what a plausible mistake would make of  *)
(* the definition that follows it; no other definition uses it.            *)
DueMutant(n) == n \in Emails           \* the status is not looked at

(* The delivery goes on only with an e-mail that is still pending.         *)
Due(n) == n \in Emails /\ state[n] = Pending

DeliverLoad(w, n) ==
  /\ task[w] = Idle
  /\ queue[n] > 0
  /\ queue' = [queue EXCEPT ![n] = @ - 1]
  /\ task' = IF Due(n) THEN [task EXCEPT ![w] = [pc |-> "loaded", note |-> n]] ELSE task
  /\ UNCHANGED <<state, stamped, listed, reading, mails, lost, deaths>>

(* send_mail: without an address there is nobody to send to, and a mail    *)
(* server that refuses is not heard of (fail_silently).                    *)
DeliverSend(w, n) ==
  /\ At(w, "loaded", n)
  /\ task' = [task EXCEPT ![w].pc = "handed"]
  /\ \/ n \in Addressed /\ mails' = [mails EXCEPT ![w][n] = @ + 1]
     \/ mails' = mails
  /\ UNCHANGED <<state, stamped, listed, queue, reading, lost, deaths>>

DeliverSaveMutant(w, n) ==             \* no address, nothing to save
  /\ At(w, "handed", n)
  /\ task' = [task EXCEPT ![w] = Idle]
  /\ state' = IF n \in Addressed THEN [state EXCEPT ![n] = Sent] ELSE state
  /\ stamped' = stamped \cup {n}
  /\ UNCHANGED <<listed, queue, reading, mails, lost, deaths>>

DeliverSave(w, n) ==
  /\ At(w, "handed", n)
  /\ task' = [task EXCEPT ![w] = Idle]
  /\ state' = [state EXCEPT ![n] = Sent]
  /\ stamped' = stamped \cup {n}
  /\ UNCHANGED <<listed, queue, reading, mails, lost, deaths>>

(* A worker dies, or the save fails: the message is gone.                  *)
Die(w) ==
  /\ task[w] # Idle
  /\ deaths < MaxDeaths
  /\ deaths' = deaths + 1
  /\ task' = [task EXCEPT ![w] = Idle]
  /\ lost' = IF task[w].pc = "handed" THEN [lost EXCEPT ![w][task[w].note] = @ + 1] ELSE lost
  /\ UNCHANGED <<state, stamped, listed, queue, reading, mails>>
-----------------------------------------------------------------------------
(* PATCH /notifications/{id}/read/ asks nothing of the status it finds.    *)
ReadLoad(c, n) ==
  /\ reading[c] = NoNote
  /\ state[n] # Absent
  /\ reading' = [reading EXCEPT ![c] = n]
  /\ UNCHANGED <<state, stamped, listed, queue, task, mails, lost, deaths>>

ReadSave(c, n) ==
  /\ reading[c] = n
  /\ reading' = [reading EXCEPT ![c] = NoNote]
  /\ state' = [state EXCEPT ![n] = Read]
  /\ UNCHANGED <<stamped, listed, queue, task, mails, lost, deaths>>
-----------------------------------------------------------------------------
NNext ==
  \/ \E n \in Notes : Create(n)
  \/ SweepList
  \/ \E n \in Notes : SweepQueue(n)
  \/ \E w \in Workers, n \in Notes :
       DeliverLoad(w, n) \/ DeliverSend(w, n) \/ DeliverSave(w, n)
  \/ \E w \in Workers : Die(w)
  \/ \E c \in Clients, n \in Notes : ReadLoad(c, n) \/ ReadSave(c, n)

NSpec == NInit /\ [][NNext]_nvars

(* celery-beat starts the sweep again and again, and workers take what is  *)
(* in the queue; nobody has to read a notification.                        *)
NFairness ==
  /\ WF_nvars(SweepList)
  /\ \A n \in Notes :
       /\ WF_nvars(SweepQueue(n))
       /\ WF_nvars(\E w \in Workers : DeliverLoad(w, n))
  /\ \A w \in Workers : WF_nvars(\E n \in Notes : DeliverSend(w, n) \/ DeliverSave(w, n))

NFairSpec == NSpec /\ NFairness
-----------------------------------------------------------------------------
NTypeOK ==
  /\ state \in [Notes -> State]
  /\ stamped \subseteq Notes
  /\ listed \subseteq Emails
  /\ queue \in [Notes -> Nat]
  /\ task \in [Workers -> Task \cup {Idle}]
  /\ reading \in [Clients -> Notes \cup {NoNote}]
  /\ mails \in [Workers -> [Notes -> Nat]]
  /\ lost \in [Workers -> [Notes -> Nat]]
  /\ deaths \in 0 .. MaxDeaths
-----------------------------------------------------------------------------
(* However often a notification is queued, and whatever its user does      *)
(* meanwhile, a worker mails it once, and once more only after dying       *)
(* between the mail and the save: the copies a user gets are bounded by    *)
(* the workers and not by the sweeps.                                      *)
MailedOncePerWorker ==
  \A w \in Workers, n \in Notes : mails[w][n] <= 1 + lost[w][n]

(* Each e-mail is sent in the end, unless its user was faster, also with   *)
(* more of them waiting than one sweep takes and without an address.       *)
EveryEmailGoesOut ==
  \A n \in Emails : state[n] = Pending ~> state[n] # Pending
=============================================================================
