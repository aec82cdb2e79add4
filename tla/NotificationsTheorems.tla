----------------------- MODULE NotificationsTheorems -----------------------
(***************************************************************************)
(* What holds of Notifications for any rows, workers, limit and number of  *)
(* deaths.                                                                 *)
(*                                                                         *)
(* The argument is an account kept for each worker and row: a mail of its  *)
(* own is either lost, or the row has left PENDING, or the worker is on    *)
(* its way to save it (Accounted).  A worker starts on a row only while it *)
(* is PENDING and with nothing else in hand, so that what it has sent      *)
(* before is lost.                                                         *)
(***************************************************************************)
EXTENDS Notifications, TLAPS

(* The row has not been settled by anybody.                                *)
Fresh(n) == state[n] \in {Absent, Pending}

Accounted ==
  \A w \in Workers, n \in Notes :
    /\ mails[w][n] <= 1 + lost[w][n]
    /\ At(w, "loaded", n) => mails[w][n] <= lost[w][n]
    /\ Fresh(n) /\ ~At(w, "handed", n) => mails[w][n] <= lost[w][n]

NInv == NTypeOK /\ Accounted
-----------------------------------------------------------------------------
LEMMA CountsAreNumbers ==
  ASSUME NTypeOK, NEW w \in Workers, NEW n \in Notes
  PROVE  mails[w][n] \in Nat /\ lost[w][n] \in Nat
BY DEF NTypeOK

LEMMA TaskFields ==
  ASSUME NTypeOK, NEW w \in Workers
  PROVE  \/ task[w] = Idle
         \/ \E n \in Notes : At(w, "loaded", n) \/ At(w, "handed", n)
<1>1. task[w] \in Task \cup {Idle}
  BY DEF NTypeOK
<1>2. QED
  BY <1>1 DEF Task, At

LEMMA StepsDiffer ==
  ASSUME NEW w \in Workers, NEW n, NEW m
  PROVE  /\ ~(At(w, "loaded", n) /\ At(w, "handed", m))
         /\ task[w] = Idle => ~At(w, "loaded", n) /\ ~At(w, "handed", n)
         /\ At(w, "loaded", n) /\ At(w, "loaded", m) => n = m
         /\ At(w, "handed", n) /\ At(w, "handed", m) => n = m
BY DEF At, Idle

(* Which account a step touches: none but that of one worker and row.      *)
LEMMA QuietStep ==
  ASSUME NInv, NTypeOK', UNCHANGED <<task, mails, lost>>,
         \A n \in Notes : Fresh(n)' => Fresh(n)
  PROVE  Accounted'
BY DEF NInv, Accounted, At
-----------------------------------------------------------------------------
(* Rows, queue and tasks have their types.                                 *)
LEMMA TypeStep ==
  ASSUME NTypeOK, NNext PROVE NTypeOK'
<1> USE NotesAssumption, LimitsAssumption DEF NTypeOK
<1>1. CASE \E n \in Notes : Create(n)
  BY <1>1 DEF Create, State, Pending
<1>2. CASE SweepList
  BY <1>2 DEF SweepList, Waiting
<1>3. CASE \E n \in Notes : SweepQueue(n)
  BY <1>3 DEF SweepQueue
<1>4. ASSUME NEW w \in Workers, NEW n \in Notes, DeliverLoad(w, n) PROVE NTypeOK'
  <2>1. [pc |-> "loaded", note |-> n] \in Task
    BY DEF Task
  <2>2. queue' \in [Notes -> Nat]
    BY <1>4 DEF DeliverLoad
  <2>3. QED
    BY <1>4, <2>1, <2>2 DEF DeliverLoad
<1>5. ASSUME NEW w \in Workers, NEW n \in Notes, DeliverSend(w, n) PROVE NTypeOK'
  <2>1. [task[w] EXCEPT !.pc = "handed"] \in Task
    BY <1>5 DEF DeliverSend, At, Task
  <2>2. task' = [task EXCEPT ![w] = [task[w] EXCEPT !.pc = "handed"]]
    BY <1>5 DEF DeliverSend
  <2>3. task' \in [Workers -> Task \cup {Idle}]
    BY <2>1, <2>2
  <2>4. mails' \in [Workers -> [Notes -> Nat]]
    <3>1. [mails EXCEPT ![w][n] = @ + 1] \in [Workers -> [Notes -> Nat]]
      <4>1. mails[w] \in [Notes -> Nat] /\ mails[w][n] + 1 \in Nat
        OBVIOUS
      <4>2. [mails[w] EXCEPT ![n] = @ + 1] \in [Notes -> Nat]
        BY <4>1
      <4>3. QED
        BY <4>2
    <3>2. QED
      BY <1>5, <3>1 DEF DeliverSend
  <2>5. QED
    BY <1>5, <2>3, <2>4 DEF DeliverSend
<1>6. ASSUME NEW w \in Workers, NEW n \in Notes, DeliverSave(w, n) PROVE NTypeOK'
  BY <1>6 DEF DeliverSave, State, Sent
<1>7. ASSUME NEW w \in Workers, Die(w) PROVE NTypeOK'
  <2>1. task[w].note \in Notes
    BY <1>7 DEF Die, Task
  <2>2. lost' \in [Workers -> [Notes -> Nat]]
    BY <1>7, <2>1 DEF Die
  <2>3. QED
    BY <1>7, <2>2 DEF Die
<1>8. ASSUME NEW c \in Clients, NEW n \in Notes, ReadLoad(c, n) \/ ReadSave(c, n)
      PROVE  NTypeOK'
  BY <1>8 DEF ReadLoad, ReadSave, State, Read
<1>9. QED
  BY <1>1, <1>2, <1>3, <1>4, <1>5, <1>6, <1>7, <1>8 DEF NNext

(* Type correctness of the e-mail sweep, its deliveries and mark-read.     *)
THEOREM NTypeCorrect == NSpec => []NTypeOK
<1>1. NInit => NTypeOK
  BY LimitsAssumption DEF NInit, NTypeOK, State, Absent
<1>2. NTypeOK /\ [NNext]_nvars => NTypeOK'
  <2>1. NTypeOK /\ UNCHANGED nvars => NTypeOK'
    BY DEF NTypeOK, nvars
  <2>2. QED
    BY <2>1, TypeStep
<1>3. QED
  BY <1>1, <1>2, PTL DEF NSpec
-----------------------------------------------------------------------------
LEMMA LoadStep ==
  ASSUME NInv, NTypeOK', NEW w \in Workers, NEW n \in Notes, DeliverLoad(w, n)
  PROVE  Accounted'
<1> SUFFICES ASSUME NEW v \in Workers, NEW m \in Notes
             PROVE  /\ mails[v][m] <= 1 + lost[v][m]
                    /\ At(v, "loaded", m)' => mails[v][m] <= lost[v][m]
                    /\ Fresh(m) /\ ~At(v, "handed", m)' => mails[v][m] <= lost[v][m]
  BY DEF Accounted, DeliverLoad, Fresh
<1>1. CASE v = w /\ Due(n)
  <2>1. task'[w] = [pc |-> "loaded", note |-> n] /\ task[w] = Idle
    BY <1>1 DEF DeliverLoad, NInv, NTypeOK
  <2>2. ~At(w, "handed", m)
    BY <2>1, StepsDiffer
  <2>3. m = n => mails[w][m] <= lost[w][m]
    BY <1>1, <2>2 DEF NInv, Accounted, Fresh, Due
  <2>4. At(w, "loaded", m)' => m = n
    BY <2>1 DEF At
  <2>5. QED
    BY <1>1, <2>2, <2>3, <2>4 DEF NInv, Accounted
<1>2. CASE ~(v = w /\ Due(n))
  <2>1. task'[v] = task[v]
    BY <1>2 DEF DeliverLoad, NInv, NTypeOK
  <2>2. QED
    BY <2>1 DEF NInv, Accounted, At
<1>3. QED
  BY <1>1, <1>2

LEMMA SendStep ==
  ASSUME NInv, NTypeOK', NEW w \in Workers, NEW n \in Notes, DeliverSend(w, n)
  PROVE  Accounted'
<1> SUFFICES ASSUME NEW v \in Workers, NEW m \in Notes
             PROVE  /\ mails'[v][m] <= 1 + lost[v][m]
                    /\ At(v, "loaded", m)' => mails'[v][m] <= lost[v][m]
                    /\ Fresh(m) /\ ~At(v, "handed", m)' => mails'[v][m] <= lost[v][m]
  BY DEF Accounted, DeliverSend, Fresh
<1>1. /\ task'[w] = [pc |-> "handed", note |-> n]
      /\ task[w] = [pc |-> "loaded", note |-> n]
      /\ v # w => task'[v] = task[v]
  BY DEF DeliverSend, At, NInv, NTypeOK
<1>2. mails[v][m] \in Nat /\ lost[v][m] \in Nat
  BY CountsAreNumbers DEF NInv
<1>3. CASE v = w /\ m = n
  <2>1. mails[w][n] <= lost[w][n]
    BY DEF NInv, Accounted, DeliverSend
  <2>2. mails'[w][n] \in {mails[w][n], mails[w][n] + 1}
    BY DEF DeliverSend, NInv, NTypeOK
  <2>3. At(w, "handed", n)' /\ ~At(w, "loaded", n)'
    BY <1>1 DEF At
  <2>4. QED
    BY <1>2, <1>3, <2>1, <2>2, <2>3
<1>4. CASE ~(v = w /\ m = n)
  <2>1. mails'[v][m] = mails[v][m]
    BY <1>4 DEF DeliverSend, NInv, NTypeOK
  <2>2. At(v, "loaded", m)' => At(v, "loaded", m)
    BY <1>1, <1>4 DEF At
  <2>3. At(v, "handed", m) => At(v, "handed", m)'
    BY <1>1, <1>4 DEF At
  <2>4. QED
    BY <2>1, <2>2, <2>3 DEF NInv, Accounted
<1>5. QED
  BY <1>3, <1>4

LEMMA SaveStep ==
  ASSUME NInv, NTypeOK', NEW w \in Workers, NEW n \in Notes, DeliverSave(w, n)
  PROVE  Accounted'
<1> SUFFICES ASSUME NEW v \in Workers, NEW m \in Notes
             PROVE  /\ mails[v][m] <= 1 + lost[v][m]
                    /\ At(v, "loaded", m)' => mails[v][m] <= lost[v][m]
                    /\ Fresh(m)' /\ ~At(v, "handed", m)' => mails[v][m] <= lost[v][m]
  BY DEF Accounted, DeliverSave
<1>1. /\ task'[w] = Idle
      /\ task[w] = [pc |-> "handed", note |-> n]
      /\ v # w => task'[v] = task[v]
  BY DEF DeliverSave, At, NInv, NTypeOK
<1>2. Fresh(m)' => Fresh(m) /\ m # n
  BY DEF DeliverSave, Fresh, NInv, NTypeOK, Sent, Absent, Pending
<1>3. At(v, "loaded", m)' => At(v, "loaded", m)
  BY <1>1 DEF At, Idle
<1>4. m # n /\ At(v, "handed", m) => At(v, "handed", m)'
  BY <1>1 DEF At
<1>5. QED
  BY <1>2, <1>3, <1>4 DEF NInv, Accounted

LEMMA DieStep ==
  ASSUME NInv, NTypeOK', NEW w \in Workers, Die(w)
  PROVE  Accounted'
<1> SUFFICES ASSUME NEW v \in Workers, NEW m \in Notes
             PROVE  /\ mails[v][m] <= 1 + lost'[v][m]
                    /\ At(v, "loaded", m)' => mails[v][m] <= lost'[v][m]
                    /\ Fresh(m) /\ ~At(v, "handed", m)' => mails[v][m] <= lost'[v][m]
  BY DEF Accounted, Die, Fresh
<1>1. task'[w] = Idle /\ (v # w => task'[v] = task[v])
  BY DEF Die, NInv, NTypeOK
<1>2. mails[v][m] \in Nat /\ lost[v][m] \in Nat
  BY CountsAreNumbers DEF NInv
<1>3. CASE v = w /\ At(w, "handed", m)
  <2>1. lost'[w][m] = lost[w][m] + 1
    BY <1>3 DEF Die, At, NInv, NTypeOK
  <2>2. mails[w][m] <= 1 + lost[w][m]
    BY DEF NInv, Accounted
  <2>3. QED
    BY <1>2, <1>3, <2>1, <2>2
<1>4. CASE ~(v = w /\ At(w, "handed", m))
  <2>1. lost'[v][m] = lost[v][m]
    <3>1. CASE task[w].pc # "handed" \/ v # w
      BY <3>1 DEF Die, NInv, NTypeOK
    <3>2. CASE task[w].pc = "handed" /\ v = w
      <4>1. task[w].note # m
        BY <1>4, <3>2, TaskFields DEF At, NInv, Idle
      <4>2. QED
        BY <3>2, <4>1 DEF Die, NInv, NTypeOK
    <3>3. QED
      BY <3>1, <3>2
  <2>2. At(v, "loaded", m)' => At(v, "loaded", m)
    BY <1>1 DEF At, Idle
  <2>3. At(v, "handed", m) => At(v, "handed", m)'
    BY <1>1, <1>4 DEF At
  <2>4. QED
    BY <2>1, <2>2, <2>3 DEF NInv, Accounted
<1>5. QED
  BY <1>3, <1>4

LEMMA AccountStep ==
  ASSUME NInv, NNext, NTypeOK' PROVE Accounted'
<1>1. ASSUME NEW n \in Notes, Create(n) PROVE Accounted'
  <2>1. \A m \in Notes : Fresh(m)' => Fresh(m)
    BY <1>1 DEF Create, Fresh, NInv, NTypeOK
  <2>2. QED
    BY <1>1, <2>1, QuietStep DEF Create
<1>2. CASE SweepList
  BY <1>2, QuietStep DEF SweepList, Fresh
<1>3. ASSUME NEW n \in Notes, SweepQueue(n) PROVE Accounted'
  BY <1>3, QuietStep DEF SweepQueue, Fresh
<1>4. ASSUME NEW c \in Clients, NEW n \in Notes, ReadLoad(c, n) PROVE Accounted'
  BY <1>4, QuietStep DEF ReadLoad, Fresh
<1>5. ASSUME NEW c \in Clients, NEW n \in Notes, ReadSave(c, n) PROVE Accounted'
  <2>1. \A m \in Notes : Fresh(m)' => Fresh(m)
    BY <1>5 DEF ReadSave, Fresh, NInv, NTypeOK, Read, Absent, Pending
  <2>2. QED
    BY <1>5, <2>1, QuietStep DEF ReadSave
<1>6. QED
  BY <1>1, <1>2, <1>3, <1>4, <1>5, LoadStep, SendStep, SaveStep, DieStep DEF NNext
-----------------------------------------------------------------------------
(* A worker mails a notification once, and once more only after a death    *)
(* between mail and save: for any number of sweeps.                        *)
THEOREM CopiesAreBounded == NSpec => []MailedOncePerWorker
<1>1. NInit => NInv
  <2>1. NInit => NTypeOK
    BY LimitsAssumption DEF NInit, NTypeOK, State, Absent
  <2>2. NInit => Accounted
    BY DEF NInit, Accounted
  <2>3. QED
    BY <2>1, <2>2 DEF NInv
<1>2. NInv /\ [NNext]_nvars => NInv'
  <2>1. NInv /\ NNext => NInv'
    BY TypeStep, AccountStep DEF NInv
  <2>2. NInv /\ UNCHANGED nvars => NInv'
    BY DEF NInv, NTypeOK, Accounted, nvars, Fresh, At
  <2>3. QED
    BY <2>1, <2>2
<1>3. NInv => MailedOncePerWorker
  BY DEF NInv, Accounted, MailedOncePerWorker
<1>4. QED
  BY <1>1, <1>2, <1>3, PTL DEF NSpec
=============================================================================
