-------------------------- MODULE PaymentsTheorems --------------------------
(***************************************************************************)
(* What holds of Payments for any users, processes and workers, on either  *)
(* database, whatever the listing does meanwhile.                          *)
(*                                                                         *)
(* Two facts make the invariants inductive.  A worker that has gone past   *)
(* the check of the status carries the news of a success, and a success    *)
(* that is on its way has been paid for.  A worker that is about to touch  *)
(* the auction has seen the seller's subscription become active.           *)
(***************************************************************************)
EXTENDS Payments, FiniteSetTheorems, TLAPS

Past(t) == task[t].pc \in {"saved", "activating", "golive", "entering"}

NewsIsTrue ==
  /\ \A m \in hooks : m.status = Settled => m.user \in paid
  /\ \A t \in Tasks : Doing(t, "loaded") /\ task[t].status = Settled
                        => task[t].user \in paid
  /\ \A t \in Tasks : Past(t) => task[t].user \in paid

StartsArePaid ==
  \A t \in Tasks : Doing(t, "golive") \/ Doing(t, "entering") =>
                     task[t].user = Seller /\ sub[Seller] = Active
-----------------------------------------------------------------------------
LEMMA RequestType ==
  ASSUME PTypeOK, NEW p \in Web, web[p] # Idle
  PROVE  web[p] \in Request
BY DEF PTypeOK

LEMMA JobType ==
  ASSUME PTypeOK, NEW t \in Tasks, task[t] # Idle
  PROVE  task[t] \in Job
BY DEF PTypeOK

LEMMA InitType == PInit => PTypeOK
BY PaymentsAssumption
   DEF PInit, PTypeOK, AuctionStatus, SubStatus, NoTx, Payment

(* Requests to subscribe and to mark a subscription paid.                  *)
LEMMA WebType ==
  ASSUME PTypeOK, NEW p \in Web, Subscribe(p) \/ MarkPaid(p) \/ WebCrash(p)
  PROVE  PTypeOK'
<1> USE DEF RestOfWeb, money, Goto, Finish, At
<1>1. ASSUME NEW u \in Users, SubscribeCheck(p, u) PROVE PTypeOK'
  BY <1>1 DEF SubscribeCheck, PTypeOK, Request
<1>2. CASE SubscribeFound(p)
  BY <1>2 DEF SubscribeFound, PTypeOK
<1>3. CASE SubscribeNew(p)
  BY <1>3, RequestType DEF SubscribeNew, PTypeOK, Request, Idle
<1>4. CASE SubscribeInsert(p)
  BY <1>4, RequestType DEF SubscribeInsert, PTypeOK, Request, Idle, SubStatus
<1>5. CASE SubscribeCharge(p)
  <2>1. web[p] \in Request
    BY <1>5, RequestType DEF SubscribeCharge, Idle
  <2>2. tx' \in [Users -> Payment]
    BY <1>5, <2>1 DEF SubscribeCharge, PTypeOK, Payment, TxStatus, Request
  <2>3. QED
    BY <1>5, <2>1, <2>2 DEF SubscribeCharge, PTypeOK, Request
<1>6. CASE SubscribeRefer(p)
  <2>1. tx' \in [Users -> Payment]
    BY <1>6 DEF SubscribeRefer, PTypeOK, Payment
  <2>2. QED
    BY <1>6, <2>1 DEF SubscribeRefer, PTypeOK
<1>7. ASSUME NEW u \in Users, PayLoad(p, u) PROVE PTypeOK'
  BY <1>7 DEF PayLoad, PTypeOK, Request
<1>8. CASE PayCommit(p)
  <2>1. web[p].user \in Users
    BY <1>8, RequestType DEF PayCommit, Request, Idle
  <2>2. tx' \in [Users -> Payment]
    BY <1>8, <2>1 DEF PayCommit, PTypeOK, Payment, NoTx, TxStatus
  <2>3. QED
    BY <1>8, <2>1, <2>2
       DEF PayCommit, GoLive, PTypeOK, SubStatus, AuctionStatus
<1>9. CASE WebCrash(p)
  BY <1>9, PaymentsAssumption DEF WebCrash, PTypeOK
<1> QED
  BY <1>1, <1>2, <1>3, <1>4, <1>5, <1>6, <1>7, <1>8, <1>9 DEF Subscribe, MarkPaid

(* The webhook of a worker.                                                *)
LEMMA TaskType ==
  ASSUME PTypeOK, NEW t \in Tasks,
         TaskStep(t) \/ TaskCrash(t) \/ \E m \in Hook : TaskLoad(t, m)
  PROVE  PTypeOK'
<1> USE DEF RestOfTask, money, Continue, Done, Doing
<1>1. ASSUME NEW m \in Hook, TaskLoad(t, m) PROVE PTypeOK'
  BY <1>1 DEF TaskLoad, PTypeOK, Hook, Job
<1>2. CASE TaskSave(t)
  <2>1. task[t] \in Job
    BY <1>2, JobType DEF TaskSave, Idle
  <2>2. tx' \in [Users -> Payment]
    BY <1>2, <2>1 DEF TaskSave, PTypeOK, Payment, Job
  <2>3. QED
    BY <1>2, <2>1, <2>2 DEF TaskSave, PTypeOK, Job
<1>3. CASE TaskSync(t)
  BY <1>3, JobType DEF TaskSync, PTypeOK, Job, Idle
<1>4. CASE TaskActivate(t)
  BY <1>4, JobType DEF TaskActivate, PTypeOK, Job, Idle, SubStatus
<1>5. CASE TaskRaise(t)
  BY <1>5 DEF TaskRaise, PTypeOK
<1>6. CASE TaskGoLive(t)
  BY <1>6, JobType DEF TaskGoLive, PTypeOK, Job, Idle
<1>7. CASE TaskEnter(t)
  BY <1>7 DEF TaskEnter, PTypeOK, AuctionStatus
<1>8. CASE TaskCrash(t)
  BY <1>8, PaymentsAssumption DEF TaskCrash, PTypeOK
<1> QED
  BY <1>1, <1>2, <1>3, <1>4, <1>5, <1>6, <1>7, <1>8 DEF TaskStep

LEMMA StepType == PTypeOK /\ [PNext]_pvars => PTypeOK'
<1> SUFFICES ASSUME PTypeOK, [PNext]_pvars PROVE PTypeOK'
  OBVIOUS
<1>1. ASSUME NEW p \in Web, Subscribe(p) \/ MarkPaid(p) \/ WebCrash(p)
      PROVE  PTypeOK'
  BY <1>1, WebType
<1>2. ASSUME NEW u \in Users, NEW s \in TxStatus, Report(u, s) PROVE PTypeOK'
  BY <1>2 DEF Report, PTypeOK, Hook, processes
<1>3. ASSUME NEW t \in Tasks,
             TaskStep(t) \/ TaskCrash(t) \/ \E m \in Hook : TaskLoad(t, m)
      PROVE  PTypeOK'
  BY <1>3, TaskType
<1>4. CASE AuctionStep
  BY <1>4 DEF AuctionStep, PTypeOK, AuctionStatus, money, processes
<1>5. CASE UNCHANGED pvars
  BY <1>5 DEF pvars, PTypeOK, money, processes
<1> QED
  BY <1>1, <1>2, <1>3, <1>4, <1>5 DEF PNext, PaymentsStep

(* Every variable keeps its type.                                          *)
THEOREM PTypeCorrect == PSpec => []PTypeOK
<1>1. QED
  BY InitType, StepType, PTL DEF PSpec
-----------------------------------------------------------------------------
(* News and money.                                                         *)

LEMMA NewsInit == PInit => NewsIsTrue /\ ActiveIsPaid
BY DEF PInit, NewsIsTrue, ActiveIsPaid, Doing, Past, Idle, None, Active

LEMMA NewsStep ==
  PTypeOK /\ NewsIsTrue /\ ActiveIsPaid /\ [PNext]_pvars
    => (NewsIsTrue /\ ActiveIsPaid)'
<1> SUFFICES ASSUME PTypeOK, NewsIsTrue, ActiveIsPaid, [PNext]_pvars
             PROVE  (NewsIsTrue /\ ActiveIsPaid)'
  OBVIOUS
<1> USE DEF NewsIsTrue, ActiveIsPaid, Doing, Past, money
<1>1. ASSUME NEW p \in Web, Subscribe(p) \/ WebCrash(p)
      PROVE  (NewsIsTrue /\ ActiveIsPaid)'
  <2>1. CASE SubscribeInsert(p)
    BY <2>1 DEF SubscribeInsert, RestOfWeb, PTypeOK, Pending, Active
  <2>2. CASE ~SubscribeInsert(p)
    <3>1. UNCHANGED <<hooks, task, paid, sub>>
      BY <1>1, <2>2 DEF Subscribe, SubscribeCheck, SubscribeFound, SubscribeNew,
           SubscribeCharge, SubscribeRefer, WebCrash, RestOfWeb
    <3>2. QED
      BY <3>1
  <2>3. QED
    BY <2>1, <2>2
<1>2. ASSUME NEW p \in Web, MarkPaid(p)
      PROVE  (NewsIsTrue /\ ActiveIsPaid)'
  <2>1. ASSUME NEW u \in Users, PayLoad(p, u)
        PROVE  (NewsIsTrue /\ ActiveIsPaid)'
    BY <2>1 DEF PayLoad, RestOfWeb
  <2>2. CASE PayCommit(p)
    BY <2>2 DEF PayCommit, PTypeOK
  <2>3. QED
    BY <1>2, <2>1, <2>2 DEF MarkPaid
<1>3. ASSUME NEW u \in Users, NEW s \in TxStatus, Report(u, s)
      PROVE  (NewsIsTrue /\ ActiveIsPaid)'
  BY <1>3 DEF Report, processes, Hook
<1>4. ASSUME NEW t \in Tasks, NEW m \in Hook, TaskLoad(t, m)
      PROVE  (NewsIsTrue /\ ActiveIsPaid)'
  BY <1>4 DEF TaskLoad, RestOfTask, PTypeOK
<1>5. ASSUME NEW t \in Tasks, TaskStep(t) \/ TaskCrash(t)
      PROVE  (NewsIsTrue /\ ActiveIsPaid)'
  <2>1. /\ hooks' = hooks /\ paid' = paid
        /\ \A s \in Tasks : s # t => task'[s] = task[s]
    BY <1>5 DEF TaskStep, TaskSave, TaskSync, TaskActivate, TaskRaise,
         TaskGoLive, TaskEnter, TaskCrash, Done, Continue, RestOfTask, PTypeOK
  <2>2. CASE TaskSave(t)
    <3>1. \/ task'[t] = Idle
          \/ task[t].status = Settled /\ task'[t].user = task[t].user
               /\ task'[t].pc = "saved"
      BY <2>2, JobType DEF TaskSave, Done, Continue, PTypeOK, Idle, Job
    <3>2. sub' = sub /\ Doing(t, "loaded")
      BY <2>2 DEF TaskSave
    <3>3. QED
      BY <2>1, <3>1, <3>2 DEF Idle
  <2>3. CASE TaskSync(t) \/ TaskActivate(t) \/ TaskGoLive(t)
    <3>1. Past(t)
      BY <2>3 DEF TaskSync, TaskActivate, TaskGoLive
    <3>2. \/ task'[t] = Idle
          \/ task'[t].user = task[t].user /\ task'[t].pc # "loaded"
      BY <2>3, JobType
         DEF TaskSync, TaskActivate, TaskGoLive, Done, Continue, PTypeOK, Idle, Job
    <3>3. NewsIsTrue'
      BY <2>1, <3>1, <3>2 DEF Idle
    <3>4. ActiveIsPaid'
      BY <2>1, <2>3, <3>1 DEF TaskSync, TaskActivate, TaskGoLive, PTypeOK
    <3>5. QED
      BY <3>3, <3>4
  <2>4. CASE TaskRaise(t) \/ TaskEnter(t) \/ TaskCrash(t)
    <3>1. task'[t] = Idle /\ sub' = sub
      BY <2>4 DEF TaskRaise, TaskEnter, TaskCrash, Done, PTypeOK
    <3>2. QED
      BY <2>1, <3>1 DEF Idle
  <2>5. QED
    BY <1>5, <2>2, <2>3, <2>4 DEF TaskStep
<1>6. CASE AuctionStep
  BY <1>6 DEF AuctionStep, processes
<1>7. CASE UNCHANGED pvars
  BY <1>7 DEF pvars, processes
<1> QED
  BY <1>1, <1>2, <1>3, <1>4, <1>5, <1>6, <1>7 DEF PNext, PaymentsStep

(* An active subscription has been paid for, whatever webhooks arrive.     *)
THEOREM NobodyInUnpaid == PSpec => []ActiveIsPaid
<1>1. PSpec => [](NewsIsTrue /\ ActiveIsPaid)
  BY PTypeCorrect, NewsInit, NewsStep, PTL DEF PSpec
<1>2. QED
  BY <1>1, PTL
-----------------------------------------------------------------------------
(* The auction.                                                            *)

LEMMA StartInit == PInit => StartsArePaid /\ LiveIsPaid
BY DEF PInit, StartsArePaid, LiveIsPaid, Doing, Idle, UnderReview, Active, Ended

LEMMA StartNext ==
  PTypeOK /\ StartsArePaid /\ LiveIsPaid /\ [PNext]_pvars
    => (StartsArePaid /\ LiveIsPaid)'
<1> SUFFICES ASSUME PTypeOK, StartsArePaid, LiveIsPaid, [PNext]_pvars
             PROVE  (StartsArePaid /\ LiveIsPaid)'
  OBVIOUS
<1>1. sub[Seller] = Active => sub'[Seller] = Active
  <2>1. ASSUME NEW p \in Web, Subscribe(p) \/ MarkPaid(p) \/ WebCrash(p),
               sub[Seller] = Active
        PROVE  sub'[Seller] = Active
    BY <2>1, PaymentsAssumption
       DEF Subscribe, SubscribeCheck, SubscribeFound, SubscribeNew, SubscribeInsert,
           SubscribeCharge, SubscribeRefer, MarkPaid, PayLoad, PayCommit, WebCrash,
           PTypeOK, Pending, None, Active
  <2>2. ASSUME NEW t \in Tasks, TaskStep(t) \/ TaskCrash(t), sub[Seller] = Active
        PROVE  sub'[Seller] = Active
    BY <2>2, PaymentsAssumption
       DEF TaskStep, TaskSave, TaskSync, TaskActivate, TaskRaise, TaskGoLive,
           TaskEnter, TaskCrash, PTypeOK
  <2>3. QED
    BY <2>1, <2>2 DEF PNext, PaymentsStep, Report, TaskLoad, AuctionStep, pvars
<1>2. ASSUME NEW p \in Web, Subscribe(p) \/ WebCrash(p) \/ \E u \in Users : PayLoad(p, u)
      PROVE  (StartsArePaid /\ LiveIsPaid)'
  <2>1. UNCHANGED <<auction, task>>
    BY <1>2 DEF Subscribe, SubscribeCheck, SubscribeFound, SubscribeNew,
         SubscribeInsert, SubscribeCharge, SubscribeRefer, PayLoad, WebCrash,
         RestOfWeb
  <2>2. QED
    BY <1>1, <2>1 DEF StartsArePaid, LiveIsPaid, Doing
<1>3. ASSUME NEW p \in Web, PayCommit(p)
      PROVE  (StartsArePaid /\ LiveIsPaid)'
  <2>1. task' = task
    BY <1>3 DEF PayCommit
  <2>2. auction' = Active /\ auction # Active => sub'[Seller] = Active
    BY <1>3, PaymentsAssumption DEF PayCommit, GoLive, PTypeOK
  <2>3. auction' = auction \/ auction' = Active
    BY <1>3 DEF PayCommit, GoLive
  <2>4. QED
    BY <1>1, <2>1, <2>2, <2>3 DEF StartsArePaid, LiveIsPaid, Doing
<1>4. ASSUME NEW u \in Users, NEW s \in TxStatus, Report(u, s)
      PROVE  (StartsArePaid /\ LiveIsPaid)'
  BY <1>4 DEF Report, processes, StartsArePaid, LiveIsPaid, Doing
<1>5. ASSUME NEW t \in Tasks, NEW m \in Hook, TaskLoad(t, m)
      PROVE  (StartsArePaid /\ LiveIsPaid)'
  BY <1>5 DEF TaskLoad, RestOfTask, PTypeOK, StartsArePaid, LiveIsPaid, Doing
<1>6. ASSUME NEW t \in Tasks, TaskStep(t) \/ TaskCrash(t)
      PROVE  (StartsArePaid /\ LiveIsPaid)'
  <2>1. /\ \A s \in Tasks : s # t => task'[s] = task[s]
        /\ task[t] # Idle
        /\ task[t] \in Job
    BY <1>6, JobType
       DEF TaskStep, TaskSave, TaskSync, TaskActivate, TaskRaise, TaskGoLive,
           TaskEnter, TaskCrash, Done, Continue, PTypeOK, Doing, Idle
  <2>2. task'[t].pc \in {"golive", "entering"}
          => task'[t].user = Seller /\ sub'[Seller] = Active
    <3>1. CASE TaskActivate(t)
      BY <2>1, <3>1 DEF TaskActivate, Done, Continue, PTypeOK, Idle, Job
    <3>2. CASE TaskGoLive(t)
      BY <1>1, <2>1, <3>2
         DEF TaskGoLive, Doing, Done, Continue, PTypeOK, Idle, Job, StartsArePaid
    <3>3. CASE ~TaskActivate(t) /\ ~TaskGoLive(t)
      BY <1>6, <2>1, <3>3
         DEF TaskStep, TaskSave, TaskSync, TaskRaise, TaskEnter, TaskCrash,
             Done, Continue, PTypeOK, Idle, Job
    <3>4. QED
      BY <3>1, <3>2, <3>3
  <2>3. auction' # auction => auction' = Active /\ sub[Seller] = Active
    BY <1>6 DEF TaskStep, TaskSave, TaskSync, TaskActivate, TaskRaise, TaskGoLive,
         TaskEnter, TaskCrash, StartsArePaid, Doing
  <2>4. QED
    BY <1>1, <2>1, <2>2, <2>3 DEF StartsArePaid, LiveIsPaid, Doing
<1>7. CASE AuctionStep
  <2>1. task' = task /\ sub' = sub
    BY <1>7 DEF AuctionStep, processes
  <2>2. auction' \in {Active, Ended} => auction \in {Active, Ended}
    BY <1>7 DEF AuctionStep, UnderReview, Approved, Active, Ended, Cancelled
  <2>3. QED
    BY <2>1, <2>2 DEF StartsArePaid, LiveIsPaid, Doing
<1>8. CASE UNCHANGED pvars
  BY <1>8 DEF pvars, processes, StartsArePaid, LiveIsPaid, Doing
<1> QED
  BY <1>2, <1>3, <1>4, <1>5, <1>6, <1>7, <1>8 DEF PNext, PaymentsStep, MarkPaid

(* An auction on sale has an active seller subscription, on both databases *)
(* and also when requests about the listing race.                          *)
THEOREM NothingLiveUnpaid == PSpec => []LiveIsPaid
<1>1. PSpec => [](StartsArePaid /\ LiveIsPaid)
  BY PTypeCorrect, StartInit, StartNext, PTL DEF PSpec
<1>2. QED
  BY <1>1, PTL

LEMMA ForwardNext == PTypeOK /\ [PNext]_pvars => [ForwardStep]_pvars
<1> SUFFICES ASSUME PTypeOK, [PNext]_pvars, NEW u \in Users
             PROVE  /\ sub[u] = Active => sub'[u] = Active
                    /\ sub[u] = Pending => sub'[u] # None
  BY DEF ForwardStep
<1> USE DEF Pending, None, Active
<1>1. ASSUME NEW p \in Web, Subscribe(p) \/ MarkPaid(p) \/ WebCrash(p)
      PROVE  \/ sub' = sub
             \/ sub' = [sub EXCEPT ![web[p].user] = Active]
             \/ sub[web[p].user] = None /\ sub' = [sub EXCEPT ![web[p].user] = Pending]
  BY <1>1 DEF Subscribe, SubscribeCheck, SubscribeFound, SubscribeNew, SubscribeInsert,
       SubscribeCharge, SubscribeRefer, MarkPaid, PayLoad, PayCommit, WebCrash
<1>2. ASSUME NEW t \in Tasks, TaskStep(t) \/ TaskCrash(t)
      PROVE  sub' = sub \/ sub' = [sub EXCEPT ![task[t].user] = Active]
  BY <1>2 DEF TaskStep, TaskSave, TaskSync, TaskActivate, TaskRaise, TaskGoLive,
       TaskEnter, TaskCrash
<1>3. \/ sub' = sub
      \/ \E v : sub' = [sub EXCEPT ![v] = Active]
      \/ \E v : sub[v] = None /\ sub' = [sub EXCEPT ![v] = Pending]
  BY <1>1, <1>2 DEF PNext, PaymentsStep, Report, TaskLoad, AuctionStep, pvars
<1> QED
  BY <1>3 DEF PTypeOK

(* Subscriptions only move forward.                                        *)
THEOREM OnlyForward == PSpec => SubscriptionsMoveForward
<1>1. QED
  BY PTypeCorrect, ForwardNext, PTL DEF PSpec, SubscriptionsMoveForward
-----------------------------------------------------------------------------
(* On PostgreSQL no webhook gets as far as the status of the auction.      *)
NoneEnters == \A t \in Tasks : ~Doing(t, "entering")

LEMMA NoneEntersNext ==
  ASSUME LocksNeedTransaction
  PROVE  PTypeOK /\ NoneEnters /\ [PNext]_pvars => NoneEnters'
<1> SUFFICES ASSUME PTypeOK, NoneEnters, [PNext]_pvars
             PROVE  NoneEnters'
  OBVIOUS
<1>1. ASSUME NEW t \in Tasks, TaskStep(t) \/ TaskCrash(t)
      PROVE  NoneEnters'
  <2>1. /\ \A s \in Tasks : s # t => task'[s] = task[s]
        /\ task[t] \in Job
    BY <1>1, JobType
       DEF TaskStep, TaskSave, TaskSync, TaskActivate, TaskRaise, TaskGoLive,
           TaskEnter, TaskCrash, Done, Continue, PTypeOK, Doing, Idle
  <2>2. task'[t].pc # "entering"
    BY <1>1, <2>1
       DEF TaskStep, TaskSave, TaskSync, TaskActivate, TaskRaise, TaskGoLive,
           TaskEnter, TaskCrash, Done, Continue, PTypeOK, Doing, Idle, Job
  <2>3. QED
    BY <2>1, <2>2 DEF NoneEnters, Doing
<1>2. ASSUME NEW t \in Tasks, NEW m \in Hook, TaskLoad(t, m)
      PROVE  NoneEnters'
  BY <1>2 DEF TaskLoad, PTypeOK, NoneEnters, Doing
<1>3. ASSUME task' = task
      PROVE  NoneEnters'
  BY <1>3 DEF NoneEnters, Doing
<1>4. ASSUME NEW p \in Web, Subscribe(p) \/ MarkPaid(p) \/ WebCrash(p)
      PROVE  task' = task
  BY <1>4 DEF Subscribe, SubscribeCheck, SubscribeFound, SubscribeNew, SubscribeInsert,
       SubscribeCharge, SubscribeRefer, MarkPaid, PayLoad, PayCommit, WebCrash, RestOfWeb
<1> QED
  BY <1>1, <1>2, <1>3, <1>4
     DEF PNext, PaymentsStep, Report, AuctionStep, pvars, processes

(* With row locks, a payment starts an approved auction only.              *)
THEOREM NoLateStart ==
  ASSUME LocksNeedTransaction
  PROVE  PSpec => StartsApprovedOnly
<1>1. PInit => NoneEnters
  BY DEF PInit, NoneEnters, Doing, Idle
<1>2. NoneEnters /\ [PNext]_pvars => [StartStep]_pvars
  <2> SUFFICES ASSUME NoneEnters, [PNext]_pvars, auction' = Active
               PROVE  auction \in {Approved, Active}
    BY DEF StartStep
  <2>1. ASSUME NEW t \in Tasks, TaskStep(t) \/ TaskCrash(t)
        PROVE  auction' = auction
    BY <2>1 DEF NoneEnters, TaskStep, TaskSave, TaskSync, TaskActivate, TaskRaise,
         TaskGoLive, TaskEnter, TaskCrash
  <2>2. ASSUME NEW p \in Web, Subscribe(p) \/ MarkPaid(p) \/ WebCrash(p)
        PROVE  auction' = auction \/ auction = Approved
    BY <2>2 DEF Subscribe, SubscribeCheck, SubscribeFound, SubscribeNew,
         SubscribeInsert, SubscribeCharge, SubscribeRefer, MarkPaid, PayLoad,
         PayCommit, GoLive, WebCrash, RestOfWeb
  <2>3. QED
    BY <2>1, <2>2 DEF PNext, PaymentsStep, Report, TaskLoad, AuctionStep, pvars,
         UnderReview, Approved, Active, Ended, Cancelled
<1>3. QED
  BY <1>1, <1>2, NoneEntersNext, PTypeCorrect, PTL DEF PSpec, StartsApprovedOnly
-----------------------------------------------------------------------------
(* Subscriptions that no webhook can reach.                                *)

Serves(p, u) == (At(p, "inserted") \/ At(p, "charged")) /\ web[p].user = u

(* The requests of other processes, and those that go on, keep at it.      *)
LEMMA StillAtWork ==
  ASSUME PTypeOK, NEW p \in Web, NEW u \in Users, AtWorkFor(u),
         \A q \in Web \ {p} : web'[q] = web[q],
         Serves(p, u) => Serves(p, u)'
  PROVE  AtWorkFor(u)'
<1>1. PICK q \in Web : Serves(q, u)
  BY DEF AtWorkFor, Serves
<1>2. Serves(q, u)'
  BY <1>1 DEF Serves, At
<1> QED
  BY <1>2 DEF AtWorkFor, Serves

LEMMA WebStrands ==
  ASSUME PTypeOK, NEW p \in Web, Subscribe(p) \/ MarkPaid(p), NEW u \in Stranded'
  PROVE  u \in Stranded
<1>1. u \in Users /\ sub'[u] = Pending /\ ~tx'[u].known /\ ~AtWorkFor(u)'
  BY DEF Stranded
<1>2. \A q \in Web \ {p} : web'[q] = web[q]
  BY DEF Subscribe, SubscribeCheck, SubscribeFound, SubscribeNew, SubscribeInsert,
     SubscribeCharge, SubscribeRefer, MarkPaid, PayLoad, PayCommit, Goto, Finish, PTypeOK
<1>3. CASE UNCHANGED <<sub, tx>> /\ ~At(p, "inserted") /\ ~At(p, "charged")
  <2>1. ~AtWorkFor(u)
    BY <1>1, <1>2, <1>3, StillAtWork DEF Serves
  <2> QED
    BY <1>1, <1>3, <2>1 DEF Stranded
<1>4. CASE SubscribeInsert(p) /\ sub' # sub
  <2>1. web[p] \in Request /\ At(p, "new")
    BY <1>4, RequestType DEF SubscribeInsert, At, Idle
  <2>2. web'[p].pc = "inserted" /\ web'[p].user = web[p].user
    BY <1>4, <2>1 DEF SubscribeInsert, Goto, PTypeOK, Request
  <2>3. u # web[p].user
    BY <1>1, <2>2 DEF AtWorkFor, At
  <2>4. sub[u] = Pending /\ ~tx[u].known
    BY <1>1, <1>4, <2>3 DEF SubscribeInsert, PTypeOK
  <2>5. ~AtWorkFor(u)
    BY <1>1, <1>2, <2>1, StillAtWork DEF Serves, At
  <2> QED
    BY <1>1, <2>4, <2>5 DEF Stranded
<1>5. CASE SubscribeCharge(p)
  <2>1. web[p] \in Request /\ At(p, "inserted")
    BY <1>5, RequestType DEF SubscribeCharge, At, Idle
  <2>2. web'[p].pc = "charged" /\ web'[p].user = web[p].user
    BY <1>5, <2>1 DEF SubscribeCharge, Goto, PTypeOK, Request
  <2>3. u # web[p].user
    BY <1>1, <2>2 DEF AtWorkFor, At
  <2>4. sub[u] = Pending /\ ~tx[u].known
    BY <1>1, <1>5, <2>3 DEF SubscribeCharge, PTypeOK
  <2>5. ~AtWorkFor(u)
    BY <1>1, <1>2, <2>3, StillAtWork DEF Serves
  <2> QED
    BY <1>1, <2>4, <2>5 DEF Stranded
<1>6. CASE SubscribeRefer(p)
  <2>1. web[p] \in Request
    BY <1>6, RequestType DEF SubscribeRefer, At, Idle
  <2>2. u # web[p].user
    BY <1>1, <1>6, <2>1 DEF SubscribeRefer, PTypeOK, Request, Payment
  <2>3. sub[u] = Pending /\ ~tx[u].known
    BY <1>1, <1>6, <2>2 DEF SubscribeRefer, PTypeOK
  <2>4. ~AtWorkFor(u)
    BY <1>1, <1>2, <2>2, StillAtWork DEF Serves
  <2> QED
    BY <1>1, <2>3, <2>4 DEF Stranded
<1>7. CASE PayCommit(p)
  <2>1. web[p] \in Request /\ At(p, "paying")
    BY <1>7, RequestType DEF PayCommit, At, Idle
  <2>2. u # web[p].user
    BY <1>1, <1>7, <2>1 DEF PayCommit, PTypeOK, Request, Pending, Active
  <2>3. sub[u] = Pending /\ ~tx[u].known
    BY <1>1, <1>7, <2>2 DEF PayCommit, PTypeOK
  <2>4. ~AtWorkFor(u)
    BY <1>1, <1>2, <2>2, StillAtWork DEF Serves
  <2> QED
    BY <1>1, <2>3, <2>4 DEF Stranded
<1>8. CASE /\ ~SubscribeCharge(p) /\ ~SubscribeRefer(p) /\ ~PayCommit(p)
           /\ SubscribeInsert(p) => sub' = sub
  <2>1. \/ SubscribeFound(p) \/ SubscribeNew(p)
        \/ SubscribeInsert(p) /\ sub' = sub
        \/ \E v \in Users : SubscribeCheck(p, v)
        \/ \E v \in Users : PayLoad(p, v)
    BY <1>8 DEF Subscribe, MarkPaid
  <2>2. UNCHANGED <<sub, tx>>
    BY <2>1 DEF SubscribeFound, SubscribeNew, SubscribeInsert, SubscribeCheck, PayLoad
  <2>3. web[p].pc \in {"eligible", "new", "idle"}
    BY <2>1 DEF SubscribeFound, SubscribeNew, SubscribeInsert, SubscribeCheck, PayLoad,
       At, Idle
  <2> QED
    BY <1>3, <2>2, <2>3 DEF At
<1> QED
  BY <1>4, <1>5, <1>6, <1>7, <1>8

LEMMA OthersStrandNobody ==
  ASSUME PTypeOK, web' = web, NEW u \in Stranded',
         \/ UNCHANGED <<sub, tx>>
         \/ \E t \in Tasks : TaskStep(t)
  PROVE  u \in Stranded
<1>1. u \in Users /\ sub'[u] = Pending /\ ~tx'[u].known
  BY DEF Stranded
<1>2. ~AtWorkFor(u)
  BY DEF Stranded, AtWorkFor, At
<1>3. sub[u] = Pending /\ ~tx[u].known
  <2>1. CASE UNCHANGED <<sub, tx>>
    BY <1>1, <2>1
  <2>2. ASSUME NEW t \in Tasks, TaskStep(t)
        PROVE  sub[u] = Pending /\ ~tx[u].known
    <3>1. CASE TaskSave(t)
      BY <1>1, <3>1 DEF TaskSave, PTypeOK, Payment
    <3>2. CASE TaskActivate(t)
      BY <1>1, <3>2 DEF TaskActivate, PTypeOK, Pending, Active
    <3>3. CASE ~TaskSave(t) /\ ~TaskActivate(t)
      BY <1>1, <2>2, <3>3 DEF TaskStep, TaskSync, TaskRaise, TaskGoLive, TaskEnter
    <3> QED
      BY <3>1, <3>2, <3>3
  <2> QED
    BY <2>1, <2>2
<1> QED
  BY <1>1, <1>2, <1>3 DEF Stranded

(* A death strands at most the user whose request it was.                  *)
LEMMA DeathStrandsOne ==
  ASSUME PTypeOK, NEW p \in Web, WebCrash(p)
  PROVE  Stranded' \subseteq Stranded \cup {web[p].user}
<1> SUFFICES ASSUME NEW u \in Stranded', u # web[p].user PROVE u \in Stranded
  OBVIOUS
<1>1. u \in Users /\ sub[u] = Pending /\ ~tx[u].known /\ ~AtWorkFor(u)'
  BY DEF Stranded, WebCrash
<1>2. \A q \in Web \ {p} : web'[q] = web[q]
  BY DEF WebCrash, Finish, PTypeOK
<1>3. ~AtWorkFor(u)
  BY <1>1, <1>2, StillAtWork DEF Serves
<1> QED
  BY <1>1, <1>3 DEF Stranded

StrandedInv == IsFiniteSet(Stranded) /\ OnlyDeathStrands

LEMMA StrandedInit == PInit => StrandedInv
<1> SUFFICES ASSUME PInit PROVE StrandedInv
  OBVIOUS
<1>1. Stranded = {}
  BY DEF PInit, Stranded, None, Pending
<1> QED
  BY <1>1, FS_EmptySet DEF StrandedInv, OnlyDeathStrands, PInit

LEMMA StrandedNext == PTypeOK /\ StrandedInv /\ [PNext]_pvars => StrandedInv'
<1> SUFFICES ASSUME PTypeOK, StrandedInv, [PNext]_pvars PROVE StrandedInv'
  OBVIOUS
<1>1. /\ IsFiniteSet(Stranded)
      /\ Cardinality(Stranded) \in Nat
      /\ Cardinality(Stranded) <= crashes
      /\ crashes \in Nat
  BY FS_CardinalityType, PaymentsAssumption DEF StrandedInv, OnlyDeathStrands, PTypeOK
<1>2. CASE Stranded' \subseteq Stranded /\ crashes' \in {crashes, crashes + 1}
  <2>1. IsFiniteSet(Stranded') /\ Cardinality(Stranded') <= Cardinality(Stranded)
    BY <1>1, <1>2, FS_Subset
  <2>2. Cardinality(Stranded') \in Nat
    BY <2>1, FS_CardinalityType
  <2>3. Cardinality(Stranded') <= crashes'
    BY <1>1, <1>2, <2>1, <2>2
  <2> QED
    BY <2>1, <2>3 DEF StrandedInv, OnlyDeathStrands
<1>3. ASSUME NEW p \in Web, WebCrash(p) PROVE StrandedInv'
  <2>1. PICK s : s = Stranded \cup {web[p].user}
    OBVIOUS
  <2>2. IsFiniteSet(s) /\ Cardinality(s) <= Cardinality(Stranded) + 1 /\ Cardinality(s) \in Nat
    <3>1. /\ IsFiniteSet(s)
          /\ \/ Cardinality(s) = Cardinality(Stranded)
             \/ Cardinality(s) = Cardinality(Stranded) + 1
      BY <1>1, <2>1, FS_AddElement
    <3>2. QED
      BY <1>1, <3>1
  <2>3. Stranded' \subseteq s
    BY <1>3, <2>1, DeathStrandsOne
  <2>4. IsFiniteSet(Stranded') /\ Cardinality(Stranded') <= Cardinality(s)
    BY <2>2, <2>3, FS_Subset
  <2>5. Cardinality(Stranded') \in Nat
    BY <2>4, FS_CardinalityType
  <2>6. crashes' = crashes + 1
    BY <1>3 DEF WebCrash
  <2>7. Cardinality(Stranded') <= crashes'
    BY <1>1, <2>2, <2>4, <2>5, <2>6
  <2> QED
    BY <2>4, <2>7 DEF StrandedInv, OnlyDeathStrands
<1>4. ASSUME NEW p \in Web, Subscribe(p) \/ MarkPaid(p) PROVE StrandedInv'
  <2>1. crashes' = crashes
    BY <1>4 DEF Subscribe, SubscribeCheck, SubscribeFound, SubscribeNew, SubscribeInsert,
       SubscribeCharge, SubscribeRefer, MarkPaid, PayLoad, PayCommit, RestOfWeb
  <2> QED
    BY <1>2, <1>4, <2>1, WebStrands
<1>5. ASSUME NEW t \in Tasks, TaskStep(t) PROVE StrandedInv'
  <2>1. web' = web /\ crashes' = crashes
    BY <1>5 DEF TaskStep, TaskSave, TaskSync, TaskActivate, TaskRaise, TaskGoLive,
       TaskEnter, RestOfTask
  <2> QED
    BY <1>2, <1>5, <2>1, OthersStrandNobody
<1>6. CASE UNCHANGED <<web, sub, tx>> /\ crashes' \in {crashes, crashes + 1}
  BY <1>2, <1>6, OthersStrandNobody
<1>7. ASSUME NEW t \in Tasks, TaskCrash(t) PROVE StrandedInv'
  BY <1>6, <1>7 DEF TaskCrash
<1>8. ASSUME NEW u \in Users, NEW s \in TxStatus, Report(u, s) PROVE StrandedInv'
  BY <1>6, <1>8 DEF Report, processes
<1>9. ASSUME NEW t \in Tasks, NEW m \in Hook, TaskLoad(t, m) PROVE StrandedInv'
  BY <1>6, <1>9 DEF TaskLoad, RestOfTask
<1>10. CASE AuctionStep \/ UNCHANGED pvars
  BY <1>6, <1>10 DEF AuctionStep, pvars, processes
<1> QED
  BY <1>3, <1>4, <1>5, <1>7, <1>8, <1>9, <1>10 DEF PNext, PaymentsStep

(* Only a process that dies leaves a subscription the gateway cannot       *)
(* settle, and it leaves one at most.                                      *)
THEOREM DeathAloneStrands == PSpec => []OnlyDeathStrands
<1>1. PSpec => []StrandedInv
  BY StrandedInit, StrandedNext, PTypeCorrect, PTL DEF PSpec
<1>2. StrandedInv => OnlyDeathStrands
  BY DEF StrandedInv
<1> QED
  BY <1>1, <1>2, PTL
-----------------------------------------------------------------------------
(* The promise of Admission.                                               *)

AdmissionInv == PTypeOK /\ NewsIsTrue /\ NoneEnters

In == {u \in Users : sub[u] = Active}

(* Who is let in has paid or pays in this step; the others stay.           *)
LEMMA LettingIn ==
  ASSUME PTypeOK, NEW u \in Users, sub' = [sub EXCEPT ![u] = Active]
  PROVE  In' = In \cup {u}
BY DEF In, PTypeOK

LEMMA WebAdmits ==
  ASSUME PTypeOK, NEW p \in Web, Subscribe(p) \/ MarkPaid(p) \/ WebCrash(p)
  PROVE  [Admits!AdNext]_(Admits!advars)
<1> USE DEF In, Admits!advars
<1>1. CASE UNCHANGED <<auction, sub, paid>>
  BY <1>1
<1>2. CASE SubscribeInsert(p)
  <2>1. web[p].user \in Users
    BY <1>2, RequestType DEF SubscribeInsert, At, Idle, Request
  <2>2. UNCHANGED <<auction, paid>>
    BY <1>2 DEF SubscribeInsert, RestOfWeb, money
  <2>3. In' = In
    BY <1>2, <2>1 DEF SubscribeInsert, PTypeOK, None, Pending, Active
  <2> QED
    BY <2>2, <2>3
<1>3. CASE PayCommit(p)
  <2>1. PICK u \in Users : u = web[p].user
    BY <1>3, RequestType DEF PayCommit, At, Idle, Request
  <2>2. In' = In \cup {u}
    BY <1>3, <2>1, LettingIn DEF PayCommit
  <2>3. \/ auction' = auction
        \/ u = Seller /\ auction = Approved /\ auction' = Active
    BY <1>3, <2>1 DEF PayCommit, GoLive
  <2>4. Admits!Admit(u)
    BY <1>3, <2>1, <2>2, <2>3
       DEF PayCommit, Admits!Admit, Approved, Active, Admits!Approved, Admits!OnSale
  <2> QED
    BY <2>4 DEF Admits!AdNext
<1> QED
  BY <1>1, <1>2, <1>3
     DEF Subscribe, SubscribeCheck, SubscribeFound, SubscribeNew, SubscribeCharge,
         SubscribeRefer, MarkPaid, PayLoad, WebCrash, RestOfWeb, money

LEMMA TaskAdmits ==
  ASSUME AdmissionInv, NEW t \in Tasks, TaskStep(t) \/ TaskCrash(t)
  PROVE  [Admits!AdNext]_(Admits!advars)
<1> USE DEF In, Admits!advars
<1>1. CASE UNCHANGED <<auction, sub, paid>>
  BY <1>1
<1>2. CASE TaskActivate(t)
  <2>1. PICK u \in Users : u = task[t].user
    BY <1>2, JobType DEF AdmissionInv, TaskActivate, Doing, Idle, Job
  <2>2. u \in paid
    BY <1>2, <2>1 DEF AdmissionInv, NewsIsTrue, Past, TaskActivate, Doing
  <2>3. In' = In \cup {u} /\ UNCHANGED <<auction, paid>>
    BY <1>2, <2>1, LettingIn DEF AdmissionInv, TaskActivate, RestOfTask, money
  <2>4. Admits!Admit(u)
    BY <2>2, <2>3 DEF Admits!Admit
  <2> QED
    BY <2>4 DEF Admits!AdNext
<1>3. CASE TaskEnter(t)
  BY <1>3 DEF AdmissionInv, NoneEnters, TaskEnter
<1> QED
  BY <1>1, <1>2, <1>3
     DEF TaskStep, TaskSave, TaskSync, TaskRaise, TaskGoLive, TaskCrash, RestOfTask,
         money

LEMMA ListingDecides ==
  ASSUME AuctionStep
  PROVE  [Admits!AdNext]_(Admits!advars)
<1>1. /\ auction' \in {UnderReview, Approved, Cancelled, Ended}
      /\ auction' = Ended => auction = Active
  BY DEF AuctionStep, UnderReview, Approved, Active, Ended, Cancelled
<1>2. In' = In /\ paid' = paid
  BY DEF AuctionStep, In, money
<1>3. Admits!Decide
  BY <1>1, <1>2 DEF In, Admits!Decide, UnderReview, Approved, Active, Ended, Cancelled,
     Admits!UnderReview, Admits!Approved, Admits!OnSale, Admits!Over, Admits!Cancelled
<1> QED
  BY <1>3 DEF Admits!AdNext

LEMMA AdmissionSteps ==
  AdmissionInv /\ [PNext]_pvars => [Admits!AdNext]_(Admits!advars)
<1> SUFFICES ASSUME AdmissionInv, [PNext]_pvars
             PROVE  [Admits!AdNext]_(Admits!advars)
  OBVIOUS
<1>1. ASSUME NEW u \in Users, NEW s \in TxStatus, Report(u, s)
      PROVE  [Admits!AdNext]_(Admits!advars)
  <2>1. CASE s = Settled
    BY <1>1, <2>1 DEF Report, Admits!AdNext, Admits!Pay
  <2>2. CASE s # Settled
    BY <1>1, <2>2 DEF Report, Admits!advars
  <2> QED
    BY <2>1, <2>2
<1>2. ASSUME NEW t \in Tasks, NEW m \in Hook, TaskLoad(t, m)
      PROVE  [Admits!AdNext]_(Admits!advars)
  BY <1>2 DEF TaskLoad, RestOfTask, money, Admits!advars
<1>3. CASE UNCHANGED pvars
  BY <1>3 DEF pvars, money, Admits!advars
<1> QED
  BY <1>1, <1>2, <1>3, WebAdmits, TaskAdmits, ListingDecides
     DEF AdmissionInv, PNext, PaymentsStep

(* With row locks, payments do what Admission promises, whatever webhooks  *)
(* arrive, whatever dies and whatever the listing does meanwhile.          *)
THEOREM PaymentsAdmit ==
  ASSUME LocksNeedTransaction
  PROVE  PSpec => ImplementsAdmission
<1>1. PInit => NoneEnters
  BY DEF PInit, NoneEnters, Doing, Idle
<1>2. PInit => Admits!AdInit
  BY DEF PInit, Admits!AdInit, None, Active, UnderReview, Admits!UnderReview
<1>3. PSpec => []NoneEnters
  BY <1>1, NoneEntersNext, PTypeCorrect, PTL DEF PSpec
<1>4. PSpec => []NewsIsTrue
  BY PTypeCorrect, NewsInit, NewsStep, PTL DEF PSpec
<1>5. PTypeOK /\ NewsIsTrue /\ NoneEnters /\ [PNext]_pvars
        => [Admits!AdNext]_(Admits!advars)
  BY AdmissionSteps DEF AdmissionInv
<1> QED
  BY <1>2, <1>3, <1>4, <1>5, PTypeCorrect, PTL DEF PSpec, ImplementsAdmission, Admits!AdSpec

(* What Admission promises its reader: nobody is in unpaid, who is in      *)
(* stays in, and nothing but an approved auction is put on sale.           *)
THEOREM AdmissionMeans ==
  ImplementsAdmission =>
    /\ []ActiveIsPaid
    /\ StartsApprovedOnly
    /\ [][\A u \in Users : sub[u] = Active => sub'[u] = Active]_pvars
<1> DEFINE Stay == \A u \in Users : sub[u] = Active => sub'[u] = Active
<1>1. Admits!AdInit => ActiveIsPaid
  BY DEF Admits!AdInit, ActiveIsPaid
<1>2. [Admits!AdNext]_Admits!advars => Stay /\ StartStep
  <2>1. UNCHANGED Admits!advars => Stay /\ StartStep
    BY DEF Admits!advars, StartStep
  <2>2. Admits!Decide => Stay /\ StartStep
    BY DEF Admits!Decide, StartStep, Admits!UnderReview, Admits!Approved,
           Admits!Cancelled, Admits!Over, Active
  <2>3. ASSUME NEW u \in Users, Admits!Pay(u) \/ Admits!Admit(u)
        PROVE  Stay /\ StartStep
    BY <2>3 DEF Admits!Pay, Admits!Admit, StartStep, Admits!Approved, Approved
  <2> QED
    BY <2>1, <2>2, <2>3 DEF Admits!AdNext
<1>3. ActiveIsPaid /\ [Admits!AdNext]_Admits!advars => ActiveIsPaid'
  <2> SUFFICES ASSUME ActiveIsPaid, [Admits!AdNext]_Admits!advars PROVE ActiveIsPaid'
    OBVIOUS
  <2>1. CASE UNCHANGED Admits!advars \/ Admits!Decide
    BY <2>1 DEF Admits!advars, Admits!Decide, ActiveIsPaid
  <2>2. ASSUME NEW u \in Users, Admits!Pay(u) \/ Admits!Admit(u) PROVE ActiveIsPaid'
    BY <2>2 DEF Admits!Pay, Admits!Admit, ActiveIsPaid
  <2> QED
    BY <2>1, <2>2 DEF Admits!AdNext
<1>4. [Admits!AdNext]_Admits!advars => [StartStep]_pvars /\ [Stay]_pvars
  BY <1>2
<1> QED
  BY <1>1, <1>3, <1>4, PTL DEF ImplementsAdmission, Admits!AdSpec, StartsApprovedOnly
=============================================================================
