------------------------------ MODULE Payments ------------------------------
(***************************************************************************)
(* Subscriptions to one auction and the payments for them: the seller's    *)
(* payment starts an approved auction, a bidder's opens the bidding gate.  *)
(*                                                                         *)
(*   POST /subscriptions/            inserts the subscription, then its    *)
(*                                   payment, then the payment's reference *)
(*   POST .../mark_paid/             one transaction                       *)
(*   the gateway's webhook           a Celery task without a transaction   *)
(*                                                                         *)
(* Each write outside of a transaction is an action.  Webhooks come late,  *)
(* in any order and more than once.  The rest of the auction's life is the *)
(* environment of this module.                                             *)
(***************************************************************************)
EXTENDS Naturals, FiniteSets

CONSTANTS
  Users,                 \* the seller and the bidders
  Seller,                \* Auction.seller
  Web,                   \* web processes
  Tasks,                 \* Celery workers
  LocksNeedTransaction,  \* PostgreSQL: SELECT ... FOR UPDATE raises in
                         \* autocommit mode.  SQLite: it is left out.
  Orderly,               \* requests about the listing do not race
  MaxCrashes             \* bound of the model: processes that die

ASSUME PaymentsAssumption ==
  /\ Seller \in Users
  /\ LocksNeedTransaction \in BOOLEAN
  /\ Orderly \in BOOLEAN
  /\ MaxCrashes \in Nat

VARIABLES
  auction,   \* Auction.status
  sub,       \* AuctionSubscription.status of each user, None without a row
  tx,        \* the PaymentTransaction of each user's subscription
  paid,      \* users who have paid: at the gateway, or simulated by mark_paid
  hooks,     \* webhooks the gateway has sent
  web,       \* the request each web process is serving
  task,      \* the webhook each Celery worker is applying
  crashes

processes == <<web, task, crashes>>
money     == <<paid, hooks>>
pvars     == <<auction, sub, tx, money, processes>>
-----------------------------------------------------------------------------
UnderReview == "under_review"
Approved    == "approved"
Active      == "active"
Ended       == "ended"
Cancelled   == "cancelled"
AuctionStatus == {UnderReview, Approved, Active, Ended, Cancelled}

None      == "none"
Pending   == "pending_payment"
SubStatus == {None, Pending, Active}

(* A payment the gateway may report on: its reference is known.            *)
NoTx == [status |-> None, known |-> FALSE]
Settled  == "succeeded"
Failed   == "failed"
Awaiting == "pending"
TxStatus == {Settled, Failed, Awaiting}
Payment  == [status: TxStatus \cup {None}, known: BOOLEAN]

Hook == [user: Users, status: TxStatus]

Idle    == [pc |-> "idle"]
Request == [pc: {"eligible", "new", "inserted", "charged", "paying"}, user: Users]
Job     == [pc: {"loaded", "saved", "activating", "golive", "entering"},
            user: Users, status: TxStatus]

At(p, step) == web[p].pc = step
Doing(t, step) == task[t].pc = step
-----------------------------------------------------------------------------
PInit ==
  /\ auction = UnderReview
  /\ sub = [u \in Users |-> None]
  /\ tx = [u \in Users |-> NoTx]
  /\ paid = {}
  /\ hooks = {}
  /\ web = [p \in Web |-> Idle]
  /\ task = [t \in Tasks |-> Idle]
  /\ crashes = 0
-----------------------------------------------------------------------------
(* POST /subscriptions/.                                                   *)

Goto(p, step) == web' = [web EXCEPT ![p].pc = step]
Finish(p)     == web' = [web EXCEPT ![p] = Idle]
RestOfWeb     == UNCHANGED <<auction, money, task, crashes>>

Eligible(u) == auction = IF u = Seller THEN Approved ELSE Active

SubscribeCheck(p, u) ==
  /\ web[p] = Idle
  /\ Eligible(u)
  /\ web' = [web EXCEPT ![p] = [pc |-> "eligible", user |-> u]]
  /\ UNCHANGED <<sub, tx>>
  /\ RestOfWeb

(* The row of an earlier request is returned, or refused if already paid.  *)
SubscribeFound(p) ==
  /\ At(p, "eligible")
  /\ sub[web[p].user] # None
  /\ Finish(p)
  /\ UNCHANGED <<sub, tx>>
  /\ RestOfWeb

SubscribeNew(p) ==
  /\ At(p, "eligible")
  /\ sub[web[p].user] = None
  /\ Goto(p, "new")
  /\ UNCHANGED <<sub, tx>>
  /\ RestOfWeb

(* The unique constraint on auction and user refuses a second row.         *)
InsertMutant(p) ==                  \* without uniq_subscription_auction_user
  /\ At(p, "new")
  /\ sub' = [sub EXCEPT ![web[p].user] = Pending]
  /\ Goto(p, "inserted")
  /\ UNCHANGED tx
  /\ RestOfWeb

SubscribeInsert(p) ==
  /\ At(p, "new")
  /\ IF sub[web[p].user] = None
     THEN /\ sub' = [sub EXCEPT ![web[p].user] = Pending]
          /\ Goto(p, "inserted")
     ELSE UNCHANGED sub /\ Finish(p)
  /\ UNCHANGED tx
  /\ RestOfWeb

ChargeMutant(p) ==                  \* the reference is not saved
  /\ At(p, "inserted")
  /\ tx' = [tx EXCEPT ![web[p].user] = [status |-> Awaiting, known |-> FALSE]]
  /\ Finish(p)
  /\ UNCHANGED sub
  /\ RestOfWeb

SubscribeCharge(p) ==
  /\ At(p, "inserted")
  /\ tx' = [tx EXCEPT ![web[p].user] = [status |-> Awaiting, known |-> FALSE]]
  /\ Goto(p, "charged")
  /\ UNCHANGED sub
  /\ RestOfWeb

SubscribeRefer(p) ==
  /\ At(p, "charged")
  /\ tx' = [tx EXCEPT ![web[p].user].known = TRUE]
  /\ Finish(p)
  /\ UNCHANGED sub
  /\ RestOfWeb
-----------------------------------------------------------------------------
(* Seller payment activates an approved auction, under its row lock.       *)
GoLiveMutant(u) ==                  \* the status is not checked
  auction' = IF u = Seller THEN Active ELSE auction

GoLive(u) ==
  auction' = IF u = Seller /\ auction = Approved THEN Active ELSE auction

(* POST .../mark_paid/, for a subscription that was loaded as pending.     *)
PayLoad(p, u) ==
  /\ web[p] = Idle
  /\ sub[u] = Pending
  /\ web' = [web EXCEPT ![p] = [pc |-> "paying", user |-> u]]
  /\ UNCHANGED <<sub, tx>>
  /\ RestOfWeb

PayCommit(p) ==
  LET u == web[p].user IN
  /\ At(p, "paying")
  /\ tx' = [tx EXCEPT ![u] = IF @ = NoTx THEN @ ELSE [@ EXCEPT !.status = Settled]]
  /\ sub' = [sub EXCEPT ![u] = Active]
  /\ GoLive(u)
  /\ paid' = paid \cup {u}
  /\ Finish(p)
  /\ UNCHANGED <<hooks, task, crashes>>

WebCrash(p) ==
  /\ web[p] # Idle
  /\ crashes < MaxCrashes
  /\ crashes' = crashes + 1
  /\ Finish(p)
  /\ UNCHANGED <<auction, sub, tx, money, task>>
-----------------------------------------------------------------------------
(* The gateway.  It reports the success of a payment it has taken; while   *)
(* it has not it may report attempts.                                      *)
Report(u, status) ==
  /\ tx[u].known
  /\ status = Settled \/ u \notin paid
  /\ hooks' = hooks \cup {[user |-> u, status |-> status]}
  /\ paid' = IF status = Settled THEN paid \cup {u} ELSE paid
  /\ UNCHANGED <<auction, sub, tx, processes>>
-----------------------------------------------------------------------------
(* apply_payment_webhook_payload and sync_subscription_payment_state.      *)

Continue(t, step) == task' = [task EXCEPT ![t].pc = step]
Done(t)           == task' = [task EXCEPT ![t] = Idle]
RestOfTask        == UNCHANGED <<money, web, crashes>>

TaskLoad(t, m) ==
  /\ task[t] = Idle
  /\ m \in hooks
  /\ task' = [task EXCEPT ![t] = [pc |-> "loaded", user |-> m.user,
                                  status |-> m.status]]
  /\ UNCHANGED <<auction, sub, tx>>
  /\ RestOfTask

(* Only a settled payment is synchronised with its subscription.           *)
TaskSaveMutant(t) ==                \* whatever the status
  /\ Doing(t, "loaded")
  /\ tx' = [tx EXCEPT ![task[t].user].status = task[t].status]
  /\ Continue(t, "saved")
  /\ UNCHANGED <<auction, sub>>
  /\ RestOfTask

TaskSave(t) ==
  /\ Doing(t, "loaded")
  /\ tx' = [tx EXCEPT ![task[t].user].status = task[t].status]
  /\ IF task[t].status = Settled THEN Continue(t, "saved") ELSE Done(t)
  /\ UNCHANGED <<auction, sub>>
  /\ RestOfTask

TaskSync(t) ==
  /\ Doing(t, "saved")
  /\ IF sub[task[t].user] = Pending THEN Continue(t, "activating") ELSE Done(t)
  /\ UNCHANGED <<auction, sub, tx>>
  /\ RestOfTask

TaskActivateMutant(t) ==            \* the auction first, then never the row
  /\ Doing(t, "activating")
  /\ IF task[t].user = Seller THEN Continue(t, "golive") ELSE Done(t)
  /\ UNCHANGED <<auction, sub, tx>>
  /\ RestOfTask

TaskActivate(t) ==
  /\ Doing(t, "activating")
  /\ sub' = [sub EXCEPT ![task[t].user] = Active]
  /\ IF task[t].user = Seller THEN Continue(t, "golive") ELSE Done(t)
  /\ UNCHANGED <<auction, tx>>
  /\ RestOfTask

(* The FOR UPDATE outside of a transaction.                                *)
TaskRaise(t) ==
  /\ Doing(t, "golive")
  /\ LocksNeedTransaction
  /\ Done(t)
  /\ UNCHANGED <<auction, sub, tx>>
  /\ RestOfTask

TaskGoLiveMutant(t) ==              \* asks for a status of an earlier stage
  /\ Doing(t, "golive")
  /\ ~LocksNeedTransaction
  /\ IF auction = UnderReview THEN Continue(t, "entering") ELSE Done(t)
  /\ UNCHANGED <<auction, sub, tx>>
  /\ RestOfTask

TaskGoLive(t) ==
  /\ Doing(t, "golive")
  /\ ~LocksNeedTransaction
  /\ IF auction = Approved THEN Continue(t, "entering") ELSE Done(t)
  /\ UNCHANGED <<auction, sub, tx>>
  /\ RestOfTask

TaskEnter(t) ==
  /\ Doing(t, "entering")
  /\ auction' = Active
  /\ Done(t)
  /\ UNCHANGED <<sub, tx>>
  /\ RestOfTask

TaskCrash(t) ==
  /\ task[t] # Idle
  /\ crashes < MaxCrashes
  /\ crashes' = crashes + 1
  /\ Done(t)
  /\ UNCHANGED <<auction, sub, tx, money, web>>
-----------------------------------------------------------------------------
Subscribe(p) ==
  \/ \E u \in Users : SubscribeCheck(p, u)
  \/ SubscribeFound(p)
  \/ SubscribeNew(p)
  \/ SubscribeInsert(p)
  \/ SubscribeCharge(p)
  \/ SubscribeRefer(p)

MarkPaid(p) == (\E u \in Users : PayLoad(p, u)) \/ PayCommit(p)

TaskStep(t) ==
  \/ TaskSave(t)
  \/ TaskSync(t)
  \/ TaskActivate(t)
  \/ TaskRaise(t)
  \/ TaskGoLive(t)
  \/ TaskEnter(t)

PaymentsStep ==
  \/ \E p \in Web : Subscribe(p) \/ MarkPaid(p) \/ WebCrash(p)
  \/ \E u \in Users, s \in TxStatus : Report(u, s)
  \/ \E t \in Tasks : TaskStep(t) \/ TaskCrash(t)
  \/ \E t \in Tasks, m \in Hook : TaskLoad(t, m)

(* The review, the seller's cancel and the close.  A request about the     *)
(* listing that raced another one saves a status that was decided earlier. *)
AuctionStep ==
  /\ \/ auction = UnderReview /\ auction' \in {Approved, Cancelled}
     \/ auction = Approved /\ auction' = Cancelled
     \/ auction = Active /\ auction' = Ended
     \/ ~Orderly /\ auction' \in {UnderReview, Approved, Cancelled}
  /\ UNCHANGED <<sub, tx, money, processes>>

PNext == PaymentsStep \/ AuctionStep

PSpec == PInit /\ [][PNext]_pvars

(* The news of a success is taken from Celery's queue at least once and    *)
(* the workers run.  Nothing is asked of the gateway or of other webhooks. *)
Taken(u) ==
  \E t \in Tasks : Doing(t, "loaded") /\ task[t].user = u /\ task[t].status = Settled

PFairness ==
  /\ \A u \in Users :
       <>([user |-> u, status |-> Settled] \in hooks) => <>Taken(u)
  /\ \A t \in Tasks : WF_pvars(TaskStep(t))

FairPSpec == PSpec /\ PFairness
-----------------------------------------------------------------------------
(* UnderReview stands for every status before the approval.                *)
PTypeOK ==
  /\ auction \in AuctionStatus
  /\ sub \in [Users -> SubStatus]
  /\ tx \in [Users -> Payment]
  /\ paid \subseteq Users
  /\ hooks \subseteq Hook
  /\ web \in [Web -> Request \cup {Idle}]
  /\ task \in [Tasks -> Job \cup {Idle}]
  /\ crashes \in 0 .. MaxCrashes

(* Nobody gets in without paying: whatever webhooks arrive, in whatever    *)
(* order, an active subscription belongs to somebody whose money has come. *)
ActiveIsPaid == \A u \in Users : sub[u] = Active => u \in paid

(* An auction that has gone live has a paid seller subscription, although  *)
(* the two rows are not written together by a webhook.                     *)
LiveIsPaid == auction \in {Active, Ended} => sub[Seller] = Active

(* Subscriptions only move forward: two requests for the same auction, and *)
(* a request that races the payment of an earlier one, do not put a paid   *)
(* subscription back to pending.                                           *)
ForwardStep ==
  \A u \in Users : /\ sub[u] = Active => sub'[u] = Active
                   /\ sub[u] = Pending => sub'[u] # None

SubscriptionsMoveForward == [][ForwardStep]_pvars

(* A payment starts an auction at most once and never one the seller has   *)
(* cancelled meanwhile or that is over.                                    *)
StartStep == auction' = Active => auction \in {Approved, Active}

StartsApprovedOnly == [][StartStep]_pvars

(* A pending subscription whose payment has no reference, with no request  *)
(* at work on it, is beyond the gateway for good: a repeated request finds *)
(* the row and leaves it as it is.  Each of them is the trace of a request *)
(* that died between the writes; no repetition and no race makes one.      *)
AtWorkFor(u) == \E p \in Web : (At(p, "inserted") \/ At(p, "charged")) /\ web[p].user = u

Stranded == {u \in Users : sub[u] = Pending /\ ~tx[u].known /\ ~AtWorkFor(u)}

OnlyDeathStrands == Cardinality(Stranded) <= crashes

(* The promise of Admission: who is in has paid and stays in, and a        *)
(* payment of the seller, in the step that lets the seller in, is all that *)
(* puts an approved auction on sale.                                       *)
Admits == INSTANCE Admission WITH
  phase <- auction,
  in    <- {u \in Users : sub[u] = Active}

ImplementsAdmission == Admits!AdSpec

(* Whoever has paid is let in.                                             *)
PaidIsLetIn == \A u \in Users : (u \in paid ~> sub[u] = Active)

(* Seller payment makes an approved auction go live (or it is cancelled).  *)
PaidGoesLive == (Seller \in paid /\ auction = Approved ~> auction # Approved)
=============================================================================
