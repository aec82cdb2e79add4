------------------------------ MODULE Bidding ------------------------------
(***************************************************************************)
(* One live auction: the bids placed on it, its price, its deadline and    *)
(* the three code paths that may close it.                                 *)
(*                                                                         *)
(*   bidding.services.place_bid           one transaction that holds the   *)
(*                                        auction row FOR UPDATE           *)
(*   auctions.tasks.close_due_auctions    lists the due ids, then closes   *)
(*                                        each of them under the row lock  *)
(*   AuctionViewSet.retrieve              a GET: loads the row WITHOUT a   *)
(*                                        lock and closes what it loaded   *)
(*                                                                         *)
(* A worker is a web process serving one POST .../bids/ at a time, a       *)
(* reader one serving a GET.  What a transaction has loaded is kept in     *)
(* its record, as the Auction instance is in the code: every write uses    *)
(* the loaded values and not the row's.  Steps that only touch rows the    *)
(* transaction has locked, or that nobody sees before the commit, are one  *)
(* action with the commit.  The clock counts seconds.                      *)
(*                                                                         *)
(* The auction is ACTIVE initially: how it gets there is another part of   *)
(* the system.  Money is in units of the smallest coin.                    *)
(***************************************************************************)
EXTENDS Integers, Sequences, FiniteSets

CONSTANTS
  Users,           \* registered users who may bid
  Suspects,        \* users the staff or the risk score may shadow ban
  Keys,            \* Idempotency-Key values
  NoKey,           \* the header is absent
  Workers,         \* processes serving POST bids
  Readers,         \* processes serving GET auction detail
  Amounts,         \* the amounts users ask for
  StartPrice,      \* Auction.start_price
  MinIncrement,    \* Auction.min_bid_increment
  FirstDeadline,   \* ends_at as set on activation
  ExtensionEnabled,\* ProductSettings.auction_extension_enabled
  Trigger,         \* ProductSettings.extension_trigger_seconds
  ForceSeconds,    \* settings.ANTI_SNIPE_FORCE_SECONDS
  Extension,       \* ProductSettings.extension_minutes, in seconds
  SilentShadow,    \* settings.SHADOW_BID_SILENT_PUBLICATION
  MaxPerSecond,    \* settings.BID_MAX_PER_SECOND_PER_USER, 0 = no limit
  MinPriorRun,     \* settings.RISK_SELF_OUTBID_MIN_PRIOR_RUN
  MaxBids,         \* bound of the model: rows in the bids table
  MaxTime          \* bound of the model: the last second

ASSUME SetsAssumption ==
  /\ NoKey \notin Keys
  /\ Suspects \subseteq Users
  /\ Amounts \subseteq Nat
  /\ SilentShadow \in BOOLEAN
  /\ ExtensionEnabled \in BOOLEAN

ASSUME NumbersAssumption ==
  /\ StartPrice \in Nat
  /\ MinIncrement \in Nat
  /\ FirstDeadline \in Nat
  /\ Trigger \in Nat
  /\ ForceSeconds \in Nat
  /\ Extension \in Nat
  /\ MaxPerSecond \in Nat
  /\ MinPriorRun \in Nat \ {0}
  /\ MaxBids \in Nat
  /\ MaxTime \in Nat

VARIABLES
  clock,       \* wall clock, seconds
  \* ---- the database, as committed
  status,      \* Auction.status
  endsAt,      \* Auction.ends_at (and extend_deadline)
  extCount,    \* Auction.extension_count
  price,       \* Auction.current_price
  actualEnd,   \* Auction.actual_end_at
  bids,        \* the bids table of the auction, in order of insertion
  idem,        \* BidIdempotency rows
  snapshots,   \* AuctionPriceSnapshot rows, in order of insertion
  bidCount,    \* UserStats.total_bids, the share of this auction
  subscribed,  \* users whose AuctionSubscription is ACTIVE
  shadow,      \* users the staff or the risk score has shadow banned
  flagged,     \* users whose risk score the self-outbid signal has raised
  \* ---- the cache
  rate,        \* attempts of each user in the current second
  \* ---- processes
  txn,         \* the open place_bid transaction of each worker
  answer,      \* the response to a POST that the last step has sent
  reader,      \* the GET request each reader is serving
  selected,    \* close_due_auctions has listed this auction
  \* ---- after commit
  feed         \* bids announced to the WebSocket group and queued for the
               \* fraud task

row    == <<status, endsAt, extCount, price, actualEnd>>
ledger == <<bids, idem, snapshots, bidCount, flagged>>
people == <<subscribed, shadow>>
vars   == <<clock, row, ledger, people, rate, txn, answer, reader, selected,
            feed>>
-----------------------------------------------------------------------------
Active           == "active"
Scheduled        == "scheduled"
Ended            == "ended"
EndedWithoutBids == "ended_without_bids"
Status           == {Active, Scheduled, Ended, EndedWithoutBids}
Closed           == {Ended, EndedWithoutBids}

NotEnded == -1     \* actual_end_at is null
NoBid    == 0      \* no row of the bids table

Bid == [bidder: Users, amount: Nat, status: {"accepted", "outbid"},
        suppressed: BOOLEAN, extended: BOOLEAN, placed: Nat, counted: Nat]

(* A request that no transaction has been opened for. *)
NoTxn == [pc |-> "idle"]

Txn == [pc: {"checked"}, user: Users, amount: Amounts, key: Keys \cup {NoKey},
        now: Nat, price: Nat, endsAt: Nat, extCount: Nat, suppress: BOOLEAN]

NoAnswer == [pc |-> "none"]
Response == [pc: {"sent"}, user: Users, key: Keys \cup {NoKey}, bid: Nat]

NoGet == [pc |-> "idle"]
Get == [pc: {"loaded"}, status: Status, endsAt: Nat]
         \cup [pc: {"closing"}, result: Closed, now: Nat]

(* Bids everybody may see, and among them those not yet outbid. *)
Public   == {i \in DOMAIN bids : ~bids[i].suppressed}
Accepted == {i \in Public : bids[i].status = "accepted"}

(* SELECT ... FOR UPDATE and UPDATE of the row wait for this. *)
Unlocked == \A w \in Workers : txn[w] = NoTxn
-----------------------------------------------------------------------------
(* A definition named ...Mutant is what a plausible mistake would make of  *)
(* the definition that follows it; no other definition uses it.            *)

IsDueMutant(st, deadline, now) ==                \* a second too early
  deadline <= now /\ st \in {Active, Scheduled}

(* maybe_close_auction as a function of what its caller has loaded. *)
IsDue(st, deadline, now) == deadline < now /\ st \in {Active, Scheduled}

ClosedStatus(st, hasBids) ==
  IF st = Active /\ hasBids THEN Ended ELSE EndedWithoutBids

InWindowMutant(deadline, now) ==    \* the trigger second left out
  LET remaining == deadline - now
  IN  ExtensionEnabled /\ remaining > 0 /\ (remaining < Trigger \/ remaining < ForceSeconds)

(* Anti-sniping: is a bid placed at now late enough to move the deadline? *)
InWindow(deadline, now) ==
  LET remaining == deadline - now
  IN  /\ ExtensionEnabled
      /\ remaining > 0
      /\ remaining <= Trigger \/ remaining < ForceSeconds

(* consecutive_accepted_bids_by_user: the newest accepted public bids, as  *)
(* long as they are the user's.                                            *)
OwnRun(u) ==
  {i \in Accepted : \A j \in Accepted : j >= i => bids[j].bidder = u}

SelfOutbidding(u) == Cardinality(OwnRun(u)) >= MinPriorRun

(* assert_bid_rate_allowed counts the attempt, then compares.  The counter *)
(* stops one above the limit, where it no longer makes a difference.       *)
CountAttempt(u) ==
  rate' = [rate EXCEPT ![u] = IF @ > MaxPerSecond THEN @ ELSE @ + 1]
ThrottledMutant(u) == MaxPerSecond > 0 /\ rate[u] > MaxPerSecond   \* one too many
Throttled(u) == MaxPerSecond > 0 /\ rate[u] >= MaxPerSecond

LookupLostMutant(u, k) == {}                     \* replays not recognised
Lookup(u, k) == {e \in idem : e.user = u /\ e.key = k}
-----------------------------------------------------------------------------
Init ==
  /\ clock = 0
  /\ status = Active
  /\ endsAt = FirstDeadline
  /\ extCount = 0
  /\ price = StartPrice
  /\ actualEnd = NotEnded
  /\ bids = <<>>
  /\ idem = {}
  /\ snapshots = <<>>
  /\ bidCount = [u \in Users |-> 0]
  /\ subscribed = {}
  /\ shadow = {}
  /\ flagged = {}
  /\ rate = [u \in Users |-> 0]
  /\ txn = [w \in Workers |-> NoTxn]
  /\ answer = NoAnswer
  /\ reader = [r \in Readers |-> NoGet]
  /\ selected = FALSE
  /\ feed = {}
-----------------------------------------------------------------------------
(* The clock, the staff and the payments of bidders.                       *)
Tick ==
  /\ clock < MaxTime
  /\ clock' = clock + 1
  /\ rate' = [u \in Users |-> 0]     \* the cache key names the second
  /\ answer' = NoAnswer
  /\ UNCHANGED <<row, ledger, people, txn, reader, selected, feed>>

Subscribe(u) ==
  /\ u \notin subscribed
  /\ subscribed' = subscribed \cup {u}
  /\ answer' = NoAnswer
  /\ UNCHANGED <<clock, row, ledger, shadow, rate, txn, reader, selected, feed>>

ToggleShadow(u) ==
  /\ shadow' = IF u \in shadow THEN shadow \ {u} ELSE shadow \cup {u}
  /\ answer' = NoAnswer
  /\ UNCHANGED <<clock, row, ledger, subscribed, rate, txn, reader, selected,
                 feed>>
-----------------------------------------------------------------------------
(* place_bid, from the row lock to the idempotency lookup.                 *)
OpenMutant == endsAt >= clock                    \* the status is not asked
Open == status = Active /\ endsAt >= clock

LockMutant(w) == txn[w] = NoTxn                  \* get() without FOR UPDATE
Lock(w) == txn[w] = NoTxn /\ Unlocked

Answer(u, k, b) ==
  answer' = [pc |-> "sent", user |-> u, key |-> k, bid |-> b]

KeepBooks == UNCHANGED <<clock, row, ledger, people, reader, selected, feed>>

(* A ValidationError, which also rolls back the close of maybe_close.      *)
BidNotOpen(w, u, k) ==
  /\ Lock(w)
  /\ ~Open
  /\ Answer(u, k, NoBid)
  /\ UNCHANGED <<txn, rate>>
  /\ KeepBooks

BidReplay(w, u, k) ==
  /\ Lock(w)
  /\ Open
  /\ \E e \in Lookup(u, k) : Answer(u, k, e.bid)
  /\ UNCHANGED <<txn, rate>>
  /\ KeepBooks

(* 403 for the banned when bids are not swallowed silently.                *)
BidForbidden(w, u, k) ==
  /\ Lock(w)
  /\ Open
  /\ Lookup(u, k) = {}
  /\ ~SilentShadow /\ u \in shadow
  /\ Answer(u, k, NoBid)
  /\ UNCHANGED <<txn, rate>>
  /\ KeepBooks

BidCheck(w, u, a, k) ==
  /\ Lock(w)
  /\ Open
  /\ Lookup(u, k) = {}
  /\ SilentShadow \/ u \notin shadow
  /\ txn' = [txn EXCEPT ![w] =
               [pc |-> "checked", user |-> u, amount |-> a, key |-> k,
                now |-> clock, price |-> price, endsAt |-> endsAt,
                extCount |-> extCount, suppress |-> SilentShadow /\ u \in shadow]]
  /\ answer' = NoAnswer
  /\ UNCHANGED rate
  /\ KeepBooks
-----------------------------------------------------------------------------
(* place_bid, from the rate limit to the commit; the lock is held.         *)
Extends(t) == ~t.suppress /\ InWindow(t.endsAt, t.now)

NewDeadlineMutant(t) ==                          \* extends from now
  IF Extends(t) THEN t.now + Extension ELSE t.endsAt
NewDeadline(t) == IF Extends(t) THEN t.endsAt + Extension ELSE t.endsAt

AdmissibleMutant(t) ==                           \* no minimum increment
  /\ Extends(t) => NewDeadline(t) >= clock
  /\ t.user \in subscribed
  /\ t.amount > t.price

Admissible(t) ==
  /\ Extends(t) => NewDeadline(t) >= clock
  /\ t.user \in subscribed
  /\ t.amount > t.price
  /\ t.amount - t.price >= MinIncrement

Release(w) == txn' = [txn EXCEPT ![w] = NoTxn]

RefuseMutant(w) ==                   \* without @transaction.atomic
  LET t == txn[w] IN
  /\ t.pc = "checked"
  /\ Throttled(t.user) \/ ~Admissible(t)
  /\ CountAttempt(t.user)
  /\ endsAt' = IF Throttled(t.user) THEN endsAt ELSE NewDeadline(t)
  /\ extCount' = IF ~Throttled(t.user) /\ Extends(t) THEN extCount + 1 ELSE extCount
  /\ Release(w)
  /\ Answer(t.user, t.key, NoBid)
  /\ UNCHANGED <<clock, status, price, actualEnd, ledger, people, reader,
                 selected, feed>>

(* Throttled or refused: nothing of the transaction stays but the count of *)
(* the attempt, which is in the cache.                                     *)
BidRefuse(w) ==
  LET t == txn[w] IN
  /\ t.pc = "checked"
  /\ Throttled(t.user) \/ ~Admissible(t)
  /\ CountAttempt(t.user)
  /\ Release(w)
  /\ Answer(t.user, t.key, NoBid)
  /\ KeepBooks

(* The worker or its connection dies: the database rolls back.             *)
BidCrash(w) ==
  /\ txn[w].pc = "checked"
  /\ Release(w)
  /\ answer' = NoAnswer
  /\ UNCHANGED rate
  /\ KeepBooks

NewBid(t) ==
  [bidder |-> t.user, amount |-> t.amount, status |-> "accepted",
   suppressed |-> t.suppress, extended |-> Extends(t), placed |-> t.now,
   counted |-> clock]

(* Every public bid that leads is outbid.                                  *)
Outbid == [i \in DOMAIN bids |-> IF i \in Accepted
                                 THEN [bids[i] EXCEPT !.status = "outbid"]
                                 ELSE bids[i]]

(* What a shadow bid leaves alone, and what a public bid does.             *)
InsertSuppressed(t) ==
  /\ t.suppress
  /\ bids' = Append(bids, NewBid(t))
  /\ UNCHANGED <<row, snapshots, bidCount>>

InsertPublic(t, id) ==
  /\ ~t.suppress
  /\ bids' = Append(Outbid, NewBid(t))
  /\ endsAt' = NewDeadline(t)
  /\ extCount' = IF Extends(t) THEN t.extCount + 1 ELSE t.extCount
  /\ price' = t.amount
  /\ snapshots' = Append(snapshots, [bid |-> id, previous |-> t.price,
                                     new |-> t.amount])
  /\ bidCount' = [bidCount EXCEPT ![t.user] = @ + 1]
  /\ UNCHANGED <<status, actualEnd>>

BidCommit(w) ==
  LET t  == txn[w]
      id == Len(bids) + 1
  IN
  /\ t.pc = "checked"
  /\ id <= MaxBids
  /\ ~Throttled(t.user)
  /\ CountAttempt(t.user)
  /\ Admissible(t)
  /\ flagged' = IF SelfOutbidding(t.user) THEN flagged \cup {t.user} ELSE flagged
  /\ InsertSuppressed(t) \/ InsertPublic(t, id)
  /\ idem' = IF t.key = NoKey THEN idem
             ELSE idem \cup {[user |-> t.user, key |-> t.key, bid |-> id]}
  /\ Release(w)
  /\ Answer(t.user, t.key, id)
  /\ UNCHANGED <<clock, people, reader, selected, feed>>
-----------------------------------------------------------------------------
(* close_due_auctions: the listing, then the close under the row lock.     *)
CloseRow(newStatus, now) ==
  /\ status' = newStatus
  /\ actualEnd' = now
  /\ UNCHANGED <<endsAt, extCount, price>>

SweepListMutant ==                               \* misses extended auctions
  /\ ~selected
  /\ extCount = 0
  /\ IsDue(status, endsAt, clock)
  /\ selected' = TRUE
  /\ answer' = NoAnswer
  /\ UNCHANGED <<clock, row, ledger, people, rate, txn, reader, feed>>

SweepList ==
  /\ ~selected
  /\ IsDue(status, endsAt, clock)
  /\ selected' = TRUE
  /\ answer' = NoAnswer
  /\ UNCHANGED <<clock, row, ledger, people, rate, txn, reader, feed>>

SweepCloseMutant ==                              \* closes what it listed
  /\ selected
  /\ Unlocked
  /\ selected' = FALSE
  /\ CloseRow(ClosedStatus(status, Public # {}), clock)
  /\ answer' = NoAnswer
  /\ UNCHANGED <<clock, ledger, people, rate, txn, reader, feed>>

SweepUnlockedMutant ==                           \* does not wait for the lock
  /\ selected
  /\ selected' = FALSE
  /\ IF IsDue(status, endsAt, clock)
     THEN CloseRow(ClosedStatus(status, Public # {}), clock)
     ELSE UNCHANGED row
  /\ answer' = NoAnswer
  /\ UNCHANGED <<clock, ledger, people, rate, txn, reader, feed>>

SweepClose ==
  /\ selected
  /\ Unlocked
  /\ selected' = FALSE
  /\ IF IsDue(status, endsAt, clock)
     THEN CloseRow(ClosedStatus(status, Public # {}), clock)
     ELSE UNCHANGED row
  /\ answer' = NoAnswer
  /\ UNCHANGED <<clock, ledger, people, rate, txn, reader, feed>>
-----------------------------------------------------------------------------
(* retrieve: the instance is loaded, maybe_close_auction decides on it and *)
(* looks for bids, then its UPDATE waits for the row lock only.            *)
RestOfGet ==
  /\ answer' = NoAnswer
  /\ UNCHANGED <<clock, ledger, people, rate, txn, selected, feed>>

GetLoad(r) ==
  /\ reader[r] = NoGet
  /\ reader' = [reader EXCEPT ![r] = [pc |-> "loaded", status |-> status,
                                      endsAt |-> endsAt]]
  /\ UNCHANGED row
  /\ RestOfGet

GetDecide(r) ==
  LET g == reader[r] IN
  /\ g.pc = "loaded"
  /\ reader' = [reader EXCEPT ![r] =
                  IF IsDue(g.status, g.endsAt, clock)
                  THEN [pc |-> "closing", now |-> clock,
                        result |-> ClosedStatus(g.status, Public # {})]
                  ELSE NoGet]
  /\ UNCHANGED row
  /\ RestOfGet

GetClose(r) ==
  /\ reader[r].pc = "closing"
  /\ Unlocked
  /\ CloseRow(reader[r].result, reader[r].now)
  /\ reader' = [reader EXCEPT ![r] = NoGet]
  /\ RestOfGet
-----------------------------------------------------------------------------
AnnounceMutant(id) ==                            \* shadow bids too
  /\ id \notin feed
  /\ feed' = feed \cup {id}
  /\ answer' = NoAnswer
  /\ UNCHANGED <<clock, row, ledger, people, rate, txn, reader, selected>>

(* on_commit: the broadcast, then the fraud task.  The callbacks of two    *)
(* commits run in different processes, in any order, and one that raises   *)
(* or dies with its process never happens.                                 *)
Announce(id) ==
  /\ id \notin feed
  /\ ~bids[id].suppressed
  /\ feed' = feed \cup {id}
  /\ answer' = NoAnswer
  /\ UNCHANGED <<clock, row, ledger, people, rate, txn, reader, selected>>
-----------------------------------------------------------------------------
BidFinish(w) == BidRefuse(w) \/ BidCommit(w) \/ BidCrash(w)

PlaceBid(w) ==
  \/ \E u \in Users, k \in Keys \cup {NoKey} :
       \/ BidNotOpen(w, u, k)
       \/ BidReplay(w, u, k)
       \/ BidForbidden(w, u, k)
       \/ \E a \in Amounts : BidCheck(w, u, a, k)
  \/ BidFinish(w)

Retrieve(r) == GetLoad(r) \/ GetDecide(r) \/ GetClose(r)

Next ==
  \/ Tick
  \/ \E u \in Users : Subscribe(u)
  \/ \E u \in Suspects : ToggleShadow(u)
  \/ \E w \in Workers : PlaceBid(w)
  \/ SweepList
  \/ SweepClose
  \/ \E r \in Readers : Retrieve(r)
  \/ \E id \in DOMAIN bids : Announce(id)

Spec == Init /\ [][Next]_vars

(* celery-beat runs the sweep every minute, a transaction is committed or  *)
(* rolled back in bounded time, and the row lock is granted in the order   *)
(* it was asked for: a stream of other holders cannot starve the sweep.    *)
(* Time passes.                                                            *)
Fairness ==
  /\ WF_vars(Tick)
  /\ WF_vars(SweepList)
  /\ SF_vars(SweepClose)
  /\ \A w \in Workers : WF_vars(BidFinish(w))

FairSpec == Spec /\ Fairness
-----------------------------------------------------------------------------
TypeOK ==
  /\ clock \in Nat
  /\ status \in Status
  /\ endsAt \in Nat
  /\ extCount \in Nat
  /\ price \in Nat
  /\ actualEnd \in Nat \cup {NotEnded}
  /\ bids \in Seq(Bid)
  /\ idem \subseteq [user : Users, key : Keys, bid : Nat]
  /\ snapshots \in Seq([bid : Nat, previous : Nat, new : Nat])
  /\ bidCount \in [Users -> Nat]
  /\ subscribed \subseteq Users
  /\ shadow \subseteq Suspects
  /\ flagged \subseteq Users
  /\ rate \in [Users -> Nat]
  /\ txn \in [Workers -> Txn \cup {NoTxn}]
  /\ answer \in Response \cup {NoAnswer}
  /\ reader \in [Readers -> Get \cup {NoGet}]
  /\ selected \in BOOLEAN
  /\ feed \subseteq DOMAIN bids
-----------------------------------------------------------------------------
(* Safety of the ledger.                                                   *)

(* The price shown on the auction row is the amount of the one public bid  *)
(* that is still ACCEPTED, every other public bid is OUTBID and each one   *)
(* beat its predecessors by the increment: place_bid never double-accepts  *)
(* or overwrites a higher price, however requests interleave.              *)
OneLeader ==
  /\ Public = {} => price = StartPrice
  /\ Public # {} =>
       \E top \in Public :
         /\ Accepted = {top}
         /\ bids[top].amount = price
         /\ \A i \in Public : i <= top
  /\ \A i, j \in Public :
       i < j => /\ bids[i].amount < bids[j].amount
                /\ bids[j].amount - bids[i].amount >= MinIncrement

(* No extension is lost or granted twice: the deadline is the first one    *)
(* plus one extension for each bid that was told it extended the auction.  *)
DeadlineAddsUp ==
  /\ endsAt = FirstDeadline + extCount * Extension
  /\ extCount = Cardinality({i \in DOMAIN bids : bids[i].extended})

(* place_bid saves the extension before it asks for the subscription and   *)
(* the amount, and nothing bounds how often.  Nobody prolongs an auction   *)
(* for free: each extension has raised the price, by a coin at least and   *)
(* by the increment, so what bidders can pay bounds how long it lasts.     *)
ExtensionsArePaidFor ==
  /\ price >= StartPrice + extCount
  /\ price >= StartPrice + extCount * MinIncrement

(* One key of one user stands for at most one bid, the user's own.         *)
KeysNameOneBid ==
  \A e \in idem :
    /\ e.bid \in DOMAIN bids
    /\ bids[e.bid].bidder = e.user
    /\ \A f \in idem : e.user = f.user /\ e.key = f.key => e = f

(* Shadow bids reach no public surface: no snapshot, no broadcast, no      *)
(* fraud task and no public statistics come from them, even when the ban   *)
(* comes or goes while the bid is being placed.                            *)
ShadowBidsStayHidden ==
  /\ feed \cup {snapshots[n].bid : n \in DOMAIN snapshots} \subseteq Public
  /\ \A u \in Users :
       bidCount[u] = Cardinality({i \in Public : bids[i].bidder = u})

(* Across all workers at most MaxPerSecond attempts of a user that were    *)
(* counted in the same second have become bids.                            *)
RateRespected ==
  MaxPerSecond > 0 =>
    \A i \in DOMAIN bids :
      Cardinality({j \in DOMAIN bids : /\ bids[j].bidder = bids[i].bidder
                                       /\ bids[j].counted = bids[i].counted})
        <= MaxPerSecond
-----------------------------------------------------------------------------
(* Safety of time and closing.                                             *)

(* Once ended the auction stays ended and its books are shut: a bid whose  *)
(* transaction was opened in time and waits is not let in afterwards.      *)
ShutStep ==
  status \in Closed =>
    /\ status' \in Closed
    /\ UNCHANGED <<endsAt, extCount, price, bids, idem, snapshots, bidCount>>

BooksShutAtClose == [][ShutStep]_vars

(* A bid is measured against the deadline of the row it commits to, and a  *)
(* public one leaves the others time to answer: after a bid placed before  *)
(* the deadline, an auction with extensions runs on for longer than the    *)
(* trigger window or for at least the extension.  The deadline never moves *)
(* back.                                                                   *)
TimeToAnswerStep ==
  LET b    == bids'[Len(bids')]
      left == endsAt' - b.placed
  IN
  /\ endsAt' >= endsAt
  /\ Len(bids') > Len(bids) =>
       /\ b.placed <= endsAt
       /\ ExtensionEnabled /\ ~b.suppressed /\ b.placed < endsAt =>
            (left > Trigger /\ left >= ForceSeconds) \/ left >= Extension + 1

BidsLeaveTimeToAnswer == [][TimeToAnswerStep]_vars

(* With the sweep as the only closer, an auction is ended only after its   *)
(* last deadline and its outcome tells whether it has public bids.         *)
ClosedAfterDeadline == status \in Closed => actualEnd > endsAt

OutcomeTellsBids ==
  /\ status = Ended => Public # {}
  /\ status = EndedWithoutBids => Public = {}

(* Whoever ends the auction, a GET that decides on what it loaded long ago *)
(* included: bidders have had the time they were promised at the start,    *)
(* and one that ended with bids has public bids.                           *)
EndIsGrounded ==
  /\ status \in Closed => actualEnd > FirstDeadline
  /\ status = Ended => Public # {}

(* A due auction is closed, although place_bid rolls its own close back    *)
(* and a bid placed in time may still move the deadline when it commits.   *)
DueIsClosed == (IsDue(status, endsAt, clock) ~> status \in Closed)

(* A replay returns the original bid: while the auction is open, a request *)
(* with a used key is answered with the bid this key stands for, also when *)
(* the retry overtakes the answer to the first attempt or the user is      *)
(* throttled or banned by now.  No user is answered with another's bid, or *)
(* with one that is not in the ledger.                                     *)
ReplayStep ==
  answer' # NoAnswer =>
    /\ Open => \A e \in idem :
         e.user = answer'.user /\ e.key = answer'.key => answer'.bid = e.bid
    /\ answer'.bid # NoBid =>
         /\ answer'.bid \in DOMAIN bids'
         /\ bids'[answer'.bid].bidder = answer'.user

ReplayReturnsOriginal == [][ReplayStep]_vars
-----------------------------------------------------------------------------
(* What watchers see is an English auction: a call for each snapshot, open *)
(* as long as the status is ACTIVE.                                        *)
Calls == [n \in DOMAIN snapshots |->
            [bidder |-> bids[snapshots[n].bid].bidder,
             amount |-> snapshots[n].new]]

English == INSTANCE EnglishAuction WITH
             Bidders <- Users, open <- status = Active, calls <- Calls

ImplementsEnglishAuction == English!ASpec
=============================================================================
