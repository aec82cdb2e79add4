# MazadJo backend: TLA+ models, checks and proofs

MazadJo is an auction house: a Django REST API on PostgreSQL (SQLite in
development), Celery workers with celery-beat, a Redis cache and WebSockets.
Nothing in it runs alone. Every request is served by one of several web
processes, every row is shared, most handlers load a row, decide and save
*without* a lock or a transaction (`ATOMIC_REQUESTS` is off), and the payment
gateway reports by webhooks that come late, twice or out of order. This
directory models those parts of the code where that matters. Each definition
that stands for code is listed with its file and lines in `PROJECT.json`
(`map`), and each hazard with the properties that watch it (`hazards`).

## 1. The system

| Component | State it keeps | Operations | What makes it hard | Correct when |
|---|---|---|---|---|
| Live bidding (`bidding/services.py`, `abuse.py`) | auction row (price, deadline, extensions), bids, idempotency keys, snapshots, statistics; rate counter in the cache | `place_bid` | many bidders on one row; retries; bans that come and go; a deadline each bid may move | one leader, price = leader's amount, no lost, double or unpaid extension, one bid per key, no trace of shadow bids |
| Auction closing (`auctions/services.py`, `tasks.py`, `viewsets.py`) | status, `actual_end_at` | sweep by celery-beat, GET of an auction, `place_bid` | three closers, one of them without the lock | closed once, after the deadline (by whichever closer after the first one), outcome tells whether there are bids, closed eventually |
| Realtime (`auctions/realtime.py`) | none | broadcast after commit | callbacks of two commits in any order, or lost | nothing suppressed is announced |
| Listing and review (`auctions/viewsets.py`, `serializers.py`, `validation.py`, `configuration/services/review_checklist.py`) | status, prices, category, images, checklist rows, review log | PATCH, submit, upload, delete, tick, review, cancel | load - decide - save without lock; several saves per request; crash between them; limits that change with the category | the status follows the diagram; what is approved was reviewed with its checklist |
| Subscriptions (`subscriptions/`) | one subscription per user and auction | POST, `mark_paid` | three inserts without transaction, two requests at once | one subscription, only forward; only a death strands one |
| Payments (`payments/`) | payment transactions | webhook, Celery task | duplicated, reordered, late webhooks; saves one after the other | nobody in unpaid; who paid gets in; a paid auction goes live; nothing else puts one on sale |
| OTP, registration, reset (`accounts/`) | OTP rows, users | request, deliver, verify, register, reset, edit, cleanup | cleanup against validity; retries of a delivery; two registrations; users saved whole or by column | an address, a flag or a password is only what its owner proved; spent stays spent; a code undoes no edit |
| Risk score (`fraud/`, `accounts/models.py`, `middleware.py`) | a score, counters and sampled addresses per user | analysis of a bid, decay, staff edits, clean-up | read-modify-write beside decay and bids; retries from the start; raises that are rolled back | points come from bids, each attempt once; no bid counted twice; flags fade |
| Notifications (`notifications/`) | notification rows, the queue | sweep, delivery, mark read | mailed before it is saved as sent, queued again while it waits, workers that die | copies bounded, every e-mail goes out |
| Configuration (`configuration/`) | terms, checklist items and their assignment to a category, fees | save, delete, reassign | several writes without transaction; requests of several staff overlap | one version in force; an assignment that is alone is exact |
| Visibility and media (`auctions/visibility.py`, `viewsets.py`) | none: computed from the status | lists, pages, images, WebSocket rooms | four predicates that must agree, over a status that others change | what was shown stays shown, lists and pages agree |
| Identity (`accounts/viewsets.py`, `signals.py`, `jwt_serializers.py`) | users | edit, log in | an edit saves what it loaded | with registration |
| Catalog, CMS, ratings, audit, observability | single rows | create, read, update, delete | no protocol | not modelled |

They meet on the **auction row**: the listing brings it to `approved`, the
seller's payment to `active`, bids change its price and deadline, closers end
it. The subscription of a bidder opens `place_bid` to that bidder. Registration
makes the users that all of them refer to; it shares nothing else with them.

## 2. Modules

| Module | What it is |
|---|---|
| `EnglishAuction` | abstract: open, calls, hammer |
| `Bidding` | `place_bid`, the sweep and the GET on one live auction |
| `Lifecycle` | abstract: the status diagram |
| `Listing` | all requests about one listing |
| `Admission` | abstract: pay, admit, the listing's decisions |
| `Payments` | subscriptions, `mark_paid`, webhooks |
| `GoLive` | `Listing` and `Payments` on one auction row |
| `Registration` | one-time codes: registration, verification, password reset |
| `Risk` | the risk score: analysis, decay, sampling, staff |
| `Notifications` | e-mails: sweep, queue, delivery, mark read |
| `Configuration` | terms in force, checklist of a category |
| `MC...` (one for each of the eight modules TLC runs) | symmetry sets for TLC |
| `...Theorems` (likewise) | proofs for TLAPS |

`Bidding` starts from an auction that has gone live, and lets bidders pay in
one step (`Subscribe`); `Payments` and `GoLive` say how both come about.
Definitions named `...Mutant` are what a plausible mistake would make of the
definition after them. They are the counterpart of a failing test: each
property of a passing run is violated when one of them takes the place of its
original (`mutants` in `PROJECT.json`).

### Bidding

`place_bid` is one transaction that holds the auction row `FOR UPDATE`. It
stops in two places where others can be seen: when it waits for the lock
(`Lock`: an action that needs it is not enabled before) and between its reads
and its commit, when the clock goes on, staff ban the user, the bidder pays and
GETs read the old row. So a bid is `BidCheck` (lock, deadline, status, key, ban;
everything read is kept in `txn[w]`, as the instance is in the code) followed by
`BidCommit` or `BidRefuse` (rate limit, extension, subscription, price), or one
action that answers at once (`BidNotOpen`, `BidReplay`, `BidForbidden`). A crash
rolls back (`BidCrash`); the count of an attempt is in the cache and stays. The
sweep is `SweepList` and `SweepClose`, since its list is read without lock; the
GET is `GetLoad`, `GetDecide`, `GetClose`, since each of the three is a
statement of its own. `Announce` is the callback after commit.

### Listing

A process serves one request at a time, `job[p]` says which and what it has
loaded. Each save is an action: PATCH saves the whole row it loaded
(`PatchSave`), category and prices included, and then the current price
(`PatchReprice`); submit validates,
saves the status and then creates the checklist rows one by one (`CopyRow`), as
a GET of the checklist does; a review checks the list, writes its log and then
the status. The category sets the limits of images (`Allowed`) and the items of
the checklist (`Assigned`). A PATCH may change it as long as the listing can be
edited, and validates the new one without media, so that the images and the
checklist rows there are go along; only a submit counts the images again.
`Assigned`, `MinImages` and `MaxImages` are functions of the category that stay
as they are during the life of the listing: `Configuration` is about the staff who
change the items. Two variables are not the program's, and no action decides on
them: `had`, the categories the listing has been in, and `overlapped`, whether two
requests about it have been in flight at once. `SCHEDULED` is left out here: docs and code name it, no code sets
it. Prices are two numbers, images are counted, and failed validations other
than those of images are requests that change nothing.

### Payments

Web processes insert the subscription, its payment and the payment's reference
in three steps; `mark_paid` is a transaction, but on a subscription loaded
before it. `hooks` is the set of webhooks ever sent, so that each may be applied
again, in any order; the task saves the payment, then the subscription, then the
auction. `LocksNeedTransaction` is the database: PostgreSQL refuses
`select_for_update` outside of a transaction, SQLite leaves the clause out. The
gateway (`Report`) is external: it reports success when it has the money, and
before that any status. `Orderly` chooses the environment: a listing whose
requests do not race, or one that may be set back to any earlier status.
`Admission` says what all of it amounts to for a reader who does not care for
rows: `phase` is the status of the auction, `in` the users with an active
subscription, `paid` those whose money the gateway has or whom the code has
marked paid. `mark_paid` and the last save of a webhook are `Admit`, the rest
stutters or is `Pay`.

### GoLive

Both modules at full detail with the status shared; `Payments` is told to expect
a disorderly listing, and `ImplementsPayments` shows that this is all the
listing ever does to it.

### Registration

`otp` is the table of codes in the order they were made; a deleted row stays in
it with `gone` set. A row says for which address, purpose and user its code was
made, whether the code has arrived (`sent`; to enter it right, one must have it)
and when it was entered (`verified`). No request runs in a transaction, so each
write is an action: verify loads (`VerifyEnter`), saves the row (`VerifySave`)
and then the flag (`VerifyFlag`); register checks (`RegisterCheck`), looks again
for the flags (`RegisterFlags`), inserts, and consumes the latest verification of
each address, if it is still there; reset loads, spends the code, saves the
password. Those three save named columns only (`update_fields`), and raise when
the row is gone. A PATCH of a user, by staff or by the user, saves all columns it
loaded (`EditLoad`, `EditSave`). The delivery is a Celery task that makes a row,
sends the code and is retried, with a new row, when the SMS gateway fails. Wrong
or late codes change nothing and are left out, `is_active` is treated as
`is_blocked`, the two verify purposes as one. `Ttl`, `MaxAge` and `Window` count
ticks: a code made in tick *n* is good up to and including tick *n* + `Ttl`.

### Visibility (in `Listing`)

`InList`, `InDetail`, `MediaServed` and `MayJoin` are the code's predicates on
viewer and status (`_apply_status_filter`, the querysets, `visibility.py`, the
consumer), evaluated in every state the requests can reach. Their actions are
the reads; they change nothing, so that there is none in the model.

### Risk

`place_bid` reads the score under its row lock (`PlaceCheck`) and writes it back
raised with its commit (`PlaceCommit`); a refusal rolls the raise back with the
rest and so is `PlaceRefused`, no more. The analysis is one action per statement
(`TaskLoad` to `TaskEnforce`), with the score, the counters and the account it
has in memory in `task[w]`. `TaskFail` is the exception that Celery retries
from the start, or the death of the worker, which nothing retries. The linear
decay is one UPDATE, the multiplying one saves row by row what it loaded
(`DecayLoad`, `DecayRow`). Scores are capped and rounded down as in the code. The
detectors are those of `fraud/utils.py`; the window in seconds of the pumping
detector, which only hides bids from it, is left out.

### Notifications

A message in `queue[n]` is a `deliver_email_notification(n)`. The sweep lists any
`SweepLimit` pending rows, since the query has no order, and queues them one by
one. A worker loads (`DeliverLoad`), hands the mail over (`DeliverSend`) and saves
(`DeliverSave`); a mail server that refuses goes unnoticed (`fail_silently`), so
handing over may be in vain and the row is saved as SENT. `mails` and `lost` count
what each worker has handed over and what it did not live to save. Who creates
notifications is external: nothing in the repository does.

### Configuration

Saving terms that are to be in force is a load, an UPDATE that takes the others
out of force (`TermsDeactivate`) and the save, which the database refuses if it
would make a second one (`TermsRefused`). A checklist is assigned by deleting all
links and creating the new ones one by one (`AssignClear`, `AssignLink`), beside
other assignments, edits and deletions of items. Validators of the framework
that refuse the same earlier are no step: they change nothing.

## 3. Runs

| Run | Bounds | Question and answer |
|---|---|---|
| `ledger` | 2 users (1 may be banned), 2 workers, 1 key, 3 amounts, 2 bids, 4 s | However two bids, retries, bans, the sweep and crashes interleave: `OneLeader`, `DeadlineAddsUp`, `ReplayReturnsOriginal`, `RateRespected`, `ShadowBidsStayHidden`, `BidsLeaveTimeToAnswer`, `ExtensionsArePaidFor` hold; with the sweep as only closer also `ClosedAfterDeadline` and `OutcomeTellsBids`; watchers see an English auction |
| `closing` | 1 user, 2 workers, 1 reader, 2 bids, 5 s, fair | With the GET that closes without the lock: a due auction is closed (`DueIsClosed`), its books stay shut whoever closes it, and even that GET ends none before its first deadline and none "with bids" without a bid (`EndIsGrounded`) |
| `subscriptions` | 2 users, 2 web processes, 2 tasks, 1 crash, PostgreSQL, racing listing | All of it implements `Admission`: nobody in unpaid, who is in stays in, no late start; what no webhook can settle is the trace of a death (`OnlyDeathStrands`) |
| `pay_and_go_live` | 2 users, 1 web process, 2 tasks, SQLite, fair | Who has paid is let in, a paid auction leaves `approved`, what is live is paid |
| `webhook_stuck` | the same on PostgreSQL, 1 task | **violated**: the webhook never starts the auction |
| `listing` | 2 processes, 2 categories (at most 1 image and no items; 1 to 2 images and 2 items), 2 prices, 1 death | However requests race: decisions are logged, images are bounded by a category the listing has been in (`ImagesBounded`), ticks are kept, lists and pages agree. One request after the other, wherever one dies: status diagram (`Lifecycle`), images right for the category a listing is submitted in, what the public has seen is final; until one dies also checklist and prices |
| `on_sale` | 1 seller, 1 web process, 1 task, 2 clerks, 1 item | Whatever races, what is on sale was approved and paid |
| `otp` | 1 user, 1 phone, 2 web processes, 1 task with 1 retry, 2 codes, 2 ticks | Whatever request, retry, edit and clean-up overlap: addresses, flags and passwords were proven (`AccountsAreProven`, `FlagsAreProven`, `PasswordsComeByReset`), rows move forward, codes undo no edit |
| `scores` | 2 users, 1 worker, 2 bids, 1 retry, 1 staff edit, score up to 6, both decay modes, fair | However analyses, retries, decay, bids and staff write over each other: points are accounted for (`ScoreWithinBids`), no bid is counted twice, flags fade |
| `self_outbidding` | the same, with the default of two prior bids | **violated**: two bids in a row of one bidder are not seen by the detector of such runs |
| `mail` | 2 notifications (1 without address), 2 workers, 1 client, 1 row per sweep, 2 messages, 1 death, fair | However often a notification is queued: a worker mails it once, and once more for each death; each e-mail leaves `pending` |
| `staff` | 2 versions, 2 items, 3 processes, 1 crash | However saves overlap, fail or die: one version in force at most, and none only where the staff or a failure left none; a PUT that is alone leaves exactly what it was asked for |

The type invariants are in no run: they are proved, and every other proof uses
them. Four more properties are proved and in no run, because what is there says
more: `ActiveIsPaid`, `StartsApprovedOnly` and, but for the rows still pending,
`SubscriptionsMoveForward` are what `ImplementsAdmission` means
(`AdmissionMeans`), and `KeysNameOneBid` is the invariant behind
`ReplayReturnsOriginal`.

**Why the bounds are enough to be interesting.** Two is the number that makes a
race: two workers on a row, two requests on a listing, two webhooks of one
payment. In `ledger` the clock passes the first deadline, one extension and the
end of it; the amounts contain one that is too low, one too small an increment
and two that are fine; a second bid meets a rate counter, a used key and a
leader to be outbid; a bid in the trigger window is refused after its extension
has been saved. In `closing` bids may extend the deadline, twice, after
the sweep has listed the auction and after the GET has loaded it. The horizon
there lies beyond the last extension, so every deadline can pass. In `otp` two
codes may be open at once, by a retry or for two purposes, the limit of one
request is reached, and the second tick ends the life of a code but not of a
verification; several users are left to the proofs. In `listing` a draft leaves a
category without a checklist, fills the other one with two images and comes back
to where one is allowed, or is edited, submitted, ticked, reviewed and paid for
by the two processes in any order; the run counts as serial until two requests
overlap, so that it asks both questions. `on_sale` has one category, since what
may be sold does not depend on it. In `scores` the thresholds
are so low that two bids reach each: a shared address, a win put in by hand,
the score that hides bids, the one that deactivates, the cap; the worker and the
decay write back scores of each other. In `mail` one sweep cannot take both
rows, one row may be queued twice and be with both workers, and one of them may
die on either side of the mail. In `staff` two requests race for one version
while the third deletes or saves another, and a crash leaves a half-done
assignment to the next. `MaxBids`, `MaxRows`, `MaxTime`, `MaxCrashes`,
`MaxDeaths`, `MaxQueued` and `MaxEdits` are the only bounds that are not the
code's; a bid beyond `MaxBids` is refused by a crash in the model, time stops at
`MaxTime`, the sweep of `mail` waits while `MaxQueued` messages are in the queue.
Deadlock is not checked where an auction ends, a clock stops or the edits are
used up: the system may stop there.

**Fairness.** `Bidding`: celery-beat starts the sweep every minute (weak
fairness of `SweepList`); its lock is granted although others keep taking it,
because PostgreSQL queues waiters (strong fairness of `SweepClose`, which is
enabled only while the row is unlocked); a transaction ends (weak fairness of
commit, refusal or rollback); time passes. Nothing is asked of bidders and of
GETs. `Payments`: a webhook that reports success is taken from Celery's queue at
least once, and a task that has begun goes on; nothing is asked of the gateway,
of other webhooks or of the users. A worker that dies in the middle of the task
is excluded there (`MaxCrashes` is 0): the task has no retry and is acknowledged
before it runs, so nothing in the code would finish it. `Notifications`:
celery-beat starts the sweep every five minutes, each listed row is queued, some
worker takes each message, and a delivery that has begun goes on unless its
worker dies; nothing is asked of users and of the mail server. `Risk`:
celery-beat starts the decay, which finishes its rows, and an analysis goes on;
nothing is asked of bidders and staff, whose bids and edits are bounded: a score
fades after the last of them.

## 4. Where code and documentation disagree

Two runs are expected to be violated and are listed under `findings`, with the
sentences of the repository they contradict.

`webhook_stuck`: `activate_seller_auction` locks the row outside of a transaction
when it is called for a webhook, PostgreSQL refuses, and after the payment and
the subscription are saved: money taken, subscription active, auction
`approved` for ever.

`self_outbidding`: the detector of fraud/utils.py:55, "True if this user already
has min_prior_run consecutive top bids", counts bids that are `accepted`, and
`place_bid` sets all earlier public bids to `outbid` before it creates the next
one; with the default of two prior bids it never says yes. The detector of
alternating bidders (fraud/utils.py:64, the pumping window of docs/API.md:18)
filters in the same way, looks for six bids and finds one at most; no run is
spent on it. That neither fires with thresholds above one is the lemma
`NothingToSee` of `RiskTheorems`; the bound on scores rests on it.

What follows was seen while modelling. It is not checked by a run of its own;
where a run can show it, the change is given.

* Bidding. `retrieve` closes an instance loaded without a lock: anti-sniping is
  lost when someone looks at the auction in its last second, and an auction with
  a bid can become `ended_without_bids` (give `Bidding_closing.cfg` the
  invariants `ClosedAfterDeadline` and `OutcomeTellsBids`). A retry with its
  `Idempotency-Key` after the deadline is refused (docs/API.md:15 promises the
  same bid; `ReplayReturnsOriginal` therefore speaks of an open auction).
  `place_bid` rolls back its own close when it refuses the bid (docs/API.md:14),
  and, for the same reason, the raise of the score of a bidder it throttles
  (bidding/abuse.py:89).
* Listing. A cancel that checked the status before the payment cancels a live
  auction (docs/integrations/04-auction-lifecycle.md:126), and a stale PATCH
  sets the status back (leave out `~overlapped'` of `LifeStep` in the run
  `listing`). Without it `ShownStep` fails as well: a stale PATCH revives a cancelled listing and
  takes it from public view, an upload that is late adds an image to a live one.
  A submit that dies between saving `under_review` and copying the checklist
  leaves a listing that can be approved with nothing checked, and a PATCH that
  dies between its two saves one that opens at its old price (leave out
  `deaths = 0` of `ApproveStep` and of `SubmittedIsComplete`). A PATCH that
  moves a listing to a category with fewer images keeps those it has, with no
  concurrency at all: the limit of a category is one of uploads and of submit
  (auctions/serializers.py:104 validates without media), which is why
  `ImagesBounded` speaks of any category the listing has been in; the checklist
  rows of the old category stay as well and have to be ticked. `approved -> scheduled
  -> active` of the diagram does not exist, `approved -> active` does. A draft
  its seller cancels, which nobody had seen, is public from then on; and any
  active user may join the WebSocket room of an auction in any status but
  `cancelled`, a draft included.
* Payments. A seller who pays for a cancelled auction keeps an active
  subscription and hears nothing of it. A POST /subscriptions/ repeated beside the
  first, or after it died, returns a row without a payment.
* Accounts. The clean-up deletes a verification that is good for 30 minutes
  (docs/integrations/01-identity-and-auth.md:68) when its *code* has expired,
  after 10 (accounts/tasks.py:15). The rate limit for codes counts rows that
  Celery has made, so that requests still queued escape it (docs/API.md:19). Two
  registrations may use one verification and end with one phone in two accounts.
  A PATCH of a user that overlaps a password reset restores the old password.
* Risk. The win ratio can only
  be high by hand: no code assigns `winner_user`. A recount beside a bid can lose
  that bid; an analysis in flight overwrites a score the staff has just
  forgiven. The middleware that samples addresses runs before the token is
  looked at, so that only users with a session are sampled.
* Notifications. A notification is `SENT` also when the server refused the mail or
  the user has no address; `FAILED` and `NotificationLog` are never written; a
  mark-read that comes between load and save is overwritten by `SENT`.
* Configuration. A failure between taking the old terms out of force and saving
  the new ones leaves none in force, as does a POST of one version twice at the
  same time. Overlapping PUTs of a checklist can leave a mixture. "each group
  must keep at least one category" of docs/API.md:239 is asked by `clean()`,
  which the API does not call.

## 5. Proofs

All theorems are for any number of users, processes, items, webhooks, messages
and crashes, under the named assumptions on constants only (`SetsAssumption`,
`NumbersAssumption`, `PaymentsAssumption`, `ListingAssumption`,
`GoLiveAssumption`, `RegistrationAssumption`, `PeopleAssumption`,
`PointsAssumption`, `NotesAssumption`, `LimitsAssumption`,
`ConfigurationAssumption`), which TLC evaluates in the runs, and the hypotheses
that a theorem states itself. Type correctness is proved of every module.

* **Bidding.** The heart is `RowLock`: whoever has a checked transaction is
  alone, the auction is `ACTIVE`, not past its deadline when the bid was read,
  and what was loaded (price, deadline, count, no such key) is what the row still
  says. `OneLeader` alone is not inductive: a commit writes from the *loaded*
  price, and only `RowLock` makes that the row's. From `TypeOK`, `RowLock` and a
  chain from the price to the last snapshot (`PriceChain`) follow
  `BooksShutAtClose` (also with the unlocked GET), `OneLeader`,
  `BidsLeaveTimeToAnswer`, `KeysNameOneBid`, `ReplayReturnsOriginal`, and, with
  the mapping of snapshots to calls, that `Bidding` implements `EnglishAuction`
  (`BiddingIsEnglish`). `DeadlineAddsUp`, `ShadowBidsStayHidden` and
  `RateRespected` count rows; a commit adds one row to a finite set
  (`RowsAreCounted`), and for the last `CounterSees` relates the rows of this
  second to the counter in the cache. `ExtensionsArePaidFor` is inductive beside
  `RowLock`: a commit extends by one and raises the very price it loaded. For
  `EndIsGrounded` also what a GET carries is part of the invariant (`Grounded`):
  each deadline ever loaded is at or past the first, and what a GET has decided
  had its reason in the rows, where bids are only added; so it needs no hypothesis
  on the GETs, where `ClosedAfterDeadline` and
  `OutcomeTellsBids` have the hypothesis `Readers = {}`: they need the sweep to
  be the only closer, since it alone decides under the lock.
* **Payments.** `ActiveIsPaid` needs `NewsIsTrue`: a success on its way, in a
  webhook or in a task, is about money that has come. `LiveIsPaid` needs
  `StartsArePaid`: a task that is about to start the auction has activated the
  seller's subscription. `StartsApprovedOnly` is proved under
  `LocksNeedTransaction` (no webhook reaches the row); on SQLite it is false.
  So is the refinement `PaymentsAdmit`, step by step: a save that lets a user in
  is an `Admit` because `NewsIsTrue`, no webhook enters the action that starts
  the auction (`NoneEnters`), and what the listing does is a `Decide`.
  `OnlyDeathStrands` counts: a step that is no death strands nobody (what a
  request has inserted it is still at work on), and a death strands at most the
  user of its request.
* **Listing.** `DecisionsAreLogged` needs `InFlightIsLogged`: a decision about
  to be saved and a status kept by a PATCH are in the log already, so the last
  save, however stale, brings back only what was decided. `ImagesBounded` needs
  `ImagesToCome`: the images there are and those that uploads have counted for
  and will still create (of a finite set of processes) are explained by one
  category the listing has been in, and the category any upload has loaded is one
  of those. The other four speak of requests until two overlap, for any number
  of processes; `Serial` says what holds till then. One process at most is at
  work (`Only`), and the status is still the one its request has decided on
  (`Undisturbed`), wherever processes die; `FollowsDiagram`, `ShownIsFinal` and,
  with `Illustrated` (the images counted for a submit are left alone, and so is
  the category they were counted for), the images of `SubmittedIsComplete` follow
  from it. What is said of the time before the first death (`deaths = 0`) needs
  `Alone`: all that the request has loaded and checked is still so, and what it
  has not yet written is known. Two requests that overlap break all of it, a
  death breaks `Alone`.
* **GoLive.** `ListingSuitsPayments` (every step of the listing is one the
  environment of `Payments` may take) carries `LiveIsPaid` and `ActiveIsPaid`
  over to the composition; with the log this gives `OnSaleIsSound`. By the same
  step, where row locks need a transaction, the composition implements
  `Admission` (`OnSaleAdmits`).
* **Registration.** All five properties of `otp` are proved. `RowsGrow` (rows only
  gain facts) carries every proof an account rests on from the moment it was
  given to the moment it is used; `Sound` says what a request in flight may rely
  on (its row exists, was delivered, is for its purpose, its user exists) and
  `Vouched` that what a request carries, also the copy of a user an edit is about
  to write back, is vouched for by the rows like the user itself.
  `AccountsAreProven` alone is not inductive: a registration inserts what it
  checked two steps ago, when the rows it saw may be gone or consumed by now.
* **Risk.** `CountersStayBelow` needs that also the count a worker is about to write back
  is one of bids that are there. `ScoresStayBelow` is about a sum over the bids of
  a user without being an induction over them: the points are a set of pairs
  (bid, number) of which each analysis has spent some, a score and every
  copy of a score that a worker or the decay may still write back is bounded by
  what the staff gave and the number of pairs spent (`Bound`), and a step that adds
  points takes as many pairs that no other analysis can spend. A pumping bidder
  earns none, because at most one public bid is `ACCEPTED` (`OneAccepted`) and the
  detector sees a set of one bid at most (`NothingToSee`). `DecayTakesAway` is the half of
  `FlagsFade` that is about single steps: each write of a decay is below what it
  has read.
* **Notifications.** `CopiesAreBounded` rests on `Accounted`, per worker and row:
  a mail of the worker's own is one it died after, or the row has left `PENDING`,
  or the worker is about to save it.
* **Configuration.** `TermsInForce` needs `Deactivators`: a request between its
  two writes that takes others out of force means to put its own version in
  force. `ChecklistIsExact` needs `AloneIsAlone` (a PUT that has been alone is the
  only one at work) and `TodoIsKept` (what it still has to write is part of
  the list it was given, all of it while it clears).

**With TLC only:** liveness (`DueIsClosed`, `PaidIsLetIn`, `PaidGoesLive`,
`EveryEmailGoesOut`, `FlagsFade`), which needs `ENABLED` and is beyond the prover.
Every other property of a passing run is a theorem, some under hypotheses named
above. What a run is too small for is in the proofs only: two users who register
with one verification (`otp` has one user), and a crash beside `LiveIsPaid` (its
run has none).

**Disclosed limits of properties.** `ShadowBidsStayHidden` is about what is
announced, not in which order: broadcasts may overtake each other.
`AssignedAloneIsExact` is about a PUT that is alone; the four serial properties of
`listing` say nothing of requests that overlap, where the code breaks them. No
property is about how many codes one request makes.

## 6. What could come next

1. Bids and payments on one row: `Bidding` in place of the environment's close.
2. Several auctions in `Risk`, which share the counters and the scores.
3. The purge of idempotency keys (`cleanup_fraud_data`) beside a late retry, for
   which `Bidding` would need days instead of seconds.

## 7. Not modelled

Amounts of fees, names, texts, files, pagination and permissions (pure functions
of a request and a row); watchlist and view counts (nothing reads them back);
token views (a library); win counters (no code assigns a winner); the purge of
idempotency keys (above); audit rows and metrics (no decision reads them); the
channel layer behind the WebSocket consumer (a relay without state); catalog,
CMS and ratings (single rows, uniqueness left to the database); the commands
that seed a database. `SCHEDULED` is left out of `Listing` and kept in `Bidding`
only where the code asks for it: nothing sets it. `place_bid` on several
auctions at once shares nothing but the statistics and is not modelled: the rate
counter is kept per user and auction.
