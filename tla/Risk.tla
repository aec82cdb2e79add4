-------------------------------- MODULE Risk --------------------------------
(***************************************************************************)
(* How the risk score of a user comes about.  place_bid, which holds the   *)
(* row of the auction, decides whether a bid is suppressed and queues the  *)
(* analysis of a public one; a Celery worker analyses it in single         *)
(* statements and raises the score for each signal it sees, from the value *)
(* it keeps in memory; the analysis is retried from the start when it      *)
(* fails.  celery-beat lowers all scores again and again; the staff sets   *)
(* scores, counters and accounts in the admin site.  The middleware        *)
(* samples the addresses users come from.                                  *)
(*                                                                         *)
(* One auction.  A user without a row of UserRiskScore has score 0 here.   *)
(* Raising the score of a bidder who is throttled is undone with the rest  *)
(* of the transaction: it is no step of the model.                         *)
(***************************************************************************)
EXTENDS Integers, Sequences, FiniteSets

CONSTANTS
  Users,
  Ips,           \* addresses
  Banned,        \* User.is_shadow_banned
  Workers,       \* Celery workers
  NoUser,        \* nobody is placing a bid
  Modes,         \* values of RISK_DECAY_MODE to look at
  Cap,           \* RISK_SCORE_MAX
  ShadowAt,      \* RISK_SHADOW_BAN_SCORE, if RISK_ENFORCE_SHADOW_FROM_SCORE
  HardAt,        \* RISK_HARD_BAN_SCORE, if RISK_ENFORCE_HARD_DEACTIVATE
  SelfBump, MinPriorRun,     \* RISK_SELF_OUTBID_...
  PumpBump, PumpLength,      \* RISK_PUMPING_BUMP; the six last bids
  IpBump, IpThreshold,       \* RISK_SHARED_IP_...
  WinBump, MinTotal, WinPercent, \* RISK_WIN_RATIO_...
  DecayPoints, DecayPercent, \* RISK_DECAY_LINEAR_POINTS, ..._MULTIPLY_FACTOR
  MaxRetries,    \* max_retries of analyze_bid_fraud
  StaffScores,   \* scores the staff may set
  MaxBids,       \* bound of the model: rows in the bids table
  MaxEdits       \* bound of the model: what the staff does

ASSUME PeopleAssumption ==
  /\ Banned \subseteq Users
  /\ NoUser \notin Users
  /\ Modes \subseteq {"linear", "multiply"}

ASSUME PointsAssumption ==
  /\ {Cap, ShadowAt, HardAt, SelfBump, PumpBump, IpBump, WinBump, IpThreshold,
      MinTotal, WinPercent, MaxRetries, MaxBids, MaxEdits} \subseteq Nat
  /\ StaffScores \subseteq Nat
  /\ MinPriorRun \in Nat \ {0}
  /\ PumpLength \in Nat \ {0, 1}
  /\ DecayPoints \in Nat \ {0}
  /\ DecayPercent \in 0 .. 99

VARIABLES
  mode,      \* RISK_DECAY_MODE
  score,     \* UserRiskScore.score
  active,    \* users whose is_active is set
  stats,     \* UserStats.total_bids and total_wins
  prints,    \* UserFingerprint: <<user, address>>
  bids,      \* the bids table, in order of insertion
  placing,   \* the bid being placed under the row lock
  jobs,      \* analyses in the queue
  task,      \* the analysis each worker is at
  decaying,  \* rows the multiplying decay has loaded
  \* ---- counters of the model
  given,     \* the highest score the staff gave a user
  edits

rvars == <<mode, score, active, stats, prints, bids, placing, jobs, task,
           decaying, given, edits>>
-----------------------------------------------------------------------------
Nobody == [user |-> NoUser, suppress |-> FALSE, seen |-> 0]
Idle   == [pc |-> "idle"]

Steps == {"pumping", "shared", "stats", "recount", "restat", "ratio", "enforce"}
Job   == [bid: Nat, tries: 0 .. MaxRetries]
Task  == [pc: Steps, job: Job, user: Users, wasActive: BOOLEAN, seen: Nat,
          total: Nat, wins: Nat]
BidRow == [bidder: Users, status: {"accepted", "outbid"}, public: BOOLEAN]

At(w, step) == task[w].pc = step

Least(a, b) == IF a < b THEN a ELSE b

(* UserRiskScore.increase, of the instance in memory.                      *)
Raised(seen, bump) == Least(seen + bump, Cap)

Public(b)   == bids[b].public
Accepted(b) == Public(b) /\ bids[b].status = "accepted"
PublicBids(u) == {b \in DOMAIN bids : Public(b) /\ bids[b].bidder = u}

RInit ==
  /\ mode \in Modes
  /\ score = [u \in Users |-> 0]
  /\ active = Users
  /\ stats = [u \in Users |-> [bids |-> 0, wins |-> 0]]
  /\ prints = {}
  /\ bids = <<>>
  /\ placing = Nobody
  /\ jobs = {}
  /\ task = [w \in Workers |-> Idle]
  /\ decaying = <<>>
  /\ given = [u \in Users |-> 0]
  /\ edits = 0
-----------------------------------------------------------------------------
(* fraud.utils: what the detectors see of the bids.                        *)
Newer(b) == {c \in DOMAIN bids : c > b /\ Accepted(c)}

(* The bids ACCEPTED after the last one of somebody else.                  *)
PriorRun(u) ==
  Cardinality({b \in DOMAIN bids :
    /\ Accepted(b) /\ bids[b].bidder = u
    /\ \A c \in Newer(b) : bids[c].bidder = u})

SelfOutbidding(u) == PriorRun(u) >= MinPriorRun

(* The last PumpLength of them, of two bidders in turn.  The window of     *)
(* seconds only hides more of them.                                        *)
LastAccepted ==
  {b \in DOMAIN bids : Accepted(b) /\ Cardinality(Newer(b)) < PumpLength}

BidPumping ==
  /\ Cardinality(LastAccepted) = PumpLength
  /\ \A b, c \in LastAccepted :
       (bids[b].bidder = bids[c].bidder)
         <=> (Cardinality(Newer(b)) % 2 = Cardinality(Newer(c)) % 2)

SharedWith(u) ==
  {v \in Users \ {u} : \E ip \in Ips : <<u, ip>> \in prints /\ <<v, ip>> \in prints}

TooManyWins(total, wins) == total > MinTotal /\ 100 * wins > WinPercent * total
-----------------------------------------------------------------------------
(* place_bid, up to the checks it makes of the bidder.                     *)
PlaceCheck(u) ==
  /\ placing = Nobody
  /\ Len(bids) < MaxBids
  /\ u \in active
  /\ placing' = [user |-> u, suppress |-> u \in Banned \/ score[u] >= ShadowAt,
                 seen |-> score[u]]
  /\ UNCHANGED <<mode, score, active, stats, prints, bids, jobs, task,
                 decaying, given, edits>>

(* Throttled, too low, or the process dies: nothing of it stays.           *)
PlaceRefused ==
  /\ placing # Nobody
  /\ placing' = Nobody
  /\ UNCHANGED <<mode, score, active, stats, prints, bids, jobs, task,
                 decaying, given, edits>>

(* A public bid outbids the others, and is ACCEPTED itself.                *)
WithBid(u, suppress) ==
  Append([b \in DOMAIN bids |-> IF Accepted(b) /\ ~suppress
                                THEN [bids[b] EXCEPT !.status = "outbid"] ELSE bids[b]],
         [bidder |-> u, status |-> "accepted", public |-> ~suppress])

(* A definition named ...Mutant is what a plausible mistake would make of  *)
(* the definition that follows it; no other definition uses it.            *)
CountedMutant(u, suppress) ==            \* a hidden bid counts as well
  [stats EXCEPT ![u].bids = @ + 1]

Counted(u, suppress) == IF suppress THEN stats ELSE [stats EXCEPT ![u].bids = @ + 1]

(* The commit, with the score as raised from what was loaded under the     *)
(* lock, and then the message, which is lost if the process dies.          *)
PlaceCommit(u) ==
  /\ placing.user = u
  /\ placing' = Nobody
  /\ score' = [score EXCEPT
       ![u] = IF SelfBump > 0 /\ SelfOutbidding(u)
             THEN Raised(placing.seen, SelfBump) ELSE @]
  /\ bids' = WithBid(u, placing.suppress)
  /\ stats' = Counted(u, placing.suppress)
  /\ \/ ~placing.suppress /\ jobs' = jobs \cup {[bid |-> Len(bids) + 1, tries |-> 0]}
     \/ jobs' = jobs
  /\ UNCHANGED <<mode, active, prints, task, decaying, given, edits>>
-----------------------------------------------------------------------------
(* FingerprintMiddleware, with the key fp:mid:... expired: the sample is    *)
(* lost, until it expires again, if there is no address or no row written. *)
Sample(u, ip) ==
  /\ prints' = prints \cup {<<u, ip>>}
  /\ UNCHANGED <<mode, score, active, stats, bids, placing, jobs, task, decaying,
                 given, edits>>

(* cleanup_fraud_data: whatever of the rows is old enough.                 *)
CleanUp ==
  /\ prints # {}
  /\ prints' \in SUBSET prints
  /\ UNCHANGED <<mode, score, active, stats, bids, placing, jobs, task,
                 decaying, given, edits>>
-----------------------------------------------------------------------------
(* analyze_bid_fraud.                                                      *)
OthersKept == UNCHANGED <<mode, prints, bids, placing, decaying, given, edits>>

TaskLoad(w, j) ==
  /\ task[w] = Idle
  /\ j \in jobs
  /\ jobs' = jobs \ {j}
  /\ LET u == bids[j.bid].bidder
     IN  task' = [task EXCEPT ![w] =
           [pc |-> "pumping", job |-> j, user |-> u, wasActive |-> u \in active,
            seen |-> score[u], total |-> 0, wins |-> 0]]
  /\ UNCHANGED <<score, active, stats>> /\ OthersKept

(* A signal that is seen raises the score; the analysis goes on.           *)
Signal(w, step, next, hit, bump) ==
  /\ At(w, step)
  /\ LET u   == task[w].user
         new == IF hit THEN Raised(task[w].seen, bump) ELSE task[w].seen
     IN  /\ score' = IF hit /\ bump > 0 THEN [score EXCEPT ![u] = new] ELSE score
         /\ task' = [task EXCEPT ![w].pc = next, ![w].seen = new]
  /\ UNCHANGED <<jobs, active, stats>> /\ OthersKept

TaskPumping(w) == Signal(w, "pumping", "shared", BidPumping, PumpBump)

TaskSharedIp(w) ==
  Signal(w, "shared", "stats", Cardinality(SharedWith(task[w].user)) > IpThreshold, IpBump)

(* The counters as they are, or counted anew when there are none.          *)
TaskStats(w) ==
  /\ At(w, "stats")
  /\ LET row == stats[task[w].user]
     IN  task' = [task EXCEPT
           ![w] = [@ EXCEPT !.pc = IF row.bids = 0 THEN "recount" ELSE "ratio",
                            !.total = row.bids, !.wins = row.wins]]
  /\ UNCHANGED <<jobs, score, active, stats>> /\ OthersKept

(* No auction has a winner_user: the wins are counted as none.             *)
TaskRecount(w) ==
  /\ At(w, "recount")
  /\ task' = [task EXCEPT
       ![w] = [@ EXCEPT !.pc = "restat", !.total = Cardinality(PublicBids(task[w].user)),
                        !.wins = 0]]
  /\ UNCHANGED <<jobs, score, active, stats>> /\ OthersKept

TaskRestat(w) ==
  /\ At(w, "restat")
  /\ stats' = [stats EXCEPT ![task[w].user] = [bids |-> task[w].total, wins |-> task[w].wins]]
  /\ task' = [task EXCEPT ![w].pc = "ratio"]
  /\ UNCHANGED <<jobs, score, active>> /\ OthersKept

TaskWinRatio(w) ==
  Signal(w, "ratio", "enforce", TooManyWins(task[w].total, task[w].wins), WinBump)

(* The score is read again, the account was read at the start.             *)
TaskEnforce(w) ==
  /\ At(w, "enforce")
  /\ active' = IF score[task[w].user] >= HardAt /\ task[w].wasActive
               THEN active \ {task[w].user} ELSE active
  /\ task' = [task EXCEPT ![w] = Idle]
  /\ UNCHANGED <<jobs, score, stats>> /\ OthersKept

AgainMutant(j) == {j}                    \* attempts are not counted

(* The message of a retry, if there is one.                                *)
Again(j) == IF j.tries < MaxRetries THEN {[j EXCEPT !.tries = @ + 1]} ELSE {}

(* An exception: retried from the start.  A worker that dies: lost.        *)
TaskFail(w) ==
  /\ task[w] # Idle
  /\ task' = [task EXCEPT ![w] = Idle]
  /\ \/ jobs' = jobs \cup Again(task[w].job)
     \/ jobs' = jobs
  /\ UNCHANGED <<score, active, stats>> /\ OthersKept

Analyse(w) ==
  \/ TaskPumping(w) \/ TaskSharedIp(w) \/ TaskStats(w) \/ TaskRecount(w)
  \/ TaskRestat(w) \/ TaskWinRatio(w) \/ TaskEnforce(w)
-----------------------------------------------------------------------------
(* decay_risk_scores: one UPDATE, or row by row from what was loaded.      *)
DecayLinear ==
  /\ mode = "linear"
  /\ \E u \in Users : score[u] > 0
  /\ score' = [u \in Users |-> IF score[u] > DecayPoints THEN score[u] - DecayPoints ELSE 0]
  /\ UNCHANGED <<mode, active, stats, prints, bids, placing, jobs, task,
                 decaying, given, edits>>

DecayLoad ==
  /\ mode = "multiply"
  /\ decaying = <<>>
  /\ \E u \in Users : score[u] > 0
  /\ decaying' = [u \in {v \in Users : score[v] > 0} |-> score[u]]
  /\ UNCHANGED <<mode, score, active, stats, prints, bids, placing, jobs,
                 task, given, edits>>

MultipliedMutant(s) == (s * DecayPercent + 99) \div 100    \* rounded up

Multiplied(s) == (s * DecayPercent) \div 100

DecayRow(u) ==
  /\ u \in DOMAIN decaying
  /\ score' = [score EXCEPT ![u] = Multiplied(decaying[u])]
  /\ decaying' = [v \in DOMAIN decaying \ {u} |-> decaying[v]]
  /\ UNCHANGED <<mode, active, stats, prints, bids, placing, jobs, task,
                 given, edits>>
-----------------------------------------------------------------------------
(* The admin site: a score, the counters, an account.                      *)
StaffScore(u, s) ==
  /\ edits < MaxEdits
  /\ edits' = edits + 1
  /\ score' = [score EXCEPT ![u] = s]
  /\ given' = [given EXCEPT ![u] = IF s > @ THEN s ELSE @]
  /\ UNCHANGED <<mode, active, stats, prints, bids, placing, jobs, task,
                 decaying>>

(* Wins are only ever put in by hand, and bids are taken back.             *)
StaffStats(u) ==
  /\ edits < MaxEdits
  /\ edits' = edits + 1
  /\ \/ stats' = [stats EXCEPT ![u].wins = @ + 1]
     \/ stats' = [stats EXCEPT ![u].bids = 0]
  /\ UNCHANGED <<mode, score, active, prints, bids, placing, jobs, task,
                 decaying, given>>

StaffActivate(u) ==
  /\ edits < MaxEdits
  /\ edits' = edits + 1
  /\ active' = IF u \in active THEN active \ {u} ELSE active \cup {u}
  /\ UNCHANGED <<mode, score, stats, prints, bids, placing, jobs, task,
                 decaying, given>>

Staff(u) ==
  \/ \E s \in StaffScores : StaffScore(u, s)
  \/ StaffStats(u)
  \/ StaffActivate(u)
-----------------------------------------------------------------------------
RNext ==
  \/ PlaceRefused
  \/ \E u \in Users :
       \/ PlaceCheck(u) \/ PlaceCommit(u)
       \/ \E ip \in Ips : Sample(u, ip)
       \/ DecayRow(u)
       \/ Staff(u)
  \/ CleanUp
  \/ \E w \in Workers : Analyse(w) \/ TaskFail(w) \/ \E j \in jobs : TaskLoad(w, j)
  \/ DecayLinear \/ DecayLoad

RSpec == RInit /\ [][RNext]_rvars

(* celery-beat starts the decay again and again; a worker that has begun   *)
(* an analysis goes on with it.                                            *)
RFairness ==
  /\ WF_rvars(DecayLinear) /\ WF_rvars(DecayLoad)
  /\ \A u \in Users : WF_rvars(DecayRow(u))
  /\ \A w \in Workers : WF_rvars(Analyse(w))

RFairSpec == RSpec /\ RFairness
-----------------------------------------------------------------------------
RiskTypeOK ==
  /\ mode \in Modes
  /\ score \in [Users -> Nat]
  /\ active \subseteq Users
  /\ stats \in [Users -> [bids: Nat, wins: Nat]]
  /\ prints \subseteq Users \X Ips
  /\ bids \in Seq(BidRow)
  /\ placing \in [user: Users, suppress: BOOLEAN, seen: Nat] \cup {Nobody}
  /\ jobs \subseteq Job
  /\ task \in [Workers -> Task \cup {Idle}]
  /\ \E D \in SUBSET Users : decaying \in [D -> Nat]
  /\ given \in [Users -> Nat]
  /\ edits \in 0 .. MaxEdits
-----------------------------------------------------------------------------
(* "True if this user already has min_prior_run consecutive top bids on    *)
(* the auction": so says fraud/utils.py:55 of detect_self_outbidding_chain.*)
(* The bids that count are the public ones nobody else has bid after.  It  *)
(* fails: the code counts ACCEPTED bids, and a bid that is outbid, if only *)
(* by its own bidder, is ACCEPTED no more.                                 *)
TopBids(u) ==
  {b \in PublicBids(u) : \A c \in DOMAIN bids : c > b /\ Public(c) => bids[c].bidder = u}

SelfOutbiddingIsSeen ==
  \A u \in Users : Cardinality(TopBids(u)) >= MinPriorRun => SelfOutbidding(u)

(* Where points come from: what the staff gave, and what the analyses of a *)
(* user's own public bids add, each of them at most once per attempt, also *)
(* when a worker, a decay or the staff writes over a value that has        *)
(* changed meanwhile.                                                      *)
PointsPerBid == (1 + MaxRetries) * (IpBump + WinBump) + SelfBump

ScoreWithinBids ==
  \A u \in Users :
    score[u] <= given[u] + PointsPerBid * Cardinality({b \in DOMAIN bids : bids[b].bidder = u})

(* The counter may lose bids when it is counted anew next to a bid being   *)
(* placed, but no bid is counted twice.                                    *)
CountsNoBidTwice == \A u \in Users : stats[u].bids <= Cardinality(PublicBids(u))

(* "so users are not flagged forever": in both modes, and with analyses    *)
(* that write back what a decay has taken off.                             *)
FlagsFade == \A u \in Users : score[u] > 0 ~> score[u] = 0
=============================================================================
