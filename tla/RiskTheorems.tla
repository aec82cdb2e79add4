---------------------------- MODULE RiskTheorems ----------------------------
(***************************************************************************)
(* What holds of Risk for any users, workers, thresholds, points, retries  *)
(* and number of bids.                                                     *)
(*                                                                         *)
(* An analysis is of a bid that is in the table (Known).  Of the public    *)
(* bids at most one is ACCEPTED (OneAccepted), which leaves the detectors  *)
(* nothing to see.  The number a worker is about to write back as counter  *)
(* was a number of public bids once (Recounted), and bids only get more.   *)
(*                                                                         *)
(* The bound on a score is a sum over bids.  It is proved as the size of a *)
(* set instead: each bid is worth PointsPerBid points, an attempt of its   *)
(* analysis spends some of them, and what a user has been given and what   *)
(* is not yet spent (Bound) bounds the score and all that has been read of *)
(* it and may be written back.                                             *)
(***************************************************************************)
EXTENDS Risk, FiniteSetTheorems, TLAPS

Known ==
  /\ \A j \in jobs : j.bid \in DOMAIN bids
  /\ \A w \in Workers : task[w] # Idle => task[w].job.bid \in DOMAIN bids

OneAccepted == \A b, c \in DOMAIN bids : Accepted(b) /\ Accepted(c) => b = c

Recounted ==
  \A w \in Workers :
    At(w, "restat") => task[w].total <= Cardinality(PublicBids(task[w].user))

TypeInv  == RiskTypeOK /\ Known
CountInv == CountsNoBidTwice /\ Recounted
-----------------------------------------------------------------------------
LEMMA TaskKinds ==
  ASSUME RiskTypeOK, NEW w \in Workers
  PROVE  /\ task[w] = Idle \/ task[w] \in Task
         /\ \A step \in Steps : At(w, step) => task[w] \in Task
         /\ task[w] \in Task => task[w].user \in Users /\ task[w].seen \in Nat
         /\ task[w] # Idle => task[w] \in Task
         /\ task[w] \in Task => task[w] # Idle
BY DEF RiskTypeOK, At, Idle, Steps, Task

LEMMA RaisedIsNat ==
  ASSUME NEW seen \in Nat, NEW bump \in Nat PROVE Raised(seen, bump) \in Nat
BY PointsAssumption DEF Raised, Least

LEMMA BidFields ==
  ASSUME RiskTypeOK
  PROVE  /\ Len(bids) \in Nat /\ DOMAIN bids = 1 .. Len(bids)
         /\ \A b \in DOMAIN bids : bids[b] \in BidRow
BY DEF RiskTypeOK

(* The table with one more bid.                                            *)
LEMMA WithBidTable ==
  ASSUME RiskTypeOK, NEW u \in Users, NEW suppress \in BOOLEAN
  PROVE  LET t == WithBid(u, suppress)
             n == Len(bids) + 1
         IN  /\ t \in Seq(BidRow) /\ DOMAIN t = 1 .. n
             /\ \A b \in DOMAIN bids : t[b] = IF Accepted(b) /\ ~suppress
                                              THEN [bids[b] EXCEPT !.status = "outbid"]
                                              ELSE bids[b]
             /\ t[n] = [bidder |-> u, status |-> "accepted", public |-> ~suppress]
<1> DEFINE old == [b \in DOMAIN bids |-> IF Accepted(b) /\ ~suppress
                                         THEN [bids[b] EXCEPT !.status = "outbid"]
                                         ELSE bids[b]]
           row == [bidder |-> u, status |-> "accepted", public |-> ~suppress]
<1>1. Len(bids) \in Nat /\ DOMAIN bids = 1 .. Len(bids)
  BY BidFields
<1>2. \A b \in DOMAIN bids : old[b] \in BidRow
  BY BidFields DEF BidRow
<1>3. old \in Seq(BidRow) /\ Len(old) = Len(bids)
  BY <1>1, <1>2
<1>4. row \in BidRow
  BY DEF BidRow
<1>5. WithBid(u, suppress) = Append(old, row)
  BY DEF WithBid
<1> HIDE DEF old, row
<1>6. /\ Append(old, row) \in Seq(BidRow) /\ DOMAIN Append(old, row) = 1 .. Len(bids) + 1
      /\ \A b \in 1 .. Len(bids) : Append(old, row)[b] = old[b]
      /\ Append(old, row)[Len(bids) + 1] = row
  BY <1>1, <1>3, <1>4
<1>7. QED
  BY <1>1, <1>5, <1>6 DEF old, row
-----------------------------------------------------------------------------
(* A step that leaves bids and tasks alone and adds no analysis.           *)
LEMMA KnownKept ==
  ASSUME Known, bids' = bids, task' = task, jobs' \subseteq jobs PROVE Known'
BY DEF Known

LEMMA TaskTyped ==
  ASSUME RiskTypeOK, NEW w \in Workers, NEW t, t \in Task \/ t = Idle,
         task' = [task EXCEPT ![w] = t]
  PROVE  task' \in [Workers -> Task \cup {Idle}]
BY DEF RiskTypeOK

LEMMA Loaded ==
  ASSUME RiskTypeOK, placing.user \in Users
  PROVE  placing.suppress \in BOOLEAN /\ placing.seen \in Nat
<1>1. placing # Nobody
  BY PeopleAssumption DEF Nobody
<1>2. placing \in [user: Users, suppress: BOOLEAN, seen: Nat]
  BY <1>1 DEF RiskTypeOK
<1>3. QED
  BY <1>2

(* A counter of one user that goes up.                                     *)
LEMMA StatsTyped ==
  ASSUME RiskTypeOK, NEW u \in Users
  PROVE  /\ [stats EXCEPT ![u].bids = @ + 1] \in [Users -> [bids: Nat, wins: Nat]]
         /\ [stats EXCEPT ![u].wins = @ + 1] \in [Users -> [bids: Nat, wins: Nat]]
         /\ [stats EXCEPT ![u].bids = 0] \in [Users -> [bids: Nat, wins: Nat]]
<1>1. stats[u] \in [bids: Nat, wins: Nat] /\ stats \in [Users -> [bids: Nat, wins: Nat]]
  BY DEF RiskTypeOK
<1>2. /\ [stats[u] EXCEPT !.bids = @ + 1] \in [bids: Nat, wins: Nat]
      /\ [stats[u] EXCEPT !.wins = @ + 1] \in [bids: Nat, wins: Nat]
      /\ [stats[u] EXCEPT !.bids = 0] \in [bids: Nat, wins: Nat]
  BY <1>1
<1>3. QED
  BY <1>1, <1>2

LEMMA PlaceTypes ==
  ASSUME TypeInv, NEW u \in Users, PlaceCheck(u) \/ PlaceRefused \/ PlaceCommit(u)
  PROVE  TypeInv'
<1> USE DEF TypeInv
<1>1. CASE PlaceCheck(u)
  <2>1. placing' \in [user: Users, suppress: BOOLEAN, seen: Nat] \cup {Nobody}
    BY <1>1 DEF PlaceCheck, RiskTypeOK
  <2>2. RiskTypeOK'
    BY <1>1, <2>1 DEF PlaceCheck, RiskTypeOK
  <2>3. QED
    BY <1>1, <2>2, KnownKept DEF PlaceCheck
<1>2. CASE PlaceRefused
  <2>1. RiskTypeOK'
    BY <1>2 DEF PlaceRefused, RiskTypeOK
  <2>2. QED
    BY <1>2, <2>1, KnownKept DEF PlaceRefused
<1>3. CASE PlaceCommit(u)
  <2> DEFINE n == Len(bids) + 1
  <2>1. placing.suppress \in BOOLEAN /\ placing.seen \in Nat
    BY <1>3, Loaded DEF PlaceCommit
  <2>2. bids' \in Seq(BidRow) /\ DOMAIN bids' = 1 .. n
    BY <1>3, <2>1, WithBidTable DEF PlaceCommit
  <2>3. Raised(placing.seen, SelfBump) \in Nat
    BY <2>1, RaisedIsNat, PointsAssumption
  <2>4. score' \in [Users -> Nat]
    BY <1>3, <2>3 DEF PlaceCommit, RiskTypeOK
  <2>5. stats' \in [Users -> [bids: Nat, wins: Nat]]
    BY <1>3, StatsTyped DEF PlaceCommit, Counted, RiskTypeOK
  <2>6. n \in Nat /\ DOMAIN bids = 1 .. Len(bids) /\ Len(bids) \in Nat
    BY BidFields
  <2>7. jobs' \subseteq jobs \cup {[bid |-> n, tries |-> 0]}
    BY <1>3 DEF PlaceCommit
  <2>8. [bid |-> n, tries |-> 0] \in Job
    BY <2>6, PointsAssumption DEF Job
  <2>9. jobs' \subseteq Job
    BY <2>7, <2>8 DEF RiskTypeOK
  <2>10. RiskTypeOK'
    BY <1>3, <2>2, <2>4, <2>5, <2>9 DEF PlaceCommit, RiskTypeOK
  <2>11. Known'
    <3>1. DOMAIN bids \subseteq DOMAIN bids' /\ n \in DOMAIN bids'
      BY <2>2, <2>6
    <3>2. task' = task
      BY <1>3 DEF PlaceCommit
    <3>3. QED
      BY <2>7, <3>1, <3>2 DEF Known
  <2>12. QED
    BY <2>10, <2>11
<1>4. QED
  BY <1>1, <1>2, <1>3

LEMMA LoadTypes ==
  ASSUME TypeInv, NEW w \in Workers, NEW j \in jobs, TaskLoad(w, j)
  PROVE  TypeInv'
<1> USE DEF TypeInv
<1> DEFINE u == bids[j.bid].bidder
           t == [pc |-> "pumping", job |-> j, user |-> u, wasActive |-> u \in active,
                 seen |-> score[u], total |-> 0, wins |-> 0]
<1>1. j \in Job /\ j.bid \in DOMAIN bids
  BY DEF RiskTypeOK, Known
<1>2. u \in Users
  BY <1>1, BidFields DEF BidRow
<1>3. t \in Task
  BY <1>1, <1>2 DEF Task, Steps, RiskTypeOK
<1>4. task' = [task EXCEPT ![w] = t] /\ jobs' = jobs \ {j}
  BY DEF TaskLoad
<1>5. RiskTypeOK'
  BY <1>3, <1>4, TaskTyped DEF TaskLoad, OthersKept, RiskTypeOK
<1>6. Known'
  BY <1>1, <1>4 DEF Known, TaskLoad, OthersKept, RiskTypeOK
<1>7. QED
  BY <1>5, <1>6

(* What every other step of an analysis comes down to.                     *)
LEMMA TaskStep ==
  ASSUME TypeInv, NEW w \in Workers, NEW t, task[w] # Idle, task' = [task EXCEPT ![w] = t],
         t = Idle \/ (t \in Task /\ t.job = task[w].job),
         jobs' \subseteq jobs \cup Again(task[w].job),
         score' \in [Users -> Nat], active' \subseteq Users,
         stats' \in [Users -> [bids: Nat, wins: Nat]], OthersKept
  PROVE  TypeInv'
<1> USE DEF TypeInv
<1>1. task[w] \in Task /\ task[w].job \in Job
  BY TaskKinds DEF Task
<1>2. Again(task[w].job) \subseteq {i \in Job : i.bid = task[w].job.bid}
  <2>1. task[w].job.tries < MaxRetries
          => [task[w].job EXCEPT !.tries = @ + 1] \in {i \in Job : i.bid = task[w].job.bid}
    BY <1>1, PointsAssumption DEF Job
  <2>2. QED
    BY <2>1 DEF Again
<1>3. RiskTypeOK'
  BY <1>2, TaskTyped DEF OthersKept, RiskTypeOK
<1>4. Known'
  <2>1. bids' = bids
    BY DEF OthersKept
  <2>2. \A i \in jobs' : i.bid \in DOMAIN bids
    BY <1>2 DEF Known
  <2>3. ASSUME NEW v \in Workers, task'[v] # Idle PROVE task'[v].job.bid \in DOMAIN bids
    BY <2>3 DEF Known, RiskTypeOK
  <2>4. QED
    BY <2>1, <2>2, <2>3 DEF Known
<1>5. QED
  BY <1>3, <1>4

LEMMA SignalTypes ==
  ASSUME TypeInv, NEW w \in Workers, NEW step \in Steps, NEW next \in Steps,
         NEW hit, NEW bump \in Nat, Signal(w, step, next, hit, bump)
  PROVE  TypeInv'
<1> DEFINE u   == task[w].user
           new == IF hit THEN Raised(task[w].seen, bump) ELSE task[w].seen
           t   == [task[w] EXCEPT !.pc = next, !.seen = new]
<1>1. task[w] \in Task /\ u \in Users /\ task[w].seen \in Nat
  BY TaskKinds DEF Signal, TypeInv
<1>2. new \in Nat
  BY <1>1, RaisedIsNat
<1>3. task' = [task EXCEPT ![w] = t]
  BY DEF Signal
<1>4. t \in Task /\ t.job = task[w].job
  BY <1>1, <1>2 DEF Task
<1>5. score' \in [Users -> Nat]
  BY <1>1, <1>2 DEF Signal, TypeInv, RiskTypeOK
<1>6. task[w] # Idle
  BY <1>1, TaskKinds DEF TypeInv
<1>7. jobs' = jobs /\ active' = active /\ stats' = stats /\ OthersKept
  BY DEF Signal
<1>8. active' \subseteq Users /\ stats' \in [Users -> [bids: Nat, wins: Nat]]
  BY <1>7 DEF TypeInv, RiskTypeOK
<1> HIDE DEF t
<1>9. QED
  BY <1>3, <1>4, <1>5, <1>6, <1>7, <1>8, TaskStep

LEMMA PublicBidsFinite ==
  ASSUME RiskTypeOK, NEW u
  PROVE  IsFiniteSet(PublicBids(u)) /\ Cardinality(PublicBids(u)) \in Nat
<1>1. IsFiniteSet(1 .. Len(bids))
  BY BidFields, FS_Interval
<1>2. PublicBids(u) \subseteq 1 .. Len(bids)
  BY BidFields DEF PublicBids
<1>3. IsFiniteSet(PublicBids(u))
  BY <1>1, <1>2, FS_Subset
<1>4. QED
  BY <1>3, FS_CardinalityType

LEMMA AnalyseTypes ==
  ASSUME TypeInv, NEW w \in Workers, Analyse(w) \/ TaskFail(w)
  PROVE  TypeInv'
<1>0. /\ score \in [Users -> Nat] /\ active \subseteq Users
      /\ stats \in [Users -> [bids: Nat, wins: Nat]]
  BY DEF TypeInv, RiskTypeOK
<1>1. CASE TaskPumping(w) \/ TaskSharedIp(w) \/ TaskWinRatio(w)
  <2>1. {"pumping", "shared", "stats", "ratio", "enforce"} \subseteq Steps
    BY DEF Steps
  <2>2. PumpBump \in Nat /\ IpBump \in Nat /\ WinBump \in Nat
    BY PointsAssumption
  <2>3. QED
    BY <1>1, <2>1, <2>2, SignalTypes DEF TaskPumping, TaskSharedIp, TaskWinRatio
<1>2. CASE TaskStats(w)
  <2> DEFINE row == stats[task[w].user]
             t == [task[w] EXCEPT !.pc = IF row.bids = 0 THEN "recount" ELSE "ratio",
                                  !.total = row.bids, !.wins = row.wins]
  <2>1. task[w] \in Task /\ task[w] # Idle
    BY <1>2, TaskKinds DEF TaskStats, TypeInv, Steps
  <2>2. row \in [bids: Nat, wins: Nat]
    BY <1>0, <2>1 DEF Task
  <2>3. t \in Task /\ t.job = task[w].job
    BY <2>1, <2>2 DEF Task, Steps
  <2>4. task' = [task EXCEPT ![w] = t]
    BY <1>2 DEF TaskStats
  <2> HIDE DEF t
  <2>5. QED
    BY <1>0, <1>2, <2>1, <2>3, <2>4, TaskStep DEF TaskStats
<1>3. CASE TaskRecount(w)
  <2> DEFINE t == [task[w] EXCEPT !.pc = "restat",
                     !.total = Cardinality(PublicBids(task[w].user)), !.wins = 0]
  <2>1. task[w] \in Task /\ task[w] # Idle
    BY <1>3, TaskKinds DEF TaskRecount, TypeInv, Steps
  <2>2. Cardinality(PublicBids(task[w].user)) \in Nat
    BY PublicBidsFinite DEF TypeInv
  <2>3. t \in Task /\ t.job = task[w].job
    BY <2>1, <2>2 DEF Task, Steps
  <2>4. task' = [task EXCEPT ![w] = t]
    BY <1>3 DEF TaskRecount
  <2> HIDE DEF t
  <2>5. QED
    BY <1>0, <1>3, <2>1, <2>3, <2>4, TaskStep DEF TaskRecount
<1>4. CASE TaskRestat(w)
  <2> DEFINE t == [task[w] EXCEPT !.pc = "ratio"]
  <2>1. task[w] \in Task /\ task[w] # Idle
    BY <1>4, TaskKinds DEF TaskRestat, TypeInv, Steps
  <2>2. t \in Task /\ t.job = task[w].job
    BY <2>1 DEF Task, Steps
  <2>3. task' = [task EXCEPT ![w] = t]
    BY <1>4 DEF TaskRestat
  <2>4. stats' \in [Users -> [bids: Nat, wins: Nat]]
    BY <1>0, <1>4, <2>1 DEF TaskRestat, Task
  <2> HIDE DEF t
  <2>5. QED
    BY <1>0, <1>4, <2>1, <2>2, <2>3, <2>4, TaskStep DEF TaskRestat
<1>5. CASE TaskEnforce(w)
  <2>1. task[w] # Idle
    BY <1>5, TaskKinds DEF TaskEnforce, TypeInv, Steps
  <2>2. QED
    BY <1>0, <1>5, <2>1, TaskStep DEF TaskEnforce
<1>6. CASE TaskFail(w)
  BY <1>0, <1>6, TaskStep DEF TaskFail
<1>7. QED
  BY <1>1, <1>2, <1>3, <1>4, <1>5, <1>6 DEF Analyse

LEMMA StaffTypes ==
  ASSUME TypeInv, NEW u \in Users, Staff(u)
  PROVE  TypeInv'
<1> USE DEF TypeInv
<1>0. edits < MaxEdits => edits + 1 \in 0 .. MaxEdits
  BY PointsAssumption DEF RiskTypeOK
<1>1. ASSUME NEW s \in StaffScores, StaffScore(u, s) PROVE TypeInv'
  <2>1. s \in Nat
    BY PointsAssumption
  <2>2. RiskTypeOK'
    BY <1>0, <1>1, <2>1 DEF StaffScore, RiskTypeOK
  <2>3. QED
    BY <1>1, <2>2, KnownKept DEF StaffScore
<1>2. CASE StaffStats(u)
  <2>1. stats' \in [Users -> [bids: Nat, wins: Nat]]
    BY <1>2, StatsTyped DEF StaffStats
  <2>2. RiskTypeOK'
    BY <1>0, <1>2, <2>1 DEF StaffStats, RiskTypeOK
  <2>3. QED
    BY <1>2, <2>2, KnownKept DEF StaffStats
<1>3. CASE StaffActivate(u)
  <2>1. RiskTypeOK'
    BY <1>0, <1>3 DEF StaffActivate, RiskTypeOK
  <2>2. QED
    BY <1>3, <2>1, KnownKept DEF StaffActivate
<1>4. QED
  BY <1>1, <1>2, <1>3 DEF Staff

LEMMA DecayTypes ==
  ASSUME TypeInv, DecayLinear \/ DecayLoad \/ \E u \in Users : DecayRow(u)
  PROVE  TypeInv'
<1> USE DEF TypeInv
<1>1. CASE DecayLinear
  <2>0. DecayPoints \in Nat /\ \A u \in Users : score[u] \in Nat
    BY PointsAssumption DEF RiskTypeOK
  <2>1. score' \in [Users -> Nat]
    BY <1>1, <2>0 DEF DecayLinear
  <2>2. RiskTypeOK'
    BY <1>1, <2>1 DEF DecayLinear, RiskTypeOK
  <2>3. QED
    BY <1>1, <2>2, KnownKept DEF DecayLinear
<1>2. CASE DecayLoad
  <2> DEFINE D == {v \in Users : score[v] > 0}
  <2>1. D \in SUBSET Users /\ decaying' \in [D -> Nat]
    BY <1>2 DEF DecayLoad, RiskTypeOK
  <2>2. \E E \in SUBSET Users : decaying' \in [E -> Nat]
    BY <2>1
  <2>3. RiskTypeOK'
    BY <1>2, <2>2 DEF DecayLoad, RiskTypeOK
  <2>4. QED
    BY <1>2, <2>3, KnownKept DEF DecayLoad
<1>3. ASSUME NEW u \in Users, DecayRow(u) PROVE TypeInv'
  <2>1. PICK D \in SUBSET Users : decaying \in [D -> Nat]
    BY DEF RiskTypeOK
  <2>2. Multiplied(decaying[u]) \in Nat
    BY <1>3, <2>1, PointsAssumption DEF DecayRow, Multiplied
  <2>3. score' \in [Users -> Nat]
    BY <1>3, <2>2 DEF DecayRow, RiskTypeOK
  <2>4. D \ {u} \in SUBSET Users /\ decaying' \in [D \ {u} -> Nat]
    BY <1>3, <2>1 DEF DecayRow
  <2>5. \E E \in SUBSET Users : decaying' \in [E -> Nat]
    BY <2>4
  <2>6. RiskTypeOK'
    BY <1>3, <2>3, <2>5 DEF DecayRow, RiskTypeOK
  <2>7. QED
    BY <1>3, <2>6, KnownKept DEF DecayRow
<1>4. QED
  BY <1>1, <1>2, <1>3

LEMMA RiskTypeStep ==
  ASSUME TypeInv, RNext PROVE TypeInv'
<1>1. ASSUME NEW u \in Users, NEW ip \in Ips, Sample(u, ip) PROVE TypeInv'
  <2>1. RiskTypeOK'
    BY <1>1 DEF Sample, TypeInv, RiskTypeOK
  <2>2. QED
    BY <1>1, <2>1, KnownKept DEF Sample, TypeInv
<1>2. CASE CleanUp
  <2>1. RiskTypeOK'
    BY <1>2 DEF CleanUp, TypeInv, RiskTypeOK
  <2>2. QED
    BY <1>2, <2>1, KnownKept DEF CleanUp, TypeInv
<1>3. CASE PlaceRefused
  <2>1. RiskTypeOK'
    BY <1>3 DEF PlaceRefused, TypeInv, RiskTypeOK
  <2>2. QED
    BY <1>3, <2>1, KnownKept DEF PlaceRefused, TypeInv
<1>4. QED
  BY <1>1, <1>2, <1>3, PlaceTypes, LoadTypes, AnalyseTypes, StaffTypes, DecayTypes DEF RNext

LEMMA RiskTypeInit == RInit => TypeInv
<1> SUFFICES ASSUME RInit PROVE TypeInv
  OBVIOUS
<1>1. decaying \in [{} -> Nat] /\ bids \in Seq(BidRow)
  BY DEF RInit
<1>2. RiskTypeOK
  <2>1. \E D \in SUBSET Users : decaying \in [D -> Nat]
    BY <1>1
  <2>2. edits \in 0 .. MaxEdits
    BY PointsAssumption DEF RInit
  <2>3. score \in [Users -> Nat] /\ given \in [Users -> Nat]
    BY DEF RInit
  <2>4. stats \in [Users -> [bids: Nat, wins: Nat]]
    BY DEF RInit
  <2>5. /\ mode \in Modes /\ active \subseteq Users /\ prints \subseteq Users \X Ips
        /\ placing = Nobody /\ jobs \subseteq Job /\ task \in [Workers -> Task \cup {Idle}]
    BY DEF RInit
  <2>6. QED
    BY <1>1, <2>1, <2>2, <2>3, <2>4, <2>5 DEF RiskTypeOK
<1>3. Known
  BY DEF RInit, Known
<1>4. QED
  BY <1>2, <1>3 DEF TypeInv

LEMMA RiskTypeQuiet == TypeInv /\ UNCHANGED rvars => TypeInv'
BY DEF TypeInv, RiskTypeOK, Known, rvars

(* Scores, counters, bids, analyses and tasks have their types; every      *)
(* analysis in the queue or under way is of a bid that exists.             *)
THEOREM RiskTypeCorrect == RSpec => []RiskTypeOK
<1>1. TypeInv /\ [RNext]_rvars => TypeInv'
  BY RiskTypeStep, RiskTypeQuiet
<1>2. TypeInv => RiskTypeOK
  BY DEF TypeInv
<1>3. QED
  BY RiskTypeInit, <1>1, <1>2, PTL DEF RSpec
-----------------------------------------------------------------------------
(* One ACCEPTED public bid at most.                                        *)
LEMMA OnlyPlaceBids ==
  ASSUME RNext, \A u \in Users : ~PlaceCommit(u)
  PROVE  bids' = bids
BY DEF RNext, PlaceCheck, PlaceRefused, Sample, CleanUp, DecayRow, DecayLoad, DecayLinear,
       Staff, StaffScore, StaffStats, StaffActivate, TaskLoad, TaskFail, Analyse,
       TaskPumping, TaskSharedIp, TaskStats, TaskRecount, TaskRestat, TaskWinRatio,
       TaskEnforce, Signal, OthersKept

LEMMA AcceptedStep ==
  ASSUME TypeInv, OneAccepted, RNext PROVE OneAccepted'
<1>1. CASE \A u \in Users : ~PlaceCommit(u)
  <2>1. bids' = bids
    BY <1>1, OnlyPlaceBids
  <2>2. QED
    BY <2>1 DEF OneAccepted, Accepted, Public
<1>2. ASSUME NEW u \in Users, PlaceCommit(u) PROVE OneAccepted'
  <2>0. PICK n : n = Len(bids) + 1
    OBVIOUS
  <2>1. placing.suppress \in BOOLEAN
    BY <1>2, Loaded DEF PlaceCommit, TypeInv
  <2>2. /\ DOMAIN bids' = 1 .. n /\ DOMAIN bids = 1 .. Len(bids) /\ Len(bids) \in Nat
        /\ \A b \in DOMAIN bids : bids'[b] = IF Accepted(b) /\ ~placing.suppress
                                             THEN [bids[b] EXCEPT !.status = "outbid"]
                                             ELSE bids[b]
        /\ bids'[n] = [bidder |-> u, status |-> "accepted", public |-> ~placing.suppress]
    BY <1>2, <2>0, <2>1, WithBidTable, BidFields DEF PlaceCommit, TypeInv
  <2>3. ASSUME NEW b \in DOMAIN bids, Accepted(b)'
        PROVE  Accepted(b) /\ placing.suppress
    <3>1. bids[b] \in BidRow
      BY BidFields DEF TypeInv
    <3>2. CASE Accepted(b) /\ ~placing.suppress
      <4>1. bids'[b].status = "outbid"
        BY <2>2, <3>1, <3>2 DEF BidRow
      <4>2. QED
        BY <2>3, <4>1 DEF Accepted
    <3>3. CASE ~(Accepted(b) /\ ~placing.suppress)
      <4>1. bids'[b] = bids[b]
        BY <2>2, <3>3
      <4>2. Accepted(b)
        BY <2>3, <4>1 DEF Accepted, Public
      <4>3. QED
        BY <3>3, <4>2
    <3>4. QED
      BY <3>2, <3>3
  <2>4. Accepted(n)' => ~placing.suppress
    <3>1. placing.suppress = TRUE => bids'[n].public = FALSE
      <4>1. CASE placing.suppress = TRUE
        <5>1. bids'[n] = [bidder |-> u, status |-> "accepted", public |-> FALSE]
          BY <2>2, <4>1
        <5>2. QED
          BY <5>1
      <4>2. QED
        BY <4>1
    <3>2. Accepted(n)' => bids'[n].public
      BY Zenon DEF Accepted, Public
    <3>3. QED
      BY <2>1, <3>1, <3>2
  <2> SUFFICES ASSUME NEW b \in DOMAIN bids', NEW c \in DOMAIN bids',
                      Accepted(b)', Accepted(c)'
               PROVE  b = c
    BY DEF OneAccepted
  <2>5. (b \in DOMAIN bids \/ b = n) /\ (c \in DOMAIN bids \/ c = n)
    BY <2>0, <2>2
  <2>6. QED
    BY <2>3, <2>4, <2>5 DEF OneAccepted
<1>3. QED
  BY <1>1, <1>2

LEMMA NothingToSee ==
  ASSUME RiskTypeOK, OneAccepted
  PROVE  ~BidPumping /\ \A u \in Users : PriorRun(u) <= 1
<1> DEFINE A == {b \in DOMAIN bids : Accepted(b)}
<1>1. Cardinality(A) <= 1 /\ IsFiniteSet(A)
  <2>0. IsFiniteSet({}) /\ Cardinality({}) = 0
    BY FS_EmptySet
  <2>1. CASE A = {}
    <3>1. Cardinality(A) = 0 /\ IsFiniteSet(A)
      BY <2>0, <2>1, Zenon
    <3>2. QED
      BY <3>1
  <2>2. CASE A # {}
    <3>1. PICK b : A = {b}
      BY <2>2 DEF OneAccepted
    <3>2. IsFiniteSet({b}) /\ Cardinality({b}) = 1
      BY FS_Singleton
    <3>3. Cardinality(A) = 1 /\ IsFiniteSet(A)
      BY <3>1, <3>2, Zenon
    <3>4. QED
      BY <3>3
  <2>3. QED
    BY <2>1, <2>2
<1> HIDE DEF A
<1>2. \A S : S \subseteq A => Cardinality(S) \in Nat /\ Cardinality(S) <= 1
  BY <1>1, FS_Subset, FS_CardinalityType
<1>3. ~BidPumping
  <2>1. LastAccepted \subseteq A
    BY DEF LastAccepted, A
  <2>2. PumpLength > 1
    BY PointsAssumption
  <2>3. QED
    BY <1>2, <2>1, <2>2, PointsAssumption DEF BidPumping
<1>4. ASSUME NEW u \in Users PROVE PriorRun(u) <= 1
  <2> DEFINE S == {b \in DOMAIN bids :
                     /\ Accepted(b) /\ bids[b].bidder = u
                     /\ \A c \in Newer(b) : bids[c].bidder = u}
  <2>1. S \subseteq A
    BY DEF A
  <2>2. QED
    BY <1>2, <2>1 DEF PriorRun
<1>5. QED
  BY <1>3, <1>4
-----------------------------------------------------------------------------
(* The counters: how many public bids a user has only grows.               *)
LEMMA CommitCounts ==
  ASSUME TypeInv, NEW u \in Users, PlaceCommit(u), NEW v \in Users
  PROVE  /\ Cardinality(PublicBids(v)) <= Cardinality(PublicBids(v)')
         /\ Cardinality(PublicBids(v)) \in Nat /\ Cardinality(PublicBids(v)') \in Nat
         /\ v = u /\ ~placing.suppress
              => Cardinality(PublicBids(v)') = Cardinality(PublicBids(v)) + 1
<1>0. PICK n : n = Len(bids) + 1
  OBVIOUS
<1>1. placing.suppress \in BOOLEAN
  BY Loaded DEF PlaceCommit, TypeInv
<1>2. /\ DOMAIN bids' = 1 .. n /\ DOMAIN bids = 1 .. Len(bids) /\ Len(bids) \in Nat
      /\ \A b \in DOMAIN bids : bids'[b] = IF Accepted(b) /\ ~placing.suppress
                                           THEN [bids[b] EXCEPT !.status = "outbid"]
                                           ELSE bids[b]
      /\ bids'[n] = [bidder |-> u, status |-> "accepted", public |-> ~placing.suppress]
  BY <1>0, <1>1, WithBidTable, BidFields DEF PlaceCommit, TypeInv
<1>3. \A b \in DOMAIN bids : bids'[b].bidder = bids[b].bidder /\ bids'[b].public = bids[b].public
  <2> SUFFICES ASSUME NEW b \in DOMAIN bids
               PROVE  bids'[b].bidder = bids[b].bidder /\ bids'[b].public = bids[b].public
    OBVIOUS
  <2>1. bids[b] \in BidRow
    BY BidFields DEF TypeInv
  <2>2. CASE Accepted(b) /\ ~placing.suppress
    <3>1. bids'[b] = [bids[b] EXCEPT !.status = "outbid"]
      BY <1>2, <2>2
    <3>2. QED
      BY <2>1, <3>1 DEF BidRow
  <2>3. CASE ~(Accepted(b) /\ ~placing.suppress)
    BY <1>2, <2>3
  <2>4. QED
    BY <2>2, <2>3
<1>4. n \notin DOMAIN bids /\ DOMAIN bids' = DOMAIN bids \cup {n}
  BY <1>0, <1>2
<1>5. PublicBids(v) \subseteq PublicBids(v)' /\ PublicBids(v)' \subseteq PublicBids(v) \cup {n}
  BY <1>3, <1>4 DEF PublicBids, Public
<1>6. n \notin PublicBids(v)
  BY <1>4 DEF PublicBids
<1>7. IsFiniteSet(PublicBids(v)) /\ Cardinality(PublicBids(v)) \in Nat
  BY PublicBidsFinite DEF TypeInv
<1>8. /\ IsFiniteSet(PublicBids(v) \cup {n})
      /\ Cardinality(PublicBids(v) \cup {n}) = Cardinality(PublicBids(v)) + 1
  BY <1>6, <1>7, FS_AddElement
<1>9. PublicBids(v)' = PublicBids(v) \/ PublicBids(v)' = PublicBids(v) \cup {n}
  BY <1>5
<1>10. v = u /\ ~placing.suppress => PublicBids(v)' = PublicBids(v) \cup {n}
  <2> SUFFICES ASSUME v = u, ~placing.suppress PROVE n \in PublicBids(v)'
    BY <1>5
  <2>1. bids'[n] = [bidder |-> u, status |-> "accepted", public |-> TRUE]
    BY <1>2
  <2>2. QED
    BY <1>4, <2>1 DEF PublicBids, Public
<1>11. CASE PublicBids(v)' = PublicBids(v)
  <2>1. Cardinality(PublicBids(v)') = Cardinality(PublicBids(v))
    BY <1>11, Zenon
  <2>2. ~(v = u /\ ~placing.suppress)
    BY <1>6, <1>10, <1>11
  <2>3. QED
    BY <1>7, <2>1, <2>2
<1>12. CASE PublicBids(v)' = PublicBids(v) \cup {n}
  <2>1. Cardinality(PublicBids(v)') = Cardinality(PublicBids(v) \cup {n})
    BY <1>12, Zenon
  <2>2. QED
    BY <1>7, <1>8, <2>1
<1>13. QED
  BY <1>9, <1>11, <1>12

(* A step that leaves the bids alone, writes no counter that is too high   *)
(* and starts no recount.                                                  *)
LEMMA CountQuiet ==
  ASSUME CountInv, bids' = bids,
         \A u \in Users : stats'[u].bids <= stats[u].bids,
         \A u \in Users : stats[u].bids \in Nat /\ stats'[u].bids \in Nat
                          /\ Cardinality(PublicBids(u)) \in Nat,
         \A w \in Workers : At(w, "restat")' => At(w, "restat") /\ task'[w] = task[w]
  PROVE  CountInv'
<1>1. \A u : PublicBids(u)' = PublicBids(u)
  BY DEF PublicBids, Public
<1>2. CountsNoBidTwice'
  <2> SUFFICES ASSUME NEW u \in Users PROVE stats'[u].bids <= Cardinality(PublicBids(u))
    BY <1>1 DEF CountsNoBidTwice
  <2>1. stats[u].bids <= Cardinality(PublicBids(u))
    BY DEF CountInv, CountsNoBidTwice
  <2>2. QED
    BY <2>1
<1>3. Recounted'
  <2> SUFFICES ASSUME NEW w \in Workers, At(w, "restat")'
               PROVE  task'[w].total <= Cardinality(PublicBids(task'[w].user))
    BY <1>1 DEF Recounted
  <2>1. QED
    BY DEF CountInv, Recounted
<1>4. QED
  BY <1>2, <1>3 DEF CountInv

LEMMA CountsTyped ==
  ASSUME TypeInv, TypeInv'
  PROVE  \A u \in Users : stats[u].bids \in Nat /\ stats'[u].bids \in Nat
                          /\ Cardinality(PublicBids(u)) \in Nat
<1>1. \A u \in Users : stats[u] \in [bids: Nat, wins: Nat] /\ stats'[u] \in [bids: Nat, wins: Nat]
  BY DEF TypeInv, RiskTypeOK
<1>2. \A u \in Users : stats[u].bids \in Nat /\ stats'[u].bids \in Nat
  BY <1>1
<1>3. QED
  BY <1>2, PublicBidsFinite DEF TypeInv

LEMMA CommitStep ==
  ASSUME TypeInv, TypeInv', CountInv, NEW u \in Users, PlaceCommit(u)
  PROVE  CountInv'
<1>1. \A v \in Users :
        /\ Cardinality(PublicBids(v)) <= Cardinality(PublicBids(v)')
        /\ Cardinality(PublicBids(v)) \in Nat /\ Cardinality(PublicBids(v)') \in Nat
        /\ v = u /\ ~placing.suppress
             => Cardinality(PublicBids(v)') = Cardinality(PublicBids(v)) + 1
  BY CommitCounts
<1>2. \A v \in Users : Cardinality(PublicBids(v)) \in Nat /\ Cardinality(PublicBids(v)') \in Nat
  BY <1>1
<1>3. CountsNoBidTwice'
  <2> SUFFICES ASSUME NEW v \in Users
               PROVE  stats'[v].bids <= Cardinality(PublicBids(v)')
    BY DEF CountsNoBidTwice
  <2>1. stats[v].bids \in Nat /\ stats[v].bids <= Cardinality(PublicBids(v))
    BY CountsTyped DEF CountInv, CountsNoBidTwice
  <2>2. stats[u] \in [bids: Nat, wins: Nat] /\ stats \in [Users -> [bids: Nat, wins: Nat]]
    BY DEF TypeInv, RiskTypeOK
  <2>3. CASE v = u /\ ~placing.suppress
    <3>1. stats'[v].bids = stats[v].bids + 1
      BY <2>2, <2>3 DEF PlaceCommit, Counted
    <3>2. QED
      BY <1>1, <1>2, <2>1, <2>3, <3>1
  <2>4. CASE ~(v = u /\ ~placing.suppress)
    <3>1. stats'[v] = stats[v]
      BY <2>2, <2>4 DEF PlaceCommit, Counted
    <3>2. QED
      BY <1>1, <1>2, <2>1, <3>1
  <2>5. QED
    BY <2>3, <2>4
<1>4. Recounted'
  <2> SUFFICES ASSUME NEW w \in Workers, At(w, "restat")'
               PROVE  task'[w].total <= Cardinality(PublicBids(task[w].user))'
    BY DEF Recounted
  <2>1. task' = task
    BY DEF PlaceCommit
  <2>2. At(w, "restat")
    BY <2>1 DEF At
  <2>3. task[w] \in Task /\ task[w].user \in Users /\ task[w].total \in Nat
    BY <2>2, TaskKinds DEF TypeInv, Steps, Task
  <2>4. task[w].total <= Cardinality(PublicBids(task[w].user))
    BY <2>2 DEF CountInv, Recounted
  <2>5. PICK v \in Users : v = task[w].user
    BY <2>3
  <2>6. task[w].total <= Cardinality(PublicBids(v)')
    BY <1>1, <1>2, <2>3, <2>4, <2>5
  <2>7. PublicBids(task[w].user)' = PublicBids(v)'
    BY <2>1, <2>5 DEF PublicBids
  <2>8. QED
    BY <2>1, <2>6, <2>7
<1>5. QED
  BY <1>3, <1>4 DEF CountInv

(* The steps of an analysis: only a recount sets out to write a counter.   *)
LEMMA WriteStep ==
  ASSUME TypeInv, TypeInv', CountInv, NEW w \in Workers, TaskRestat(w)
  PROVE  CountInv'
<1> DEFINE u == task[w].user
<1>1. task[w] \in Task /\ u \in Users /\ task[w].total \in Nat /\ task \in [Workers -> Task \cup {Idle}]
  BY TaskKinds DEF TaskRestat, TypeInv, RiskTypeOK, Steps, Task
<1>2. task[w].total <= Cardinality(PublicBids(u))
  BY DEF TaskRestat, CountInv, Recounted
<1>3. stats' = [stats EXCEPT ![u] = [bids |-> task[w].total, wins |-> task[w].wins]]
  BY DEF TaskRestat
<1>4. \A v : PublicBids(v)' = PublicBids(v)
  BY DEF TaskRestat, OthersKept, PublicBids, Public
<1>5. CountsNoBidTwice'
  <2> SUFFICES ASSUME NEW v \in Users PROVE stats'[v].bids <= Cardinality(PublicBids(v))
    BY <1>4 DEF CountsNoBidTwice
  <2>1. stats \in [Users -> [bids: Nat, wins: Nat]]
    BY DEF TypeInv, RiskTypeOK
  <2> HIDE DEF u
  <2>2. CASE v = u
    <3>1. stats'[v].bids = task[w].total
      BY <1>1, <1>3, <2>1, <2>2
    <3>2. QED
      BY <1>2, <2>2, <3>1
  <2>3. CASE v # u
    <3>1. stats'[v] = stats[v]
      BY <1>3, <2>1, <2>3
    <3>2. QED
      BY <3>1 DEF CountInv, CountsNoBidTwice
  <2>4. QED
    BY <2>2, <2>3
<1>6. Recounted'
  <2> SUFFICES ASSUME NEW v \in Workers, At(v, "restat")'
               PROVE  task'[v].total <= Cardinality(PublicBids(task[v].user))'
    BY DEF Recounted
  <2>1. v # w /\ task'[v] = task[v]
    BY <1>1 DEF TaskRestat, At, Task
  <2>2. task[v].total <= Cardinality(PublicBids(task[v].user))
    BY <2>1 DEF CountInv, Recounted, At
  <2>3. PublicBids(task[v].user)' = PublicBids(task[v].user)
    BY <2>1 DEF TaskRestat, OthersKept, PublicBids, Public
  <2>4. QED
    BY <2>1, <2>2, <2>3
<1>7. QED
  BY <1>5, <1>6 DEF CountInv

LEMMA ReadStep ==
  ASSUME TypeInv, TypeInv', CountInv, NEW w \in Workers, TaskRecount(w)
  PROVE  CountInv'
<1>1. task[w] \in Task /\ task \in [Workers -> Task \cup {Idle}]
  BY TaskKinds DEF TaskRecount, TypeInv, RiskTypeOK, Steps
<1>2. \A v : PublicBids(v)' = PublicBids(v)
  BY DEF TaskRecount, OthersKept, PublicBids, Public
<1>3. CountsNoBidTwice'
  BY <1>2 DEF TaskRecount, CountInv, CountsNoBidTwice
<1>4. Recounted'
  <2> SUFFICES ASSUME NEW v \in Workers, At(v, "restat")'
               PROVE  task'[v].total <= Cardinality(PublicBids(task'[v].user))
    BY <1>2 DEF Recounted
  <2>1. CASE v = w
    <3>1. task'[w].total = Cardinality(PublicBids(task[w].user)) /\ task'[w].user = task[w].user
      BY <1>1 DEF TaskRecount, Task
    <3>2. Cardinality(PublicBids(task[w].user)) \in Nat
      BY PublicBidsFinite DEF TypeInv
    <3>3. QED
      BY <2>1, <3>1, <3>2
  <2>2. CASE v # w
    <3>1. task'[v] = task[v]
      BY <1>1, <2>2 DEF TaskRecount
    <3>2. QED
      BY <3>1 DEF CountInv, Recounted, At
  <2>3. QED
    BY <2>1, <2>2
<1>5. QED
  BY <1>3, <1>4 DEF CountInv

LEMMA OtherTaskStep ==
  ASSUME TypeInv, TypeInv', CountInv, NEW w \in Workers,
         TaskPumping(w) \/ TaskSharedIp(w) \/ TaskStats(w) \/ TaskWinRatio(w)
           \/ TaskEnforce(w) \/ TaskFail(w) \/ \E j \in jobs : TaskLoad(w, j)
  PROVE  CountInv'
<1>1. bids' = bids /\ stats' = stats
  BY DEF TaskPumping, TaskSharedIp, TaskStats, TaskWinRatio, TaskEnforce, TaskFail, TaskLoad,
         Signal, OthersKept
<1>2. task \in [Workers -> Task \cup {Idle}]
  BY DEF TypeInv, RiskTypeOK
<1>3. \A v \in Workers : v # w => task'[v] = task[v]
  BY <1>2 DEF TaskPumping, TaskSharedIp, TaskStats, TaskWinRatio, TaskEnforce, TaskFail,
              TaskLoad, Signal
<1>4. ~At(w, "restat")'
  <2>1. CASE TaskPumping(w) \/ TaskSharedIp(w) \/ TaskWinRatio(w)
    <3>1. task[w] \in Task
      BY <2>1, TaskKinds DEF TaskPumping, TaskSharedIp, TaskWinRatio, Signal, TypeInv, Steps
    <3>2. task'[w].pc \in {"shared", "stats", "enforce"}
      BY <1>2, <2>1, <3>1 DEF TaskPumping, TaskSharedIp, TaskWinRatio, Signal, Task
    <3>3. QED
      BY <3>2 DEF At
  <2>2. CASE TaskStats(w)
    <3>1. task[w] \in Task
      BY <2>2, TaskKinds DEF TaskStats, TypeInv, Steps
    <3>2. task'[w].pc \in {"recount", "ratio"}
      BY <1>2, <2>2, <3>1 DEF TaskStats, Task
    <3>3. QED
      BY <3>2 DEF At
  <2>3. CASE TaskEnforce(w) \/ TaskFail(w)
    BY <1>2, <2>3 DEF TaskEnforce, TaskFail, At, Idle
  <2>4. CASE \E j \in jobs : TaskLoad(w, j)
    BY <1>2, <2>4 DEF TaskLoad, At
  <2>5. QED
    BY <2>1, <2>2, <2>3, <2>4
<1>5. \A v \in Workers : At(v, "restat")' => At(v, "restat") /\ task'[v] = task[v]
  BY <1>3, <1>4 DEF At
<1>6. \A u \in Users : stats[u].bids \in Nat /\ stats'[u].bids \in Nat
                       /\ Cardinality(PublicBids(u)) \in Nat
  BY CountsTyped
<1>7. \A u \in Users : stats'[u].bids <= stats[u].bids
  BY <1>1, <1>6
<1>8. QED
  BY <1>1, <1>5, <1>6, <1>7, CountQuiet

LEMMA OutsideStep ==
  ASSUME TypeInv, TypeInv', CountInv,
         \/ PlaceRefused \/ CleanUp \/ DecayLinear \/ DecayLoad
         \/ \E u \in Users : PlaceCheck(u) \/ DecayRow(u) \/ Staff(u)
         \/ \E u \in Users, ip \in Ips : Sample(u, ip)
  PROVE  CountInv'
<1>1. bids' = bids /\ task' = task
  BY DEF PlaceRefused, CleanUp, DecayLinear, DecayLoad, PlaceCheck, DecayRow, Staff,
         StaffScore, StaffStats, StaffActivate, Sample
<1>2. \A u \in Users : stats[u].bids \in Nat /\ stats'[u].bids \in Nat
                       /\ Cardinality(PublicBids(u)) \in Nat
  BY CountsTyped
<1>3. stats \in [Users -> [bids: Nat, wins: Nat]]
  BY DEF TypeInv, RiskTypeOK
<1>4. \A u \in Users : stats'[u].bids <= stats[u].bids
  <2>1. CASE stats' = stats
    BY <1>2, <2>1
  <2>2. ASSUME NEW v \in Users, StaffStats(v)
        PROVE  \A u \in Users : stats'[u].bids <= stats[u].bids
    <3> SUFFICES ASSUME NEW u \in Users PROVE stats'[u].bids <= stats[u].bids
      OBVIOUS
    <3>1. stats[u] \in [bids: Nat, wins: Nat]
      BY <1>3
    <3>2. stats'[u].bids = stats[u].bids \/ stats'[u].bids = 0
      BY <1>3, <2>2, <3>1 DEF StaffStats
    <3>3. QED
      BY <1>2, <3>2
  <2>3. QED
    BY <2>1, <2>2 DEF PlaceRefused, CleanUp, DecayLinear, DecayLoad, PlaceCheck, DecayRow,
         Staff, StaffScore, StaffActivate, Sample
<1>5. \A w \in Workers : At(w, "restat")' => At(w, "restat") /\ task'[w] = task[w]
  BY <1>1 DEF At
<1>6. QED
  BY <1>1, <1>2, <1>4, <1>5, CountQuiet

(* No counter exceeds the public bids of its user, with any number of      *)
(* bids, analyses, retries and recounts side by side.                      *)
THEOREM CountersStayBelow == RSpec => []CountsNoBidTwice
<1> DEFINE Inv == TypeInv /\ CountInv
<1>1. RInit => CountInv
  <2> SUFFICES ASSUME RInit PROVE CountInv
    OBVIOUS
  <2>1. \A u \in Users : stats[u].bids = 0 /\ Cardinality(PublicBids(u)) \in Nat
    BY RiskTypeInit, PublicBidsFinite DEF RInit, TypeInv
  <2>2. QED
    BY <2>1 DEF RInit, CountInv, CountsNoBidTwice, Recounted, At, Idle
<1>2. Inv /\ [RNext]_rvars => Inv'
  <2>1. Inv /\ RNext => Inv'
    BY RiskTypeStep, CommitStep, WriteStep, ReadStep, OtherTaskStep, OutsideStep
       DEF RNext, Analyse
  <2>2. CountInv /\ UNCHANGED rvars => CountInv'
    BY DEF CountInv, CountsNoBidTwice, Recounted, PublicBids, Public, At, rvars
  <2>3. QED
    BY <2>1, <2>2, RiskTypeQuiet
<1>3. Inv => CountsNoBidTwice
  BY DEF CountInv
<1>4. QED
  BY RiskTypeInit, <1>1, <1>2, <1>3, PTL DEF RSpec
-----------------------------------------------------------------------------
(* The points of a score, told apart: each bid of a user can be worth      *)
(* PointsPerBid points, and those an analysis may still give are not spent *)
(* yet.  A point is a pair of a bid and a number.                          *)
Attempt == IpBump + WinBump

(* Points given for the bid before this attempt.                           *)
Before(j) == SelfBump + j.tries * Attempt

(* Points given for the bid up to where an analysis is.                    *)
Earned(t) ==
  Before(t.job) + IF t.pc = "enforce" THEN Attempt
                  ELSE IF t.pc \in {"pumping", "shared"} THEN 0 ELSE IpBump

Works(w, b) == task[w] # Idle /\ task[w].job.bid = b

Spent(b, i) ==
  /\ \A j \in jobs : j.bid = b => i <= Before(j)
  /\ \A w \in Workers : Works(w, b) => i <= Earned(task[w])

Points(u) ==
  {p \in (DOMAIN bids) \X (1 .. PointsPerBid) : bids[p[1]].bidder = u /\ Spent(p[1], p[2])}

Bound(u) == given[u] + Cardinality(Points(u))

(* A bid is analysed once at a time, and for its bidder.                   *)
OneAnalysis ==
  /\ \A i, j \in jobs : i.bid = j.bid => i = j
  /\ \A v, w \in Workers, b \in DOMAIN bids : Works(v, b) /\ Works(w, b) => v = w
  /\ \A j \in jobs, w \in Workers : ~Works(w, j.bid)

Owned == \A w \in Workers : task[w] # Idle => task[w].user = bids[task[w].job.bid].bidder

(* Not only the score is within the bound: so is whatever has been read of *)
(* it and may still be written back.                                       *)
Within ==
  /\ \A u \in Users : score[u] <= Bound(u)
  /\ \A w \in Workers : task[w] # Idle => task[w].seen <= Bound(task[w].user)
  /\ \A u \in Users : placing.user = u => placing.seen <= Bound(u)
  /\ \A u \in DOMAIN decaying : decaying[u] <= Bound(u)

PointsInv == OneAnalysis /\ Owned /\ Within

LEMMA Arithmetic ==
  /\ Attempt \in Nat /\ PointsPerBid \in Nat /\ SelfBump \in Nat /\ IpBump \in Nat
  /\ IpBump <= Attempt /\ Attempt = IpBump + WinBump /\ SelfBump <= PointsPerBid
  /\ \A j \in Job : Before(j) \in Nat /\ Before(j) + Attempt <= PointsPerBid
  /\ \A j \in Job : j.tries < MaxRetries
       => /\ [j EXCEPT !.tries = @ + 1] \in Job
          /\ [j EXCEPT !.tries = @ + 1].bid = j.bid
          /\ Before([j EXCEPT !.tries = @ + 1]) = Before(j) + Attempt
<1>1. /\ IpBump \in Nat /\ WinBump \in Nat /\ SelfBump \in Nat /\ MaxRetries \in Nat
  BY PointsAssumption
<1>2. PICK a \in Nat : a = Attempt /\ a = IpBump + WinBump
  BY <1>1 DEF Attempt
<1>3. PointsPerBid = (1 + MaxRetries) * a + SelfBump
  BY <1>2 DEF PointsPerBid
<1>4. \A m, n \in Nat : m <= n => m * a <= n * a /\ m * a \in Nat
  BY <1>2
<1>5. \A m \in Nat : (m + 1) * a = m * a + a
  BY <1>2
<1>6. PointsPerBid \in Nat /\ SelfBump <= PointsPerBid
  <2>1. (1 + MaxRetries) * a \in Nat
    BY <1>1, <1>4
  <2>2. QED
    BY <1>1, <1>3, <2>1
<1>7. ASSUME NEW j \in Job
      PROVE  /\ Before(j) \in Nat /\ Before(j) + Attempt <= PointsPerBid
             /\ j.tries < MaxRetries
                  => /\ [j EXCEPT !.tries = @ + 1] \in Job
                     /\ [j EXCEPT !.tries = @ + 1].bid = j.bid
                     /\ Before([j EXCEPT !.tries = @ + 1]) = Before(j) + Attempt
  <2>1. j.tries \in Nat /\ j.tries <= MaxRetries /\ j \in [bid: Nat, tries: 0 .. MaxRetries]
    BY <1>1 DEF Job
  <2>2. Before(j) = SelfBump + j.tries * a
    BY <1>2 DEF Before
  <2>3. j.tries * a \in Nat /\ j.tries * a <= MaxRetries * a /\ MaxRetries * a \in Nat
    BY <1>1, <1>4, <2>1
  <2>4. (1 + MaxRetries) * a = MaxRetries * a + a
    BY <1>1, <1>5
  <2>5. Before(j) \in Nat /\ Before(j) + Attempt <= PointsPerBid
    BY <1>1, <1>2, <1>3, <2>2, <2>3, <2>4
  <2>6. ASSUME j.tries < MaxRetries
        PROVE  /\ [j EXCEPT !.tries = @ + 1] \in Job
               /\ [j EXCEPT !.tries = @ + 1].bid = j.bid
               /\ Before([j EXCEPT !.tries = @ + 1]) = Before(j) + Attempt
    <3> DEFINE k == [j EXCEPT !.tries = @ + 1]
    <3>1. k \in Job /\ k.bid = j.bid /\ k.tries = j.tries + 1
      BY <1>1, <2>1, <2>6 DEF Job
    <3>2. Before(k) = SelfBump + (j.tries + 1) * a
      BY <1>2, <3>1 DEF Before
    <3>3. (j.tries + 1) * a = j.tries * a + a
      BY <1>5, <2>1
    <3>4. QED
      BY <1>1, <1>2, <2>2, <2>3, <3>1, <3>2, <3>3
  <2>7. QED
    BY <2>5, <2>6
<1>8. \A j \in Job : Before(j) \in Nat /\ Before(j) + Attempt <= PointsPerBid
  BY <1>7, Zenon
<1>9. \A j \in Job : j.tries < MaxRetries
       => /\ [j EXCEPT !.tries = @ + 1] \in Job
          /\ [j EXCEPT !.tries = @ + 1].bid = j.bid
          /\ Before([j EXCEPT !.tries = @ + 1]) = Before(j) + Attempt
  BY <1>7, Zenon
<1>10. Attempt \in Nat /\ IpBump <= Attempt /\ Attempt = IpBump + WinBump
  BY <1>1, <1>2
<1>11. QED
  BY <1>1, <1>6, <1>8, <1>9, <1>10, Zenon

LEMMA EarnedRange ==
  ASSUME NEW t \in Task
  PROVE  /\ Earned(t) \in Nat /\ Before(t.job) <= Earned(t)
         /\ Earned(t) <= Before(t.job) + Attempt /\ Earned(t) <= PointsPerBid
<1>1. t.job \in Job
  BY DEF Task
<1>2. QED
  BY <1>1, Arithmetic DEF Earned

(* A finite set that takes in k pairs more.                                *)
LEMMA GrowsBy ==
  ASSUME NEW S, NEW T, IsFiniteSet(T), S \subseteq T, NEW b, NEW s \in Nat, NEW k \in Nat,
         \A i \in s + 1 .. s + k : <<b, i>> \in T /\ <<b, i>> \notin S
  PROVE  Cardinality(S) + k <= Cardinality(T)
<1> DEFINE I == s + 1 .. s + k
           N == {b} \X I
<1>1. IsFiniteSet(I) /\ Cardinality(I) = k
  BY FS_Interval
<1>2. IsFiniteSet({b}) /\ Cardinality({b}) = 1
  BY FS_Singleton
<1>3. IsFiniteSet(N) /\ Cardinality(N) = k
  <2>1. IsFiniteSet(N) /\ Cardinality(N) = Cardinality({b}) * Cardinality(I)
    BY <1>1, <1>2, FS_Product
  <2>2. QED
    BY <1>1, <1>2, <2>1
<1>4. N \subseteq T /\ S \cap N = {}
  OBVIOUS
<1>5. IsFiniteSet(S) /\ Cardinality(S) \in Nat
  BY FS_Subset, FS_CardinalityType
<1> HIDE DEF N
<1>6. IsFiniteSet(S \cup N) /\ Cardinality(S \cup N) = Cardinality(S) + Cardinality(N) - 0
  BY <1>3, <1>4, <1>5, FS_Union, FS_EmptySet
<1>7. S \cup N \in SUBSET T
  BY <1>4
<1>8. Cardinality(S \cup N) <= Cardinality(T)
  BY <1>7, FS_Subset
<1>9. QED
  BY <1>3, <1>5, <1>6, <1>8

LEMMA PairsFinite ==
  ASSUME NEW n \in Nat, NEW S, S \subseteq (1 .. n) \X (1 .. PointsPerBid)
  PROVE  IsFiniteSet(S) /\ Cardinality(S) \in Nat
<1> DEFINE All == (1 .. n) \X (1 .. PointsPerBid)
<1>1. IsFiniteSet(1 .. n)
  BY FS_Interval
<1>2. IsFiniteSet(1 .. PointsPerBid)
  <2>1. PointsPerBid \in Nat
    BY Arithmetic
  <2>2. QED
    BY <2>1, FS_Interval
<1>3. IsFiniteSet(All)
  BY <1>1, <1>2, FS_Product
<1>4. S \in SUBSET All
  OBVIOUS
<1>5. QED
  BY <1>3, <1>4, FS_Subset, FS_CardinalityType

LEMMA BoundAbove ==
  ASSUME RiskTypeOK', NEW u \in Users
  PROVE  given'[u] <= Bound(u)'
<1>1. Len(bids') \in Nat /\ DOMAIN bids' = 1 .. Len(bids') /\ given'[u] \in Nat
  BY DEF RiskTypeOK
<1>2. Points(u)' \subseteq (1 .. Len(bids')) \X (1 .. PointsPerBid)
  BY <1>1 DEF Points
<1>3. Cardinality(Points(u)') \in Nat
  BY <1>1, <1>2, PairsFinite
<1>4. QED
  BY <1>1, <1>3 DEF Bound

LEMMA BoundGrows ==
  ASSUME RiskTypeOK, RiskTypeOK', NEW u \in Users, NEW b, NEW s \in Nat, NEW k \in Nat,
         given[u] <= given'[u], Points(u) \subseteq Points(u)',
         \A i \in s + 1 .. s + k : <<b, i>> \in Points(u)' /\ <<b, i>> \notin Points(u)
  PROVE  Bound(u) \in Nat /\ Bound(u)' \in Nat /\ Bound(u) + k <= Bound(u)'
<1>1. /\ Cardinality(Points(u)) \in Nat
      /\ IsFiniteSet(Points(u)') /\ Cardinality(Points(u)') \in Nat
  <2>1. Len(bids) \in Nat /\ Points(u) \subseteq (1 .. Len(bids)) \X (1 .. PointsPerBid)
    BY BidFields DEF Points
  <2>2. Len(bids') \in Nat /\ DOMAIN bids' = 1 .. Len(bids')
    BY DEF RiskTypeOK
  <2>3. Points(u)' \subseteq (1 .. Len(bids')) \X (1 .. PointsPerBid)
    BY <2>2 DEF Points
  <2>4. QED
    BY <2>1, <2>2, <2>3, PairsFinite
<1>2. Cardinality(Points(u)) + k <= Cardinality(Points(u)')
  BY <1>1, GrowsBy
<1>3. given[u] \in Nat /\ given'[u] \in Nat
  BY DEF RiskTypeOK
<1>4. QED
  BY <1>1, <1>2, <1>3 DEF Bound

LEMMA BoundsGrow ==
  ASSUME RiskTypeOK, RiskTypeOK',
         \A u \in Users : given[u] <= given'[u] /\ Points(u) \subseteq Points(u)'
  PROVE  \A u \in Users : Bound(u) \in Nat /\ Bound(u)' \in Nat /\ Bound(u) <= Bound(u)'
<1> SUFFICES ASSUME NEW u \in Users
             PROVE  Bound(u) \in Nat /\ Bound(u)' \in Nat /\ Bound(u) <= Bound(u)'
  OBVIOUS
<1>1. \A i \in 0 + 1 .. 0 + 0 : <<0, i>> \in Points(u)' /\ <<0, i>> \notin Points(u)
  OBVIOUS
<1>2. Bound(u) \in Nat /\ Bound(u)' \in Nat /\ Bound(u) + 0 <= Bound(u)'
  BY <1>1, BoundGrows
<1>3. QED
  BY <1>2

(* A step that leaves the bids alone spends points, and gives none back.   *)
LEMMA SpentGrows ==
  ASSUME bids' = bids, NEW u,
         \A b \in DOMAIN bids, i \in 1 .. PointsPerBid : Spent(b, i) => Spent(b, i)'
  PROVE  Points(u) \subseteq Points(u)'
BY DEF Points

(* What place_bid, the decay, the middleware and the staff do without      *)
(* touching bids or analyses.                                              *)
LEMMA Unanalysed ==
  ASSUME TypeInv, TypeInv', PointsInv, bids' = bids, jobs' = jobs, task' = task,
         \A u \in Users : given[u] <= given'[u]
  PROVE  /\ OneAnalysis' /\ Owned'
         /\ \A u \in Users : Bound(u) \in Nat /\ Bound(u)' \in Nat /\ Bound(u) <= Bound(u)'
         /\ \A w \in Workers : task'[w] # Idle => task'[w].seen <= Bound(task[w].user)'
<1>1. OneAnalysis' /\ Owned'
  BY DEF PointsInv, OneAnalysis, Owned, Works
<1>2. \A u : Points(u) \subseteq Points(u)'
  BY DEF Points, Spent, Works
<1>3. \A u \in Users : Bound(u) \in Nat /\ Bound(u)' \in Nat /\ Bound(u) <= Bound(u)'
  BY <1>2, BoundsGrow DEF TypeInv
<1>4. ASSUME NEW w \in Workers, task'[w] # Idle
      PROVE  task'[w].seen <= Bound(task[w].user)'
  <2>1. task[w] \in Task /\ task[w].user \in Users /\ task[w].seen \in Nat
    BY <1>4, TaskKinds DEF TypeInv
  <2>2. PICK u \in Users : u = task[w].user
    BY <2>1
  <2>3. task[w].seen <= Bound(task[w].user)
    BY <1>4 DEF PointsInv, Within
  <2>4. task[w].seen <= Bound(u)'
    <3>1. task[w].seen <= Bound(u)
      BY <2>2, <2>3, Zenon
    <3>2. QED
      BY <1>3, <2>1, <3>1
  <2>5. Bound(task[w].user)' = Bound(u)'
    BY <2>2 DEF Bound, Points
  <2>6. QED
    BY <2>4, <2>5
<1>5. QED
  BY <1>1, <1>3, <1>4

LEMMA MultipliedDown ==
  ASSUME NEW s \in Nat PROVE Multiplied(s) \in Nat /\ Multiplied(s) <= s
<1>1. DecayPercent \in Nat /\ DecayPercent <= 99
  BY PointsAssumption
<1>2. s * DecayPercent \in Nat /\ s * DecayPercent <= s * 100
  BY <1>1
<1>3. QED
  BY <1>2 DEF Multiplied

LEMMA PlainStep ==
  ASSUME TypeInv, TypeInv', PointsInv,
         \/ PlaceRefused \/ CleanUp \/ DecayLinear \/ DecayLoad
         \/ \E u \in Users : PlaceCheck(u) \/ DecayRow(u) \/ Staff(u)
         \/ \E u \in Users, ip \in Ips : Sample(u, ip)
  PROVE  PointsInv'
<1>0. /\ score \in [Users -> Nat] /\ given \in [Users -> Nat] /\ score' \in [Users -> Nat]
      /\ \A u \in Users : score[u] \in Nat /\ given[u] \in Nat
  BY DEF TypeInv, RiskTypeOK
<1>1. bids' = bids /\ jobs' = jobs /\ task' = task
  BY DEF PlaceRefused, CleanUp, DecayLinear, DecayLoad, PlaceCheck, DecayRow, Staff,
         StaffScore, StaffStats, StaffActivate, Sample
<1>2. \A u \in Users : given[u] <= given'[u]
  <2>1. CASE given' = given
    BY <1>0, <2>1
  <2>2. ASSUME NEW v \in Users, NEW s \in StaffScores, StaffScore(v, s)
        PROVE  \A u \in Users : given[u] <= given'[u]
    BY <1>0, <2>2, PointsAssumption DEF StaffScore
  <2>3. QED
    BY <2>1, <2>2 DEF PlaceRefused, CleanUp, DecayLinear, DecayLoad, PlaceCheck, DecayRow,
         Staff, StaffStats, StaffActivate, Sample
<1>3. /\ OneAnalysis' /\ Owned'
      /\ \A u \in Users : Bound(u) \in Nat /\ Bound(u)' \in Nat /\ Bound(u) <= Bound(u)'
      /\ \A w \in Workers : task'[w] # Idle => task'[w].seen <= Bound(task[w].user)'
  BY <1>1, <1>2, Unanalysed
<1>4. \A u \in Users : score[u] <= Bound(u) /\ score[u] <= Bound(u)'
  BY <1>0, <1>3 DEF PointsInv, Within
<1>5. PICK D \in SUBSET Users : decaying \in [D -> Nat]
  BY DEF TypeInv, RiskTypeOK
<1>6. \A u \in DOMAIN decaying : u \in Users /\ decaying[u] \in Nat /\ decaying[u] <= Bound(u)'
  BY <1>3, <1>5 DEF PointsInv, Within
<1>7. \A u \in Users : score'[u] <= Bound(u)'
  <2>1. CASE score' = score
    BY <1>4, <2>1
  <2>2. CASE DecayLinear
    <3> SUFFICES ASSUME NEW u \in Users PROVE score'[u] <= Bound(u)'
      OBVIOUS
    <3>1. score'[u] <= score[u] /\ score'[u] \in Nat
      BY <1>0, <2>2, PointsAssumption DEF DecayLinear
    <3>2. QED
      BY <1>0, <1>3, <1>4, <3>1
  <2>3. ASSUME NEW v \in Users, DecayRow(v) PROVE \A u \in Users : score'[u] <= Bound(u)'
    <3> SUFFICES ASSUME NEW u \in Users PROVE score'[u] <= Bound(u)'
      OBVIOUS
    <3>1. CASE u = v
      <4>1. score'[u] = Multiplied(decaying[v]) /\ v \in DOMAIN decaying
        BY <1>0, <2>3, <3>1 DEF DecayRow
      <4>2. Multiplied(decaying[v]) \in Nat /\ Multiplied(decaying[v]) <= decaying[v]
        BY <1>6, <4>1, MultipliedDown
      <4>3. QED
        BY <1>3, <1>6, <3>1, <4>1, <4>2
    <3>2. CASE u # v
      BY <1>0, <1>4, <2>3, <3>2 DEF DecayRow
    <3>3. QED
      BY <3>1, <3>2
  <2>4. ASSUME NEW v \in Users, NEW s \in StaffScores, StaffScore(v, s)
        PROVE  \A u \in Users : score'[u] <= Bound(u)'
    <3> SUFFICES ASSUME NEW u \in Users PROVE score'[u] <= Bound(u)'
      OBVIOUS
    <3>1. CASE u = v
      <4>1. s \in Nat /\ score'[u] = s /\ s <= given'[u]
        BY <1>0, <2>4, <3>1, PointsAssumption DEF StaffScore
      <4>2. given'[u] \in Nat /\ Bound(u)' \in Nat
        BY <1>3 DEF TypeInv, RiskTypeOK
      <4>3. given'[u] <= Bound(u)'
        BY BoundAbove DEF TypeInv
      <4>4. QED
        BY <4>1, <4>2, <4>3
    <3>2. CASE u # v
      BY <1>0, <1>4, <2>4, <3>2 DEF StaffScore
    <3>3. QED
      BY <3>1, <3>2
  <2>5. QED
    BY <2>1, <2>2, <2>3, <2>4 DEF PlaceRefused, CleanUp, DecayLoad, PlaceCheck, Staff,
         StaffStats, StaffActivate, Sample
<1>8. \A u \in Users : placing'.user = u => placing'.seen <= Bound(u)'
  <2>1. ASSUME placing' = placing, NEW u \in Users, placing.user = u
        PROVE  placing.seen <= Bound(u)'
    <3>1. placing.seen \in Nat /\ placing.seen <= Bound(u)
      BY <2>1, Loaded DEF PointsInv, Within, TypeInv
    <3>2. QED
      BY <1>3, <3>1
  <2>2. CASE PlaceRefused
    BY <2>2, PeopleAssumption DEF PlaceRefused, Nobody
  <2>3. ASSUME NEW v \in Users, PlaceCheck(v)
        PROVE  \A u \in Users : placing'.user = u => placing'.seen <= Bound(u)'
    BY <1>4, <2>3 DEF PlaceCheck
  <2>4. QED
    BY <2>1, <2>2, <2>3 DEF CleanUp, DecayLinear, DecayLoad, DecayRow, Staff,
         StaffScore, StaffStats, StaffActivate, Sample
<1>9. \A u \in DOMAIN decaying' : decaying'[u] <= Bound(u)'
  <2>1. CASE decaying' = decaying
    BY <1>6, <2>1
  <2>2. CASE DecayLoad
    BY <1>4, <2>2 DEF DecayLoad
  <2>3. ASSUME NEW v \in Users, DecayRow(v)
        PROVE  \A u \in DOMAIN decaying' : decaying'[u] <= Bound(u)'
    BY <1>6, <2>3 DEF DecayRow
  <2>4. QED
    BY <2>1, <2>2, <2>3 DEF PlaceRefused, CleanUp, DecayLinear, PlaceCheck, Staff,
         StaffScore, StaffStats, StaffActivate, Sample
<1>10. Within'
  BY <1>3, <1>7, <1>8, <1>9 DEF Within
<1>11. QED
  BY <1>3, <1>10 DEF PointsInv

(* A bid that commits is worth SelfBump points at once, whether or not the *)
(* signal was seen; with no analysis to come all of its points are spent.  *)
LEMMA CommitPoints ==
  ASSUME TypeInv, TypeInv', PointsInv, NEW u \in Users, PlaceCommit(u)
  PROVE  PointsInv'
<1>n. PICK n : n = Len(bids) + 1
  OBVIOUS
<1>0. score \in [Users -> Nat] /\ \A v \in Users : score[v] \in Nat /\ given[v] \in Nat
  BY DEF TypeInv, RiskTypeOK
<1>1. placing.suppress \in BOOLEAN /\ placing.seen \in Nat /\ placing.user = u
  BY Loaded DEF PlaceCommit, TypeInv
<1>2. /\ DOMAIN bids' = 1 .. n /\ DOMAIN bids = 1 .. Len(bids) /\ Len(bids) \in Nat
      /\ \A b \in DOMAIN bids : bids'[b] = IF Accepted(b) /\ ~placing.suppress
                                           THEN [bids[b] EXCEPT !.status = "outbid"]
                                           ELSE bids[b]
      /\ bids'[n].bidder = u
  <2>1. bids'[n] = [bidder |-> u, status |-> "accepted", public |-> ~placing.suppress]
    BY <1>n, <1>1, WithBidTable DEF PlaceCommit, TypeInv
  <2>2. bids'[n].bidder = u
    BY <2>1
  <2>3. QED
    BY <1>n, <1>1, <2>2, WithBidTable, BidFields DEF PlaceCommit, TypeInv
<1>3. \A b \in DOMAIN bids : bids'[b].bidder = bids[b].bidder
  BY <1>2, BidFields DEF TypeInv, BidRow
<1>4. /\ task' = task /\ given' = given /\ decaying' = decaying /\ placing' = Nobody
      /\ jobs' \subseteq jobs \cup {[bid |-> n, tries |-> 0]}
  BY <1>n DEF PlaceCommit
<1>5. n \notin DOMAIN bids /\ n \in DOMAIN bids' /\ DOMAIN bids \subseteq DOMAIN bids'
  BY <1>n, <1>2
<1>6. /\ \A j \in jobs : j.bid \in DOMAIN bids /\ j.bid # n
      /\ \A w \in Workers, b \in DOMAIN bids' : Works(w, b) => b \in DOMAIN bids /\ b # n
  BY <1>5 DEF TypeInv, Known, Works
<1>7. Before([bid |-> n, tries |-> 0]) = SelfBump /\ SelfBump \in Nat /\ SelfBump <= PointsPerBid
  BY Arithmetic DEF Before
<1>8. OneAnalysis'
  <2>1. \A i, j \in jobs' : i.bid = j.bid => i = j
    BY <1>4, <1>6 DEF PointsInv, OneAnalysis
  <2>2. ASSUME NEW v \in Workers, NEW w \in Workers, NEW b \in DOMAIN bids',
               Works(v, b)', Works(w, b)'
        PROVE  v = w
    <3>1. Works(v, b) /\ Works(w, b) /\ b \in DOMAIN bids
      BY <1>4, <1>6, <2>2 DEF Works
    <3>2. QED
      BY <3>1 DEF PointsInv, OneAnalysis
  <2>3. \A j \in jobs', w \in Workers : ~Works(w, j.bid)'
    BY <1>4, <1>5, <1>6 DEF PointsInv, OneAnalysis, Works
  <2>4. QED
    BY <2>1, <2>2, <2>3 DEF OneAnalysis
<1>9. Owned'
  BY <1>3, <1>4 DEF PointsInv, Owned, TypeInv, Known
<1>10. ASSUME NEW b \in DOMAIN bids, NEW i \in 1 .. PointsPerBid, Spent(b, i)
       PROVE  Spent(b, i)'
  BY <1>4, <1>5, <1>10 DEF Spent, Works
<1>11. \A v \in Users : given[v] <= given'[v] /\ Points(v) \subseteq Points(v)'
  BY <1>0, <1>3, <1>4, <1>5, <1>10 DEF Points
<1>12. \A v \in Users : Bound(v) \in Nat /\ Bound(v)' \in Nat /\ Bound(v) <= Bound(v)'
  BY <1>11, BoundsGrow DEF TypeInv
<1>13. Bound(u) + SelfBump <= Bound(u)'
  <2>1. ASSUME NEW i \in 0 + 1 .. 0 + SelfBump
        PROVE  <<n, i>> \in Points(u)' /\ <<n, i>> \notin Points(u)
    <3>1. i \in 1 .. PointsPerBid /\ i <= SelfBump
      BY <1>7, Arithmetic
    <3>2. \A j \in jobs' : j.bid = n => i <= Before(j)
      BY <1>4, <1>6, <1>7, <3>1
    <3>3. \A w \in Workers : ~Works(w, n)'
      BY <1>4, <1>5 DEF Works, TypeInv, Known
    <3>4. Spent(n, i)'
      BY <3>2, <3>3 DEF Spent
    <3>5. <<n, i>> \in (DOMAIN bids') \X (1 .. PointsPerBid)
      BY <1>5, <3>1
    <3>6. <<n, i>> \in Points(u)'
      BY <1>2, <3>4, <3>5 DEF Points
    <3>7. <<n, i>> \notin Points(u)
      BY <1>5 DEF Points
    <3>8. QED
      BY <3>6, <3>7
  <2>2. QED
    BY <1>7, <1>11, <2>1, BoundGrows DEF TypeInv
<1>14. Within'
  <2>1. \A v \in Users : score'[v] <= Bound(v)'
    <3> SUFFICES ASSUME NEW v \in Users PROVE score'[v] <= Bound(v)'
      OBVIOUS
    <3>1. score[v] <= Bound(v)'
      BY <1>0, <1>12 DEF PointsInv, Within
    <3>2. placing.seen <= Bound(u)
      BY <1>1 DEF PointsInv, Within
    <3>3. Raised(placing.seen, SelfBump) <= Bound(u)'
      BY <1>1, <1>7, <1>12, <1>13, <3>2, PointsAssumption DEF Raised, Least
    <3>4. CASE v = u
      <4>1. score'[u] = score[u] \/ score'[u] = Raised(placing.seen, SelfBump)
        BY <1>0 DEF PlaceCommit
      <4>2. QED
        BY <3>1, <3>3, <3>4, <4>1
    <3>5. CASE v # u
      BY <1>0, <3>1, <3>5 DEF PlaceCommit
    <3>6. QED
      BY <3>4, <3>5
  <2>2. ASSUME NEW w \in Workers, task'[w] # Idle
        PROVE  task'[w].seen <= Bound(task[w].user)'
    <3>1. task[w] # Idle /\ task'[w] = task[w]
      BY <1>4, <2>2
    <3>2. task[w].user \in Users /\ task[w].seen \in Nat
      BY <3>1, TaskKinds DEF TypeInv
    <3>3. PICK v \in Users : v = task[w].user
      BY <3>2
    <3>4. task[w].seen <= Bound(task[w].user)
      BY <3>1 DEF PointsInv, Within
    <3>5. task[w].seen <= Bound(v)
      BY <3>3, <3>4, Zenon
    <3>6. task[w].seen <= Bound(v)'
      BY <1>12, <3>2, <3>5
    <3>7. Bound(task[w].user)' = Bound(v)'
      BY <1>4, <3>3 DEF Bound, Points
    <3>8. QED
      BY <3>1, <3>6, <3>7
  <2>3. \A v \in Users : placing'.user # v
    BY <1>4, PeopleAssumption DEF Nobody
  <2>4. \A v \in DOMAIN decaying' : decaying'[v] <= Bound(v)'
    <3>1. PICK D \in SUBSET Users : decaying \in [D -> Nat]
      BY DEF TypeInv, RiskTypeOK
    <3>2. \A v \in DOMAIN decaying : v \in Users /\ decaying[v] \in Nat /\ decaying[v] <= Bound(v)
      BY <3>1 DEF PointsInv, Within
    <3>3. QED
      BY <1>4, <1>12, <3>2
  <2>5. QED
    BY <2>1, <2>2, <2>3, <2>4 DEF Within
<1>15. QED
  BY <1>8, <1>9, <1>14 DEF PointsInv

(* A step of one worker that spends no more than what it moves on by, and  *)
(* writes no more than it has seen and been given.                         *)
LEMMA WorkerPoints ==
  ASSUME TypeInv, TypeInv', PointsInv, NEW w \in Workers, OthersKept,
         OneAnalysis', Owned',
         \A v \in Workers \ {w} : task'[v] = task[v],
         \A u \in Users : Bound(u) \in Nat /\ Bound(u)' \in Nat /\ Bound(u) <= Bound(u)',
         \A u \in Users : score'[u] = score[u] \/ score'[u] <= Bound(u)',
         task'[w] # Idle => \A u \in Users : task'[w].user = u => task'[w].seen <= Bound(u)'
  PROVE  PointsInv'
<1>0. score \in [Users -> Nat] /\ \A v \in Users : score[v] \in Nat
  BY DEF TypeInv, RiskTypeOK
<1>1. \A u \in Users : score'[u] <= Bound(u)'
  BY <1>0 DEF PointsInv, Within
<1>2. ASSUME NEW v \in Workers, task'[v] # Idle
      PROVE  task'[v].seen <= Bound(task[v].user)'
  <2>0. task'[v].user \in Users
    BY <1>2 DEF TypeInv, RiskTypeOK, Task
  <2>1. PICK u \in Users : u = task'[v].user
    BY <2>0
  <2>2. Bound(task[v].user)' = Bound(u)'
    BY <2>1 DEF Bound, Points
  <2>3. CASE v = w
    BY <1>2, <2>1, <2>2, <2>3
  <2>4. CASE v # w
    <3>1. task'[v] = task[v] /\ task[v] # Idle /\ task[v].seen \in Nat /\ u = task[v].user
      BY <1>2, <2>1, <2>4, TaskKinds DEF TypeInv
    <3>2. task[v].seen <= Bound(task[v].user)
      BY <3>1 DEF PointsInv, Within
    <3>3. task[v].seen <= Bound(u)
      BY <3>1, <3>2, Zenon
    <3>4. QED
      BY <2>2, <3>1, <3>3
  <2>5. QED
    BY <2>3, <2>4
<1>3. \A u \in Users : placing'.user = u => placing'.seen <= Bound(u)'
  <2> SUFFICES ASSUME NEW u \in Users, placing.user = u PROVE placing.seen <= Bound(u)'
    BY DEF OthersKept
  <2>1. placing.seen \in Nat /\ placing.seen <= Bound(u)
    BY Loaded DEF PointsInv, Within, TypeInv
  <2>2. QED
    BY <2>1
<1>4. \A u \in DOMAIN decaying' : decaying'[u] <= Bound(u)'
  <2>1. PICK D \in SUBSET Users : decaying \in [D -> Nat]
    BY DEF TypeInv, RiskTypeOK
  <2>2. \A u \in DOMAIN decaying : u \in Users /\ decaying[u] \in Nat /\ decaying[u] <= Bound(u)
    BY <2>1 DEF PointsInv, Within
  <2>3. decaying' = decaying
    BY DEF OthersKept
  <2>4. QED
    BY <2>2, <2>3
<1>5. Within'
  BY <1>1, <1>2, <1>3, <1>4 DEF Within
<1>6. QED
  BY <1>5 DEF PointsInv

LEMMA LoadPoints ==
  ASSUME TypeInv, TypeInv', PointsInv, NEW w \in Workers, NEW j \in jobs, TaskLoad(w, j)
  PROVE  PointsInv'
<1>0. /\ task \in [Workers -> Task \cup {Idle}]
      /\ score \in [Users -> Nat] /\ given' = given /\ bids' = bids /\ score' = score
      /\ \A v \in Users : given[v] \in Nat
  BY DEF TypeInv, RiskTypeOK, TaskLoad, OthersKept
<1>1. /\ task'[w].job = j /\ task'[w].pc = "pumping" /\ task'[w] # Idle
      /\ task'[w].user = bids[j.bid].bidder /\ task'[w].seen = score[bids[j.bid].bidder]
  BY <1>0 DEF TaskLoad, Idle
<1>2. /\ jobs' = jobs \ {j} /\ task[w] = Idle
      /\ \A v \in Workers \ {w} : task'[v] = task[v]
  BY <1>0 DEF TaskLoad
<1>3. Before(j) \in Nat /\ Earned(task'[w]) = Before(j)
  <2>1. j \in Job
    BY DEF TypeInv, RiskTypeOK
  <2>2. Before(j) \in Nat
    BY <2>1, Arithmetic
  <2>3. QED
    BY <1>1, <2>2 DEF Earned
<1>4. OneAnalysis'
  <2>1. \A i, k \in jobs' : i.bid = k.bid => i = k
    BY <1>2 DEF PointsInv, OneAnalysis
  <2>2. ASSUME NEW u \in Workers, NEW v \in Workers, NEW b \in DOMAIN bids',
               Works(u, b)', Works(v, b)'
        PROVE  u = v
    <3>1. \A x \in Workers \ {w} : ~Works(x, j.bid)
      BY DEF PointsInv, OneAnalysis
    <3>2. \A x \in Workers \ {w} : Works(x, b)' => Works(x, b)
      BY <1>2 DEF Works
    <3>3. Works(w, b)' => b = j.bid
      BY <1>1 DEF Works
    <3>4. CASE u # w /\ v # w
      BY <1>0, <2>2, <3>2, <3>4 DEF PointsInv, OneAnalysis
    <3>5. QED
      BY <2>2, <3>1, <3>2, <3>3, <3>4
  <2>3. ASSUME NEW k \in jobs', NEW v \in Workers, Works(v, k.bid)'
        PROVE  FALSE
    <3>1. k \in jobs /\ k.bid # j.bid
      BY <1>2 DEF PointsInv, OneAnalysis
    <3>2. v # w
      BY <1>1, <2>3, <3>1 DEF Works
    <3>3. QED
      BY <1>2, <2>3, <3>1, <3>2 DEF Works, PointsInv, OneAnalysis
  <2>4. QED
    BY <2>1, <2>2, <2>3 DEF OneAnalysis
<1>5. Owned'
  BY <1>0, <1>1, <1>2 DEF PointsInv, Owned
<1>6. ASSUME NEW b \in DOMAIN bids, NEW i \in 1 .. PointsPerBid, Spent(b, i)
      PROVE  Spent(b, i)'
  <2>1. \A k \in jobs' : k.bid = b => i <= Before(k)
    BY <1>2, <1>6 DEF Spent
  <2>2. ASSUME NEW v \in Workers, Works(v, b)' PROVE i <= Earned(task'[v])
    <3>1. CASE v = w
      <4>1. j.bid = b
        BY <1>1, <2>2, <3>1 DEF Works
      <4>2. i <= Before(j)
        BY <1>6, <4>1 DEF Spent
      <4>3. QED
        BY <1>3, <3>1, <4>2
    <3>2. CASE v # w
      BY <1>2, <1>6, <2>2, <3>2 DEF Spent, Works
    <3>3. QED
      BY <3>1, <3>2
  <2>3. QED
    BY <2>1, <2>2 DEF Spent
<1>7. \A v \in Users : given[v] <= given'[v] /\ Points(v) \subseteq Points(v)'
  BY <1>0, <1>6, SpentGrows
<1>8. \A v \in Users : Bound(v) \in Nat /\ Bound(v)' \in Nat /\ Bound(v) <= Bound(v)'
  BY <1>7, BoundsGrow DEF TypeInv
<1>9. \A u \in Users : task'[w].user = u => task'[w].seen <= Bound(u)'
  <2> SUFFICES ASSUME NEW u \in Users, task'[w].user = u PROVE task'[w].seen <= Bound(u)'
    OBVIOUS
  <2>1. task'[w].seen = score[u] /\ score[u] \in Nat /\ score[u] <= Bound(u)
    BY <1>0, <1>1 DEF PointsInv, Within
  <2>2. QED
    BY <1>8, <2>1
<1>10. OthersKept
  BY DEF TaskLoad
<1>11. QED
  BY <1>0, <1>2, <1>4, <1>5, <1>8, <1>9, <1>10, WorkerPoints

(* An analysis that goes on: it moves past gain points of its bid, which   *)
(* nobody else can spend, and gives no more than these.                    *)
LEMMA Advance ==
  ASSUME TypeInv, TypeInv', PointsInv, NEW w \in Workers, task[w] \in Task, NEW t \in Task,
         NEW gain \in Nat, task' = [task EXCEPT ![w] = t],
         t.job = task[w].job, t.user = task[w].user, jobs' = jobs, OthersKept,
         Earned(t) = Earned(task[w]) + gain, t.seen <= task[w].seen + gain,
         \A u \in Users \ {t.user} : score'[u] = score[u],
         score'[t.user] = score[t.user] \/ score'[t.user] = t.seen
  PROVE  PointsInv'
<1>0. /\ task \in [Workers -> Task \cup {Idle}] /\ task[w] # Idle /\ t # Idle
      /\ given' = given /\ bids' = bids /\ \A v \in Users : given[v] \in Nat
      /\ t.user \in Users /\ t.seen \in Nat /\ task[w].seen \in Nat
      /\ task'[w] = t /\ \A v \in Workers \ {w} : task'[v] = task[v]
  <2>1. task \in [Workers -> Task \cup {Idle}] /\ given' = given /\ bids' = bids
    BY DEF TypeInv, RiskTypeOK, OthersKept
  <2>2. t.pc \in Steps /\ t.user \in Users /\ t.seen \in Nat /\ task[w].seen \in Nat
    BY DEF Task
  <2>3. t # Idle
    BY <2>2 DEF Idle, Steps
  <2>4. task[w] # Idle /\ \A v \in Users : given[v] \in Nat
    BY TaskKinds DEF TypeInv, RiskTypeOK
  <2>5. task'[w] = t /\ \A v \in Workers \ {w} : task'[v] = task[v]
    BY <2>1
  <2>6. QED
    BY <2>1, <2>2, <2>3, <2>4, <2>5
<1>1. PICK b : b = t.job.bid
  OBVIOUS
<1>2. b \in DOMAIN bids /\ bids[b].bidder = t.user /\ Works(w, b)
  BY <1>0, <1>1 DEF TypeInv, Known, PointsInv, Owned, Works
<1>3. Earned(task[w]) \in Nat /\ Earned(t) \in Nat /\ Earned(t) <= PointsPerBid
  BY EarnedRange
<1>4. OneAnalysis' /\ Owned'
  <2>1. \A v \in Workers : \A c : Works(v, c)' <=> Works(v, c)
    BY <1>0 DEF Works
  <2>2. OneAnalysis'
    BY <1>0, <2>1 DEF PointsInv, OneAnalysis
  <2>3. Owned'
    BY <1>0 DEF PointsInv, Owned
  <2>4. QED
    BY <2>2, <2>3
<1>5. ASSUME NEW c \in DOMAIN bids, NEW i \in 1 .. PointsPerBid, Spent(c, i)
      PROVE  Spent(c, i)'
  <2>1. \A j \in jobs' : j.bid = c => i <= Before(j)
    BY <1>5 DEF Spent
  <2>2. ASSUME NEW v \in Workers, Works(v, c)' PROVE i <= Earned(task'[v])
    <3>1. Works(v, c) /\ i <= Earned(task[v])
      BY <1>0, <1>5, <2>2 DEF Spent, Works
    <3>2. CASE v = w
      BY <1>0, <1>3, <3>1, <3>2
    <3>3. CASE v # w
      BY <1>0, <3>1, <3>3
    <3>4. QED
      BY <3>2, <3>3
  <2>3. QED
    BY <2>1, <2>2 DEF Spent
<1>6. \A v \in Users : given[v] <= given'[v] /\ Points(v) \subseteq Points(v)'
  BY <1>0, <1>5, SpentGrows
<1>7. \A v \in Users : Bound(v) \in Nat /\ Bound(v)' \in Nat /\ Bound(v) <= Bound(v)'
  BY <1>6, BoundsGrow DEF TypeInv
<1>8. PICK u \in Users : u = t.user
  BY <1>0
<1>9. PICK e \in Nat : e = Earned(task[w])
  BY <1>3
<1>10. Bound(u) + gain <= Bound(u)'
  <2>1. ASSUME NEW i \in e + 1 .. e + gain
        PROVE  <<b, i>> \in Points(u)' /\ <<b, i>> \notin Points(u)
    <3>1. i \in 1 .. PointsPerBid /\ i <= Earned(t) /\ ~(i <= Earned(task[w]))
      BY <1>3, <1>9, Arithmetic
    <3>2. \A j \in jobs' : j.bid # b
      BY <1>2 DEF PointsInv, OneAnalysis
    <3>3. \A v \in Workers : Works(v, b)' => i <= Earned(task'[v])
      <4>1. \A v \in Workers \ {w} : ~Works(v, b)
        BY <1>2 DEF PointsInv, OneAnalysis
      <4>2. \A v \in Workers \ {w} : ~Works(v, b)'
        BY <1>0, <4>1 DEF Works
      <4>3. QED
        BY <1>0, <3>1, <4>2
    <3>4. Spent(b, i)'
      BY <3>2, <3>3 DEF Spent
    <3>5. <<b, i>> \in (DOMAIN bids') \X (1 .. PointsPerBid)
      BY <1>0, <1>2, <3>1
    <3>6. <<b, i>> \in Points(u)'
      BY <1>0, <1>2, <1>8, <3>4, <3>5 DEF Points
    <3>7. ~Spent(b, i)
      BY <1>2, <3>1 DEF Spent
    <3>8. QED
      BY <3>6, <3>7 DEF Points
  <2>2. QED
    BY <1>6, <2>1, BoundGrows DEF TypeInv
<1>11. t.seen <= Bound(u)'
  <2>1. task[w].seen <= Bound(task[w].user)
    BY <1>0 DEF PointsInv, Within
  <2>2. task[w].seen <= Bound(u)
    BY <1>8, <2>1, Zenon
  <2>3. QED
    BY <1>0, <1>7, <1>10, <2>2
<1>12. \A v \in Users : score'[v] = score[v] \/ score'[v] <= Bound(v)'
  BY <1>8, <1>11
<1>13. \A v \in Users : task'[w].user = v => task'[w].seen <= Bound(v)'
  BY <1>0, <1>8, <1>11
<1>14. QED
  BY <1>0, <1>4, <1>7, <1>12, <1>13, WorkerPoints

(* An analysis that ends spends the rest, but for what a retry may give.   *)
LEMMA Leave ==
  ASSUME TypeInv, TypeInv', PointsInv, NEW w \in Workers, task[w] \in Task,
         task' = [task EXCEPT ![w] = Idle], score' = score, OthersKept,
         jobs' = jobs \/ jobs' = jobs \cup Again(task[w].job)
  PROVE  PointsInv'
<1>0. /\ task \in [Workers -> Task \cup {Idle}] /\ task[w] # Idle /\ task[w].job \in Job
      /\ given' = given /\ bids' = bids /\ \A v \in Users : given[v] \in Nat
      /\ task'[w] = Idle /\ \A v \in Workers \ {w} : task'[v] = task[v]
  BY TaskKinds DEF TypeInv, RiskTypeOK, OthersKept, Task
<1>1. PICK b : b = task[w].job.bid
  OBVIOUS
<1>2. b \in DOMAIN bids /\ Works(w, b) /\ \A j \in jobs : j.bid # b
  BY <1>0, <1>1 DEF TypeInv, Known, PointsInv, OneAnalysis, Works
<1>3. ASSUME NEW k \in jobs', k \notin jobs
      PROVE  /\ k.bid = b /\ Before(k) = Before(task[w].job) + Attempt
             /\ \A l \in jobs' : l \notin jobs => l = k
  <2>1. task[w].job.tries < MaxRetries /\ k = [task[w].job EXCEPT !.tries = @ + 1]
    BY <1>3 DEF Again
  <2>2. QED
    BY <1>0, <1>1, <2>1, Arithmetic DEF Again
<1>4. \A v \in Workers, c \in DOMAIN bids : Works(v, c)' => v # w /\ Works(v, c)
  BY <1>0 DEF Works
<1>5. OneAnalysis'
  <2>1. ASSUME NEW i \in jobs', NEW k \in jobs', i.bid = k.bid PROVE i = k
    <3>1. CASE i \in jobs /\ k \in jobs
      BY <2>1, <3>1 DEF PointsInv, OneAnalysis
    <3>2. QED
      BY <1>2, <1>3, <2>1, <3>1
  <2>2. \A u, v \in Workers, c \in DOMAIN bids' : Works(u, c)' /\ Works(v, c)' => u = v
    BY <1>0, <1>4 DEF PointsInv, OneAnalysis
  <2>3. ASSUME NEW k \in jobs', NEW v \in Workers, Works(v, k.bid)' PROVE FALSE
    <3>1. v # w /\ Works(v, k.bid)
      BY <1>0, <2>3 DEF Works
    <3>2. CASE k \in jobs
      BY <3>1, <3>2 DEF PointsInv, OneAnalysis
    <3>3. CASE k \notin jobs
      <4>1. Works(v, b)
        BY <1>3, <3>1, <3>3
      <4>2. QED
        BY <1>2, <3>1, <4>1 DEF PointsInv, OneAnalysis
    <3>4. QED
      BY <3>2, <3>3
  <2>4. QED
    BY <2>1, <2>2, <2>3 DEF OneAnalysis
<1>6. Owned'
  BY <1>0 DEF PointsInv, Owned
<1>7. ASSUME NEW c \in DOMAIN bids, NEW i \in 1 .. PointsPerBid, Spent(c, i)
      PROVE  Spent(c, i)'
  <2>1. ASSUME NEW k \in jobs', k.bid = c PROVE i <= Before(k)
    <3>1. CASE k \in jobs
      BY <1>7, <2>1, <3>1 DEF Spent
    <3>2. CASE k \notin jobs
      <4>1. c = b /\ Before(k) = Before(task[w].job) + Attempt
        BY <1>3, <2>1, <3>2
      <4>2. i <= Earned(task[w])
        BY <1>2, <1>7, <4>1 DEF Spent
      <4>3. /\ Earned(task[w]) \in Nat /\ Before(task[w].job) \in Nat /\ Attempt \in Nat
            /\ Earned(task[w]) <= Before(task[w].job) + Attempt
        BY <1>0, EarnedRange, Arithmetic
      <4>4. QED
        BY <4>1, <4>2, <4>3
    <3>3. QED
      BY <3>1, <3>2
  <2>2. \A v \in Workers : Works(v, c)' => i <= Earned(task'[v])
    BY <1>0, <1>4, <1>7 DEF Spent
  <2>3. QED
    BY <2>1, <2>2 DEF Spent
<1>8. \A v \in Users : given[v] <= given'[v] /\ Points(v) \subseteq Points(v)'
  BY <1>0, <1>7, SpentGrows
<1>9. \A v \in Users : Bound(v) \in Nat /\ Bound(v)' \in Nat /\ Bound(v) <= Bound(v)'
  BY <1>8, BoundsGrow DEF TypeInv
<1>10. QED
  BY <1>0, <1>5, <1>6, <1>9, WorkerPoints

LEMMA AnalysisPoints ==
  ASSUME TypeInv, TypeInv', OneAccepted, PointsInv, NEW w \in Workers,
         Analyse(w) \/ TaskFail(w)
  PROVE  PointsInv'
<1>0. /\ score \in [Users -> Nat] /\ Attempt \in Nat /\ Attempt = IpBump + WinBump
      /\ IpBump \in Nat /\ WinBump \in Nat /\ PumpBump \in Nat /\ Cap \in Nat
  BY Arithmetic, PointsAssumption DEF TypeInv, RiskTypeOK
<1>1. task[w] \in Task /\ task[w].seen \in Nat /\ task[w].user \in Users
  <2>1. task[w] # Idle
    BY TaskKinds DEF Analyse, TaskFail, TaskPumping, TaskSharedIp, TaskStats, TaskRecount,
         TaskRestat, TaskWinRatio, TaskEnforce, Signal, TypeInv, Steps
  <2>2. QED
    BY <2>1, TaskKinds DEF TypeInv
<1>2. Before(task[w].job) \in Nat
  BY <1>1, Arithmetic DEF Task
<1>3. ASSUME NEW step \in Steps, NEW next \in Steps, NEW hit \in BOOLEAN, NEW bump \in Nat,
             NEW gain \in Nat, Signal(w, step, next, hit, bump), hit => bump <= gain,
             \A t \in Task : t.pc = next /\ t.job = task[w].job
               => Earned(t) = Earned(task[w]) + gain
      PROVE  PointsInv'
  <2> DEFINE new == IF hit THEN Raised(task[w].seen, bump) ELSE task[w].seen
             t   == [task[w] EXCEPT !.pc = next, !.seen = new]
  <2>1. new \in Nat /\ new <= task[w].seen + gain
    BY <1>0, <1>1, <1>3 DEF Raised, Least
  <2>2. /\ t \in Task /\ t.pc = next /\ t.job = task[w].job /\ t.user = task[w].user
        /\ t.seen = new
    BY <1>1, <2>1 DEF Task
  <2>3. /\ task' = [task EXCEPT ![w] = t] /\ jobs' = jobs /\ OthersKept
        /\ score' = IF hit /\ bump > 0 THEN [score EXCEPT ![task[w].user] = new] ELSE score
    BY <1>3 DEF Signal
  <2>4. Earned(t) = Earned(task[w]) + gain
    BY <1>3, <2>2
  <2> HIDE DEF t, new
  <2>5. /\ \A u \in Users \ {t.user} : score'[u] = score[u]
        /\ score'[t.user] = score[t.user] \/ score'[t.user] = t.seen
    BY <1>0, <1>1, <2>2, <2>3
  <2>6. QED
    BY <1>1, <1>3, <2>1, <2>2, <2>3, <2>4, <2>5, Advance
<1>4. CASE TaskPumping(w)
  <2>1. BidPumping = FALSE
    BY NothingToSee DEF TypeInv
  <2>2. \A t \in Task : t.pc = "shared" /\ t.job = task[w].job => Earned(t) = Earned(task[w]) + 0
    BY <1>2, <1>4 DEF TaskPumping, Signal, At, Earned
  <2>3. Signal(w, "pumping", "shared", FALSE, PumpBump)
    BY <1>4, <2>1 DEF TaskPumping
  <2>4. QED
    BY <1>0, <1>3, <2>2, <2>3 DEF Steps
<1>5. CASE TaskSharedIp(w)
  <2> DEFINE hit == Cardinality(SharedWith(task[w].user)) > IpThreshold
  <2>1. \A t \in Task : t.pc = "stats" /\ t.job = task[w].job
          => Earned(t) = Earned(task[w]) + IpBump
    BY <1>0, <1>2, <1>5 DEF TaskSharedIp, Signal, At, Earned
  <2>2. Signal(w, "shared", "stats", hit, IpBump) /\ hit \in BOOLEAN
    BY <1>5 DEF TaskSharedIp
  <2> HIDE DEF hit
  <2>3. QED
    BY <1>0, <1>3, <2>1, <2>2 DEF Steps
<1>6. CASE TaskWinRatio(w)
  <2> DEFINE hit == TooManyWins(task[w].total, task[w].wins)
  <2>1. \A t \in Task : t.pc = "enforce" /\ t.job = task[w].job
          => Earned(t) = Earned(task[w]) + WinBump
    BY <1>0, <1>2, <1>6 DEF TaskWinRatio, Signal, At, Earned
  <2>2. Signal(w, "ratio", "enforce", hit, WinBump) /\ hit \in BOOLEAN
    BY <1>6 DEF TaskWinRatio, TooManyWins
  <2> HIDE DEF hit
  <2>3. QED
    BY <1>0, <1>3, <2>1, <2>2 DEF Steps
<1>7. ASSUME NEW t \in Task, task' = [task EXCEPT ![w] = t], t.job = task[w].job,
             t.user = task[w].user, t.seen = task[w].seen, jobs' = jobs, OthersKept,
             score' = score, task[w].pc \in {"stats", "recount", "restat"},
             t.pc \in {"recount", "restat", "ratio"}
      PROVE  PointsInv'
  <2>1. Earned(t) = Earned(task[w]) + 0
    BY <1>0, <1>2, <1>7 DEF Earned
  <2>2. t.seen <= task[w].seen + 0
    BY <1>1, <1>7
  <2>3. QED
    BY <1>1, <1>7, <2>1, <2>2, Advance
<1>8. CASE TaskStats(w)
  <2> DEFINE row == stats[task[w].user]
             t == [task[w] EXCEPT !.pc = IF row.bids = 0 THEN "recount" ELSE "ratio",
                                  !.total = row.bids, !.wins = row.wins]
  <2>1. row \in [bids: Nat, wins: Nat]
    BY <1>1 DEF TypeInv, RiskTypeOK
  <2>2. /\ t \in Task /\ t.job = task[w].job /\ t.user = task[w].user
        /\ t.seen = task[w].seen /\ t.pc \in {"recount", "ratio"}
    BY <1>1, <2>1 DEF Task, Steps
  <2>3. task' = [task EXCEPT ![w] = t]
    BY <1>8 DEF TaskStats
  <2> HIDE DEF t
  <2>4. QED
    BY <1>7, <1>8, <2>2, <2>3 DEF TaskStats, At
<1>9. CASE TaskRecount(w)
  <2> DEFINE t == [task[w] EXCEPT !.pc = "restat",
                     !.total = Cardinality(PublicBids(task[w].user)), !.wins = 0]
  <2>1. Cardinality(PublicBids(task[w].user)) \in Nat
    BY PublicBidsFinite DEF TypeInv
  <2>2. /\ t \in Task /\ t.job = task[w].job /\ t.user = task[w].user
        /\ t.seen = task[w].seen /\ t.pc = "restat"
    BY <1>1, <2>1 DEF Task, Steps
  <2>3. task' = [task EXCEPT ![w] = t]
    BY <1>9 DEF TaskRecount
  <2> HIDE DEF t
  <2>4. QED
    BY <1>7, <1>9, <2>2, <2>3 DEF TaskRecount, At
<1>10. CASE TaskRestat(w)
  <2> DEFINE t == [task[w] EXCEPT !.pc = "ratio"]
  <2>1. /\ t \in Task /\ t.job = task[w].job /\ t.user = task[w].user
        /\ t.seen = task[w].seen /\ t.pc = "ratio"
    BY <1>1 DEF Task, Steps
  <2>2. task' = [task EXCEPT ![w] = t]
    BY <1>10 DEF TaskRestat
  <2> HIDE DEF t
  <2>3. QED
    BY <1>7, <1>10, <2>1, <2>2 DEF TaskRestat, At
<1>11. CASE TaskEnforce(w)
  BY <1>1, <1>11, Leave DEF TaskEnforce
<1>12. CASE TaskFail(w)
  BY <1>1, <1>12, Leave DEF TaskFail
<1>13. QED
  BY <1>4, <1>5, <1>6, <1>8, <1>9, <1>10, <1>11, <1>12 DEF Analyse

LEMMA PointsInit == RInit => PointsInv
<1> SUFFICES ASSUME RInit PROVE PointsInv
  OBVIOUS
<1>1. OneAnalysis /\ Owned
  BY DEF RInit, OneAnalysis, Owned, Works
<1>2. \A u \in Users : Bound(u) \in Nat /\ score[u] = 0 /\ Bound(u) >= 0
  <2> SUFFICES ASSUME NEW u \in Users PROVE Bound(u) \in Nat
    BY DEF RInit
  <2>1. Points(u) = {} /\ given[u] = 0
    BY DEF RInit, Points
  <2>2. Cardinality({}) = 0
    BY FS_EmptySet
  <2>3. QED
    BY <2>1, <2>2 DEF Bound
<1>3. \A u \in Users : placing.user # u
  BY PeopleAssumption DEF RInit, Nobody
<1>4. QED
  BY <1>1, <1>2, <1>3 DEF RInit, PointsInv, Within

(* A score never exceeds what the staff gave and what the user's own bids  *)
(* can be worth, for any number of workers, retries and stale writes.      *)
THEOREM ScoresStayBelow == RSpec => []ScoreWithinBids
<1> DEFINE Inv == TypeInv /\ OneAccepted /\ PointsInv
<1>1. RInit => OneAccepted
  BY DEF RInit, OneAccepted
<1>2. Inv /\ [RNext]_rvars => Inv'
  <2>1. Inv /\ RNext => Inv'
    <3> SUFFICES ASSUME Inv, RNext PROVE Inv'
      OBVIOUS
    <3>1. TypeInv' /\ OneAccepted'
      BY RiskTypeStep, AcceptedStep
    <3>2. PointsInv'
      BY <3>1, CommitPoints, LoadPoints, AnalysisPoints, PlainStep DEF RNext
    <3>3. QED
      BY <3>1, <3>2
  <2>2. OneAccepted /\ UNCHANGED rvars => OneAccepted'
    BY DEF OneAccepted, Accepted, Public, rvars
  <2>3. PointsInv /\ UNCHANGED rvars => PointsInv'
    BY DEF PointsInv, OneAnalysis, Owned, Within, Works, Bound, Points, Spent, rvars
  <2>4. QED
    BY <2>1, <2>2, <2>3, RiskTypeQuiet
<1>3. Inv => ScoreWithinBids
  <2> SUFFICES ASSUME Inv, NEW u \in Users
               PROVE  score[u] <= given[u] + PointsPerBid
                                    * Cardinality({b \in DOMAIN bids : bids[b].bidder = u})
    BY DEF ScoreWithinBids
  <2> DEFINE B == {b \in DOMAIN bids : bids[b].bidder = u}
  <2>1. IsFiniteSet(B) /\ Cardinality(B) \in Nat
    <3>1. IsFiniteSet(DOMAIN bids) /\ B \in SUBSET DOMAIN bids
      BY BidFields, FS_Interval DEF TypeInv
    <3>2. QED
      BY <3>1, FS_Subset, FS_CardinalityType
  <2>2. PointsPerBid \in Nat
    BY Arithmetic
  <2>3. IsFiniteSet(1 .. PointsPerBid) /\ Cardinality(1 .. PointsPerBid) = PointsPerBid
    BY <2>2, FS_Interval
  <2> DEFINE All == B \X (1 .. PointsPerBid)
  <2>4. IsFiniteSet(All) /\ Cardinality(All) = Cardinality(B) * PointsPerBid
    BY <2>1, <2>3, FS_Product
  <2>5. Points(u) \in SUBSET All
    BY DEF Points
  <2>6. Cardinality(Points(u)) \in Nat /\ Cardinality(Points(u)) <= Cardinality(All)
    BY <2>4, <2>5, FS_Subset, FS_CardinalityType
  <2> HIDE DEF B, All
  <2>7. score[u] <= given[u] + Cardinality(Points(u)) /\ score[u] \in Nat /\ given[u] \in Nat
    BY DEF PointsInv, Within, Bound, TypeInv, RiskTypeOK
  <2>8. Cardinality(B) * PointsPerBid = PointsPerBid * Cardinality(B)
    BY <2>1, <2>2
  <2>9. score[u] <= given[u] + PointsPerBid * Cardinality(B)
    BY <2>1, <2>2, <2>4, <2>6, <2>7, <2>8
  <2>10. QED
    BY <2>9 DEF B
<1>4. QED
  BY RiskTypeInit, PointsInit, <1>1, <1>2, <1>3, PTL DEF RSpec
-----------------------------------------------------------------------------
(* The decay.                                                              *)

DecayedRows == \A u \in DOMAIN decaying : u \in Users /\ decaying[u] \in Nat \ {0}

DecayStep ==
  /\ DecayLinear => \A u \in Users : score[u] > 0 => score'[u] < score[u]
  /\ \A u \in Users : DecayRow(u) => score'[u] < decaying[u]

(* Rounding down keeps no score where it is, so decay_risk_scores never    *)
(* finds new_score equal to what it has read.                              *)
LEMMA MultipliedLower ==
  ASSUME NEW s \in Nat \ {0} PROVE Multiplied(s) \in Nat /\ Multiplied(s) < s
<1>1. DecayPercent \in Nat /\ DecayPercent <= 99
  BY PointsAssumption
<1>2. PICK n \in Nat : n = s * DecayPercent
  BY <1>1
<1>3. n <= s * 99
  BY <1>1, <1>2
<1>4. n \div 100 \in Nat /\ n \div 100 < s
  BY <1>3
<1>5. QED
  BY <1>2, <1>4 DEF Multiplied

LEMMA DecayedRowsNext == RiskTypeOK /\ DecayedRows /\ [RNext]_rvars => DecayedRows'
<1> SUFFICES ASSUME RiskTypeOK, DecayedRows, [RNext]_rvars PROVE DecayedRows'
  OBVIOUS
<1>1. CASE decaying' = decaying
  BY <1>1 DEF DecayedRows
<1>2. CASE DecayLoad
  <2>1. \A u \in Users : score[u] \in Nat
    BY DEF RiskTypeOK
  <2> QED
    BY <1>2, <2>1 DEF DecayLoad, DecayedRows
<1>3. ASSUME NEW u \in Users, DecayRow(u) PROVE DecayedRows'
  BY <1>3 DEF DecayRow, DecayedRows
<1>4. ASSUME NEW w \in Workers, Analyse(w) \/ TaskFail(w) \/ \E j \in jobs : TaskLoad(w, j)
      PROVE  decaying' = decaying
  BY <1>4 DEF Analyse, TaskFail, TaskLoad, TaskPumping, TaskSharedIp, TaskStats,
     TaskRecount, TaskRestat, TaskWinRatio, TaskEnforce, Signal, OthersKept
<1>5. ASSUME NEW u \in Users,
             \/ PlaceCheck(u) \/ PlaceCommit(u) \/ Staff(u)
             \/ \E ip \in Ips : Sample(u, ip)
      PROVE  decaying' = decaying
  BY <1>5 DEF PlaceCheck, PlaceCommit, Staff, StaffScore, StaffStats, StaffActivate, Sample
<1>6. CASE PlaceRefused \/ CleanUp \/ DecayLinear \/ UNCHANGED rvars
  BY <1>6, <1>1 DEF PlaceRefused, CleanUp, DecayLinear, rvars
<1> QED
  BY <1>1, <1>2, <1>3, <1>4, <1>5, <1>6 DEF RNext

(* "so users are not flagged forever", its safety half: either decay       *)
(* writes less than the positive score it has read, whatever the factor    *)
(* below one and however small the score.                                  *)
THEOREM DecayTakesAway == RSpec => [][DecayStep]_rvars
<1>1. RInit => DecayedRows
  BY DEF RInit, DecayedRows
<1>2. RiskTypeOK /\ DecayedRows => DecayStep
  <2> SUFFICES ASSUME RiskTypeOK, DecayedRows PROVE DecayStep
    OBVIOUS
  <2>1. ASSUME DecayLinear, NEW u \in Users, score[u] > 0 PROVE score'[u] < score[u]
    <3>1. score[u] \in Nat
      BY DEF RiskTypeOK
    <3> QED
      BY <2>1, <3>1, PointsAssumption DEF DecayLinear
  <2>2. ASSUME NEW u \in Users, DecayRow(u) PROVE score'[u] < decaying[u]
    <3>1. decaying[u] \in Nat \ {0}
      BY <2>2 DEF DecayRow, DecayedRows
    <3>2. score'[u] = Multiplied(decaying[u])
      BY <2>2 DEF DecayRow, RiskTypeOK
    <3> QED
      BY <3>1, <3>2, MultipliedLower
  <2> QED
    BY <2>1, <2>2 DEF DecayStep
<1> QED
  BY <1>1, <1>2, DecayedRowsNext, RiskTypeCorrect, PTL DEF RSpec
=============================================================================
