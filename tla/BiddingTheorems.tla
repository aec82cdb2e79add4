-------------------------- MODULE BiddingTheorems --------------------------
(***************************************************************************)
(* What holds of Bidding for any number of users, workers, readers, keys   *)
(* and any settings.                                                       *)
(*                                                                         *)
(* The argument rests on RowLock: while a place_bid transaction is open    *)
(* nobody else has one open, the auction is ACTIVE, and what the           *)
(* transaction loaded is still what the row holds.                         *)
(***************************************************************************)
EXTENDS Bidding, SequenceTheorems, FiniteSetTheorems, TLAPS

Checked(w) == txn[w].pc = "checked"

RowLock ==
  /\ \A v, w \in Workers : Checked(v) /\ Checked(w) => v = w
  /\ \A w \in Workers :
       Checked(w) => /\ status = Active
                     /\ txn[w].price = price
                     /\ txn[w].endsAt = endsAt
                     /\ txn[w].extCount = extCount
                     /\ txn[w].now <= endsAt
                     /\ Lookup(txn[w].user, txn[w].key) = {}
-----------------------------------------------------------------------------
(* Type correctness.                                                       *)

(* Marking the leaders outbid changes no bid but for its status.           *)
LEMMA OutbidType ==
  ASSUME TypeOK
  PROVE  /\ Outbid \in Seq(Bid)
         /\ Len(Outbid) = Len(bids)
         /\ \A i \in DOMAIN bids :
              /\ Outbid[i].bidder = bids[i].bidder
              /\ Outbid[i].amount = bids[i].amount
              /\ Outbid[i].suppressed = bids[i].suppressed
              /\ Outbid[i].extended = bids[i].extended
              /\ Outbid[i].status =
                   IF i \in Accepted THEN "outbid" ELSE bids[i].status
<1>1. /\ bids \in Seq(Bid)
      /\ DOMAIN bids = 1 .. Len(bids)
      /\ Len(bids) \in Nat
  BY LenProperties DEF TypeOK
<1>2. \A i \in 1 .. Len(bids) : bids[i] \in Bid
  BY <1>1, ElementOfSeq
<1>3. Outbid \in [1 .. Len(bids) -> Bid]
  BY <1>1, <1>2 DEF Outbid, Bid
<1>4. Outbid \in Seq(Bid) /\ Len(Outbid) = Len(bids)
  BY <1>1, <1>3, SeqDef, LenProperties
<1>5. QED
  BY <1>1, <1>2, <1>4 DEF Outbid, Bid

LEMMA TxnType ==
  ASSUME TypeOK, NEW w \in Workers, Checked(w)
  PROVE  txn[w] \in Txn
BY DEF TypeOK, Checked, NoTxn

LEMMA NewBidType ==
  ASSUME TypeOK, NEW t \in Txn
  PROVE  NewBid(t) \in Bid
BY SetsAssumption DEF TypeOK, Txn, NewBid, Bid, Extends, InWindow

LEMMA DeadlineType ==
  ASSUME NEW t \in Txn
  PROVE  NewDeadline(t) \in Nat
BY NumbersAssumption DEF Txn, NewDeadline

LEMMA InitType == Init => TypeOK
<1> SUFFICES ASSUME Init PROVE TypeOK
  OBVIOUS
<1>1. /\ bids \in Seq(Bid)
      /\ snapshots \in Seq([bid : Nat, previous : Nat, new : Nat])
      /\ feed \subseteq DOMAIN bids
  BY EmptySeq DEF Init
<1>2. /\ clock \in Nat /\ endsAt \in Nat /\ extCount \in Nat /\ price \in Nat
      /\ bidCount \in [Users -> Nat]
      /\ rate \in [Users -> Nat]
  BY NumbersAssumption DEF Init
<1>3. /\ status \in Status
      /\ actualEnd \in Nat \cup {NotEnded}
      /\ idem \subseteq [user : Users, key : Keys, bid : Nat]
      /\ subscribed \subseteq Users
      /\ shadow \subseteq Suspects
      /\ flagged \subseteq Users
      /\ selected \in BOOLEAN
  BY DEF Init, Status
<1>4. /\ txn \in [Workers -> Txn \cup {NoTxn}]
      /\ answer \in Response \cup {NoAnswer}
      /\ reader \in [Readers -> Get \cup {NoGet}]
  BY DEF Init
<1> QED
  BY <1>1, <1>2, <1>3, <1>4 DEF TypeOK

(* The insert of a public or of a suppressed bid keeps the tables typed.   *)
LEMMA InsertType ==
  ASSUME TypeOK, NEW t \in Txn,
         InsertSuppressed(t) \/ InsertPublic(t, Len(bids) + 1)
  PROVE  /\ bids' \in Seq(Bid)
         /\ Len(bids') = Len(bids) + 1
         /\ status' \in Status
         /\ endsAt' \in Nat
         /\ extCount' \in Nat
         /\ price' \in Nat
         /\ actualEnd' \in Nat \cup {NotEnded}
         /\ snapshots' \in Seq([bid : Nat, previous : Nat, new : Nat])
         /\ bidCount' \in [Users -> Nat]
<1>1. NewBid(t) \in Bid /\ NewDeadline(t) \in Nat
  BY NewBidType, DeadlineType
<1>2. t.amount \in Nat /\ t.price \in Nat /\ t.extCount \in Nat /\ t.user \in Users
  BY SetsAssumption DEF Txn
<1>3. Len(bids) \in Nat
  BY LenProperties DEF TypeOK
<1>4. CASE InsertSuppressed(t)
  BY <1>1, <1>4, AppendProperties DEF InsertSuppressed, row, TypeOK
<1>5. CASE InsertPublic(t, Len(bids) + 1)
  <2>1. bids' \in Seq(Bid) /\ Len(bids') = Len(bids) + 1
    BY <1>1, <1>5, OutbidType, AppendProperties DEF InsertPublic
  <2>2. [bid |-> Len(bids) + 1, previous |-> t.price, new |-> t.amount]
          \in [bid : Nat, previous : Nat, new : Nat]
    BY <1>2, <1>3
  <2>3. snapshots' \in Seq([bid : Nat, previous : Nat, new : Nat])
    BY <1>5, <2>2, AppendProperties DEF InsertPublic, TypeOK
  <2>4. bidCount' \in [Users -> Nat]
    BY <1>2, <1>5 DEF InsertPublic, TypeOK
  <2> QED
    BY <1>1, <1>2, <1>5, <2>1, <2>3, <2>4 DEF InsertPublic, TypeOK
<1> QED
  BY <1>4, <1>5

LEMMA CommitType ==
  ASSUME TypeOK, NEW w \in Workers, BidCommit(w)
  PROVE  TypeOK'
<1> DEFINE t  == txn[w]
           id == Len(bids) + 1
<1>1. t \in Txn
  BY TxnType DEF BidCommit, Checked
<1>2. InsertSuppressed(t) \/ InsertPublic(t, Len(bids) + 1)
  BY DEF BidCommit
<1>3. t.user \in Users /\ t.key \in Keys \cup {NoKey} /\ id \in Nat
  BY <1>1, LenProperties DEF Txn, TypeOK
<1>4. idem' \subseteq [user : Users, key : Keys, bid : Nat]
  BY <1>3 DEF BidCommit, TypeOK
<1>5. flagged' \subseteq Users
  BY <1>3 DEF BidCommit, TypeOK
<1>6. rate' \in [Users -> Nat]
  BY <1>3 DEF BidCommit, CountAttempt, TypeOK
<1>7. txn' \in [Workers -> Txn \cup {NoTxn}]
  BY DEF BidCommit, Release, TypeOK
<1>8. answer' \in Response \cup {NoAnswer}
  BY <1>3 DEF BidCommit, Answer, Response
<1>9. /\ bids' \in Seq(Bid) /\ Len(bids') = Len(bids) + 1
      /\ DOMAIN bids' = 1 .. Len(bids') /\ DOMAIN bids = 1 .. Len(bids)
      /\ Len(bids) \in Nat
  BY <1>1, <1>2, InsertType, LenProperties DEF TypeOK
<1>10. feed' \subseteq DOMAIN bids'
  BY <1>9 DEF BidCommit, TypeOK
<1>11. UNCHANGED <<clock, subscribed, shadow, reader, selected>>
  BY DEF BidCommit, people
<1> QED
  BY <1>1, <1>2, <1>4, <1>5, <1>6, <1>7, <1>8, <1>9, <1>10, <1>11, InsertType
     DEF TypeOK

LEMMA CheckType ==
  ASSUME TypeOK, NEW w \in Workers, NEW u \in Users, NEW a \in Amounts,
         NEW k \in Keys \cup {NoKey}, BidCheck(w, u, a, k)
  PROVE  TypeOK'
<1>1. [pc |-> "checked", user |-> u, amount |-> a, key |-> k, now |-> clock,
       price |-> price, endsAt |-> endsAt, extCount |-> extCount,
       suppress |-> SilentShadow /\ u \in shadow] \in Txn
  BY SetsAssumption DEF TypeOK, Txn
<1>2. txn' \in [Workers -> Txn \cup {NoTxn}]
  BY <1>1 DEF BidCheck, TypeOK
<1>3. answer' \in Response \cup {NoAnswer}
  BY DEF BidCheck
<1> QED
  BY <1>2, <1>3 DEF BidCheck, KeepBooks, TypeOK, row, ledger, people

(* The answers that leave every table alone.                               *)
LEMMA AnswerType ==
  ASSUME TypeOK, NEW w \in Workers, NEW u \in Users,
         NEW k \in Keys \cup {NoKey},
         BidNotOpen(w, u, k) \/ BidReplay(w, u, k) \/ BidForbidden(w, u, k)
  PROVE  TypeOK'
<1>1. \A e \in Lookup(u, k) : e.bid \in Nat
  BY DEF Lookup, TypeOK
<1>2. answer' \in Response \cup {NoAnswer}
  BY <1>1 DEF BidNotOpen, BidReplay, BidForbidden, Answer, Response, NoBid
<1>3. UNCHANGED <<txn, rate>> /\ KeepBooks
  BY DEF BidNotOpen, BidReplay, BidForbidden
<1> QED
  BY <1>2, <1>3 DEF KeepBooks, TypeOK, row, ledger, people

LEMMA RollbackType ==
  ASSUME TypeOK, NEW w \in Workers, BidRefuse(w) \/ BidCrash(w)
  PROVE  TypeOK'
<1>1. txn[w] \in Txn
  BY TxnType DEF BidRefuse, BidCrash, Checked
<1>2. txn[w].user \in Users /\ txn[w].key \in Keys \cup {NoKey}
  BY <1>1 DEF Txn
<1>3. txn' \in [Workers -> Txn \cup {NoTxn}]
  BY DEF BidRefuse, BidCrash, Release, TypeOK
<1>4. rate' \in [Users -> Nat]
  BY <1>2 DEF BidRefuse, BidCrash, CountAttempt, TypeOK
<1>5. answer' \in Response \cup {NoAnswer}
  BY <1>2 DEF BidRefuse, BidCrash, Answer, Response, NoBid
<1>6. KeepBooks
  BY DEF BidRefuse, BidCrash
<1> QED
  BY <1>3, <1>4, <1>5, <1>6 DEF KeepBooks, TypeOK, row, ledger, people

LEMMA CloserType ==
  ASSUME TypeOK,
         \/ SweepList \/ SweepClose
         \/ \E r \in Readers : Retrieve(r)
  PROVE  TypeOK'
<1>1. \A st, b : ClosedStatus(st, b) \in Closed
  BY DEF ClosedStatus, Closed
<1>2. Closed \subseteq Status
  BY DEF Closed, Status
<1>3. CASE SweepList
  BY <1>3 DEF SweepList, TypeOK, row, ledger, people
<1>4. CASE SweepClose
  <2>1. \/ UNCHANGED row
        \/ CloseRow(ClosedStatus(status, Public # {}), clock)
    BY <1>4 DEF SweepClose
  <2>2. ClosedStatus(status, Public # {}) \in Status
    BY <1>1, <1>2
  <2>3. /\ status' \in Status
        /\ actualEnd' \in Nat \cup {NotEnded}
        /\ UNCHANGED <<endsAt, extCount, price>>
    BY <2>1, <2>2 DEF CloseRow, TypeOK, row
  <2> QED
    BY <1>4, <2>3 DEF SweepClose, TypeOK, ledger, people
<1>5. ASSUME NEW r \in Readers, Retrieve(r)
      PROVE  TypeOK'
  <2>1. reader[r] \in Get \cup {NoGet}
    BY DEF TypeOK
  <2>2. reader' \in [Readers -> Get \cup {NoGet}]
    <3>1. CASE GetLoad(r)
      BY <3>1 DEF GetLoad, Get, TypeOK
    <3>2. CASE GetDecide(r)
      BY <1>1, <3>2 DEF GetDecide, Get, TypeOK
    <3>3. CASE GetClose(r)
      BY <3>3 DEF GetClose, TypeOK
    <3> QED
      BY <1>5, <3>1, <3>2, <3>3 DEF Retrieve
  <2>3. \/ UNCHANGED row
        \/ CloseRow(reader[r].result, reader[r].now) /\ reader[r].pc = "closing"
    BY <1>5 DEF Retrieve, GetLoad, GetDecide, GetClose
  <2>4. reader[r].pc = "closing" =>
          reader[r].result \in Closed /\ reader[r].now \in Nat
    BY <2>1 DEF Get, NoGet
  <2>5. RestOfGet
    BY <1>5 DEF Retrieve, GetLoad, GetDecide, GetClose
  <2> QED
    BY <1>2, <2>2, <2>3, <2>4, <2>5
       DEF RestOfGet, CloseRow, TypeOK, row, ledger, people
<1> QED
  BY <1>3, <1>4, <1>5

LEMMA EnvironmentType ==
  ASSUME TypeOK,
         \/ Tick
         \/ \E u \in Users : Subscribe(u)
         \/ \E u \in Suspects : ToggleShadow(u)
         \/ \E id \in DOMAIN bids : Announce(id)
  PROVE  TypeOK'
<1>1. CASE Tick
  BY <1>1 DEF Tick, TypeOK, row, ledger, people
<1>2. ASSUME NEW u \in Users, Subscribe(u) PROVE TypeOK'
  BY <1>2 DEF Subscribe, TypeOK, row, ledger
<1>3. ASSUME NEW u \in Suspects, ToggleShadow(u) PROVE TypeOK'
  BY <1>3 DEF ToggleShadow, TypeOK, row, ledger
<1>4. ASSUME NEW id \in DOMAIN bids, Announce(id) PROVE TypeOK'
  BY <1>4 DEF Announce, TypeOK, row, ledger, people
<1> QED
  BY <1>1, <1>2, <1>3, <1>4

LEMMA NextType == TypeOK /\ [Next]_vars => TypeOK'
<1> SUFFICES ASSUME TypeOK, [Next]_vars PROVE TypeOK'
  OBVIOUS
<1>1. ASSUME NEW w \in Workers, PlaceBid(w) PROVE TypeOK'
  BY <1>1, CheckType, AnswerType, RollbackType, CommitType
     DEF PlaceBid, BidFinish
<1>2. CASE UNCHANGED vars
  BY <1>2 DEF vars, TypeOK, row, ledger, people
<1> QED
  BY <1>1, <1>2, CloserType, EnvironmentType DEF Next

(* Every variable keeps its type: in particular the ledger is a sequence   *)
(* of well-formed bids and only committed bids are announced.              *)
THEOREM TypeCorrect == Spec => []TypeOK
BY InitType, NextType, PTL DEF Spec
-----------------------------------------------------------------------------
(* The row lock.                                                           *)

LEMMA UnlockedIsUnchecked == Unlocked => \A w \in Workers : ~Checked(w)
BY DEF Unlocked, Checked, NoTxn

(* After the only holder has released the lock nobody has it.              *)
LEMMA ReleaseRowLock ==
  ASSUME TypeOK, RowLock, NEW w \in Workers, Checked(w), Release(w)
  PROVE  RowLock'
<1>1. \A v \in Workers : ~Checked(v)'
  <2> SUFFICES ASSUME NEW v \in Workers PROVE ~Checked(v)'
    OBVIOUS
  <2>1. CASE v = w
    BY <2>1 DEF Release, Checked, NoTxn, TypeOK
  <2>2. CASE v # w
    BY <2>2 DEF Release, Checked, RowLock, TypeOK
  <2> QED
    BY <2>1, <2>2
<1> QED
  BY <1>1 DEF RowLock

LEMMA NextRowLock == TypeOK /\ RowLock /\ [Next]_vars => RowLock'
<1> SUFFICES ASSUME TypeOK, RowLock, [Next]_vars PROVE RowLock'
  OBVIOUS
<1>1. ASSUME NEW w \in Workers, NEW u \in Users, NEW a \in Amounts,
             NEW k \in Keys \cup {NoKey}, BidCheck(w, u, a, k)
      PROVE  RowLock'
  <2>1. \A v \in Workers : Checked(v)' => v = w
    BY <1>1, UnlockedIsUnchecked DEF BidCheck, Lock, Checked, TypeOK
  <2>2. /\ txn[w]'.price = price
        /\ txn[w]'.endsAt = endsAt
        /\ txn[w]'.extCount = extCount
    BY <1>1 DEF BidCheck, TypeOK
  <2>3. status = Active /\ clock <= endsAt /\ UNCHANGED <<row, idem>>
    BY <1>1 DEF BidCheck, Open, KeepBooks, ledger, TypeOK
  <2>4. /\ txn[w]'.now = clock
        /\ Lookup(txn[w]'.user, txn[w]'.key) = {}
    BY <1>1 DEF BidCheck, TypeOK
  <2> QED
    BY <2>1, <2>2, <2>3, <2>4 DEF RowLock, Lookup, row
<1>2. ASSUME NEW w \in Workers, BidFinish(w) PROVE RowLock'
  BY <1>2, ReleaseRowLock DEF BidFinish, BidRefuse, BidCommit, BidCrash, Checked
<1>3. CASE UNCHANGED <<txn, row, idem>>
  BY <1>3 DEF RowLock, Lookup, Checked, row
<1>4. CASE Unlocked /\ UNCHANGED txn
  BY <1>4, UnlockedIsUnchecked DEF RowLock, Checked
<1>5. ASSUME NEW w \in Workers, PlaceBid(w) PROVE RowLock'
  <2>1. ASSUME NEW u \in Users, NEW k \in Keys \cup {NoKey},
               BidNotOpen(w, u, k) \/ BidReplay(w, u, k) \/ BidForbidden(w, u, k)
        PROVE  RowLock'
    BY <2>1, <1>3 DEF BidNotOpen, BidReplay, BidForbidden, KeepBooks, ledger
  <2> QED
    BY <1>1, <1>2, <1>5, <2>1 DEF PlaceBid
<1>6. ASSUME NEW r \in Readers, Retrieve(r) PROVE RowLock'
  BY <1>3, <1>4, <1>6
     DEF Retrieve, GetLoad, GetDecide, GetClose, RestOfGet, ledger
<1>7. CASE Next
  BY <1>3, <1>4, <1>5, <1>6, <1>7
     DEF Next, Tick, Subscribe, ToggleShadow, SweepList, SweepClose, Announce,
         ledger
<1>8. CASE UNCHANGED vars
  BY <1>3, <1>8 DEF vars, ledger
<1> QED
  BY <1>7, <1>8

(* An open place_bid transaction is alone, finds the auction ACTIVE and    *)
(* holds the current price and deadline: SELECT ... FOR UPDATE protects    *)
(* what place_bid read, against bids, the sweep and the GET.               *)
THEOREM RowLockHolds == Spec => []RowLock
<1>1. Init => RowLock
  BY DEF Init, RowLock, Checked, NoTxn
<1> QED
  BY <1>1, NextRowLock, TypeCorrect, PTL DEF Spec
-----------------------------------------------------------------------------
(* The books are shut at the close.                                        *)

(* Once the auction is ended it stays ended, and price, deadline, bids,    *)
(* keys and snapshots never change again, whoever ended it and whatever    *)
(* transactions were waiting.                                              *)
THEOREM BooksShut == Spec => BooksShutAtClose
<1>1. TypeOK /\ RowLock /\ [Next]_vars => [ShutStep]_vars
  <2> SUFFICES ASSUME TypeOK, RowLock, Next, status \in Closed
               PROVE  /\ status' \in Closed
                      /\ UNCHANGED <<endsAt, extCount, price>>
                      /\ UNCHANGED ledger
    BY DEF ShutStep, ledger
  <2>1. \A w \in Workers : ~Checked(w)
    BY DEF RowLock, Closed, Active, Ended, EndedWithoutBids
  <2>2. ASSUME NEW w \in Workers PROVE ~BidFinish(w)
    BY <2>1 DEF BidFinish, BidRefuse, BidCommit, BidCrash, Checked
  <2>3. ASSUME NEW w \in Workers, PlaceBid(w)
        PROVE  UNCHANGED <<row, ledger>>
    BY <2>2, <2>3
       DEF PlaceBid, BidNotOpen, BidReplay, BidForbidden, BidCheck, KeepBooks
  <2>4. ASSUME NEW r \in Readers, Retrieve(r)
        PROVE  UNCHANGED ledger /\ (UNCHANGED row \/
                 (CloseRow(reader[r].result, reader[r].now)
                    /\ reader[r].pc = "closing"))
    BY <2>4 DEF Retrieve, GetLoad, GetDecide, GetClose, RestOfGet
  <2>5. ASSUME NEW r \in Readers, reader[r].pc = "closing"
        PROVE  reader[r].result \in Closed
    <3>1. reader[r] \in Get \cup {NoGet}
      BY DEF TypeOK
    <3> QED
      BY <2>5, <3>1 DEF Get, NoGet
  <2>6. CASE SweepClose
    <3>1. ~IsDue(status, endsAt, clock)
      BY DEF IsDue, Closed, Active, Scheduled, Ended, EndedWithoutBids
    <3> QED
      BY <2>6, <3>1 DEF SweepClose, row
  <2>7. CASE UNCHANGED <<row, ledger>>
    BY <2>7 DEF row
  <2> QED
    BY <2>3, <2>4, <2>5, <2>6, <2>7
       DEF Next, Tick, Subscribe, ToggleShadow, SweepList, Announce, CloseRow, row
<1> QED
  BY <1>1, TypeCorrect, RowLockHolds, PTL DEF Spec, BooksShutAtClose
-----------------------------------------------------------------------------
(* The price and its leader.                                               *)

LEMMA OnlyCommitsWrite ==
  ASSUME TypeOK, [Next]_vars, ~\E w \in Workers : BidCommit(w)
  PROVE  UNCHANGED <<price, endsAt, extCount, ledger>>
<1>1. ASSUME NEW w \in Workers, PlaceBid(w)
      PROVE  UNCHANGED <<price, endsAt, extCount, ledger>>
  BY <1>1 DEF PlaceBid, BidNotOpen, BidReplay, BidForbidden, BidCheck,
              BidFinish, BidRefuse, BidCrash, KeepBooks, row
<1>2. ASSUME NEW r \in Readers, Retrieve(r)
      PROVE  UNCHANGED <<price, endsAt, extCount, ledger>>
  BY <1>2 DEF Retrieve, GetLoad, GetDecide, GetClose, RestOfGet, CloseRow, row
<1>3. CASE UNCHANGED vars
  BY <1>3 DEF vars, row
<1> QED
  BY <1>1, <1>2, <1>3 DEF Next, Tick, Subscribe, ToggleShadow, SweepList,
                          SweepClose, Announce, CloseRow, row

(* What a commit finds under the row lock.                                 *)
LEMMA CommitFinds ==
  ASSUME TypeOK, RowLock, NEW w \in Workers, BidCommit(w)
  PROVE  /\ txn[w] \in Txn
         /\ status = Active
         /\ txn[w].price = price
         /\ txn[w].endsAt = endsAt
         /\ txn[w].amount \in Nat /\ price \in Nat
         /\ txn[w].amount > price
         /\ txn[w].amount - price >= MinIncrement
         /\ \/ InsertSuppressed(txn[w])
            \/ InsertPublic(txn[w], Len(bids) + 1)
<1>1. Checked(w)
  BY DEF BidCommit, Checked
<1>2. txn[w] \in Txn
  BY <1>1, TxnType
<1>3. txn[w].amount \in Nat
  BY <1>2, SetsAssumption DEF Txn
<1> QED
  BY <1>1, <1>2, <1>3 DEF RowLock, BidCommit, Admissible, TypeOK

(* Either way the new bid is the last of the table.                        *)
LEMMA CommitAppends ==
  ASSUME TypeOK, NEW t \in Txn,
         InsertSuppressed(t) \/ InsertPublic(t, Len(bids) + 1)
  PROVE  /\ Len(bids') = Len(bids) + 1
         /\ bids'[Len(bids')] = NewBid(t)
         /\ \A i \in DOMAIN bids : bids'[i].bidder = bids[i].bidder
<1>1. NewBid(t) \in Bid
  BY NewBidType
<1>2. DOMAIN bids = 1 .. Len(bids)
  BY LenProperties DEF TypeOK
<1>3. CASE InsertSuppressed(t)
  BY <1>1, <1>2, <1>3, AppendProperties DEF InsertSuppressed, TypeOK
<1>4. CASE InsertPublic(t, Len(bids) + 1)
  BY <1>1, <1>2, <1>4, OutbidType, AppendProperties DEF InsertPublic, TypeOK
<1> QED
  BY <1>3, <1>4

(* A suppressed bid adds nothing to the public bids.                       *)
LEMMA SuppressedIsNotPublic ==
  ASSUME TypeOK, NEW t \in Txn, InsertSuppressed(t)
  PROVE  /\ Public' = Public
         /\ \A i \in Public : bids'[i] = bids[i]
<1>1. NewBid(t) \in Bid /\ NewBid(t).suppressed
  BY NewBidType DEF InsertSuppressed, NewBid
<1>2. /\ DOMAIN bids = 1 .. Len(bids) /\ Len(bids) \in Nat
      /\ DOMAIN bids' = 1 .. Len(bids) + 1
      /\ \A i \in 1 .. Len(bids) : bids'[i] = bids[i]
      /\ bids'[Len(bids) + 1] = NewBid(t)
  BY <1>1, AppendProperties, LenProperties DEF InsertSuppressed, TypeOK
<1> QED
  BY <1>1, <1>2 DEF Public

(* A public bid is added at the end, and is the one accepted.              *)
LEMMA PublicIsAccepted ==
  ASSUME TypeOK, NEW t \in Txn, InsertPublic(t, Len(bids) + 1)
  PROVE  /\ Public' = Public \cup {Len(bids) + 1}
         /\ Accepted' = {Len(bids) + 1}
         /\ bids'[Len(bids) + 1].amount = t.amount
         /\ bids'[Len(bids) + 1].bidder = t.user
         /\ \A i \in DOMAIN bids : /\ bids'[i].amount = bids[i].amount
                                   /\ bids'[i].bidder = bids[i].bidder
<1>1. NewBid(t) \in Bid /\ ~t.suppress
  BY NewBidType DEF InsertPublic
<1>2. /\ NewBid(t).suppressed = t.suppress
      /\ NewBid(t).status = "accepted"
      /\ NewBid(t).amount = t.amount
      /\ NewBid(t).bidder = t.user
  BY DEF NewBid
<1>3. /\ DOMAIN bids = 1 .. Len(bids) /\ Len(bids) \in Nat
      /\ DOMAIN bids' = 1 .. Len(bids) + 1
      /\ \A i \in 1 .. Len(bids) : bids'[i] = Outbid[i]
      /\ bids'[Len(bids) + 1] = NewBid(t)
  BY <1>1, AppendProperties, LenProperties, OutbidType DEF InsertPublic, TypeOK
<1>4. \A i \in DOMAIN bids : bids[i] \in Bid
  BY <1>3, ElementOfSeq DEF TypeOK
<1>5. Public' = Public \cup {Len(bids) + 1}
  BY <1>1, <1>2, <1>3, OutbidType DEF Public
<1>6. \A i \in Public : bids'[i].status # "accepted"
  BY <1>3, <1>4, OutbidType DEF Public, Accepted, Bid
<1>7. Accepted' = {Len(bids) + 1}
  BY <1>2, <1>3, <1>5, <1>6 DEF Accepted
<1> QED
  BY <1>2, <1>3, <1>5, <1>7, OutbidType

LEMMA AmountsAreNat ==
  ASSUME TypeOK, NEW i \in DOMAIN bids
  PROVE  bids[i].amount \in Nat /\ i \in 1 .. Len(bids) /\ Len(bids) \in Nat
<1>1. DOMAIN bids = 1 .. Len(bids) /\ Len(bids) \in Nat
  BY LenProperties DEF TypeOK
<1>2. bids[i] \in Bid
  BY <1>1, ElementOfSeq DEF TypeOK
<1> QED
  BY <1>1, <1>2 DEF Bid

LEMMA NextOneLeader ==
  TypeOK /\ RowLock /\ OneLeader /\ [Next]_vars => OneLeader'
<1> SUFFICES ASSUME TypeOK, RowLock, OneLeader, [Next]_vars PROVE OneLeader'
  OBVIOUS
<1>1. CASE ~\E w \in Workers : BidCommit(w)
  <2>1. UNCHANGED <<price, bids>>
    BY <1>1, OnlyCommitsWrite DEF ledger
  <2> QED
    BY <2>1 DEF OneLeader, Public, Accepted
<1>2. ASSUME NEW w \in Workers, BidCommit(w) PROVE OneLeader'
  <2> DEFINE t  == txn[w]
             id == Len(bids) + 1
  <2>1. CASE InsertSuppressed(t)
    <3>1. /\ Public' = Public
          /\ \A i \in Public : bids'[i] = bids[i]
      BY <1>2, <2>1, CommitFinds, SuppressedIsNotPublic
    <3>2. Accepted' = Accepted /\ price' = price
      BY <2>1, <3>1 DEF InsertSuppressed, Accepted, row
    <3> QED
      BY <3>1, <3>2 DEF OneLeader
  <2>2. CASE InsertPublic(t, id)
    <3>1. /\ Public' = Public \cup {id}
          /\ Accepted' = {id}
          /\ bids'[id].amount = t.amount
          /\ \A i \in DOMAIN bids : bids'[i].amount = bids[i].amount
      BY <1>2, <2>2, CommitFinds, PublicIsAccepted
    <3>2. price' = t.amount
      BY <2>2 DEF InsertPublic
    <3>3. /\ t.amount \in Nat /\ price \in Nat /\ MinIncrement \in Nat
          /\ t.amount > price /\ t.amount - price >= MinIncrement
      BY <1>2, CommitFinds, NumbersAssumption
    <3>4. \A i \in Public : /\ i \in DOMAIN bids
                            /\ bids[i].amount \in Nat
                            /\ bids[i].amount <= price
                            /\ i < id
      BY AmountsAreNat DEF OneLeader, Public
    <3>5. id \in Public' /\ \A i \in Public' : i <= id
      BY <3>1, <3>4, LenProperties DEF TypeOK
    <3>6. \A i, j \in Public' :
            i < j => /\ bids'[i].amount < bids'[j].amount
                     /\ bids'[j].amount - bids'[i].amount >= MinIncrement
      <4> SUFFICES ASSUME NEW i \in Public', NEW j \in Public', i < j
                   PROVE  /\ bids'[i].amount < bids'[j].amount
                          /\ bids'[j].amount - bids'[i].amount >= MinIncrement
        OBVIOUS
      <4>1. i \in Public
        BY <3>1, <3>4, LenProperties DEF TypeOK
      <4>2. CASE j = id
        BY <3>1, <3>3, <3>4, <4>1, <4>2
      <4>3. CASE j \in Public
        BY <3>1, <3>4, <4>1, <4>3 DEF OneLeader
      <4> QED
        BY <3>1, <4>2, <4>3
    <3> QED
      BY <3>1, <3>2, <3>5, <3>6 DEF OneLeader
  <2> QED
    BY <1>2, <2>1, <2>2, CommitFinds
<1> QED
  BY <1>1, <1>2

(* The auction always has one leader, whose amount is the price; every     *)
(* other public bid is outbid and the bids beat each other by the          *)
(* increment: for any number of concurrent place_bid calls, sweeps, GETs   *)
(* and bans.                                                               *)
THEOREM AlwaysOneLeader == Spec => []OneLeader
<1>1. Init => OneLeader
  BY DEF Init, OneLeader, Public
<1> QED
  BY <1>1, NextOneLeader, TypeCorrect, RowLockHolds, PTL DEF Spec
-----------------------------------------------------------------------------
(* The English auction.                                                    *)

(* The last snapshot has the price; every snapshot names a bid.            *)
PriceChain ==
  /\ price = IF snapshots = <<>> THEN StartPrice
             ELSE snapshots[Len(snapshots)].new
  /\ \A n \in DOMAIN snapshots : snapshots[n].bid \in DOMAIN bids

(* What a commit of a public bid adds to the snapshots.                    *)
LEMMA SnapshotAdded ==
  ASSUME TypeOK, NEW t \in Txn, InsertPublic(t, Len(bids) + 1)
  PROVE  /\ Len(snapshots) \in Nat
         /\ DOMAIN snapshots = 1 .. Len(snapshots)
         /\ Len(snapshots') = Len(snapshots) + 1
         /\ DOMAIN snapshots' = 1 .. Len(snapshots) + 1
         /\ \A n \in DOMAIN snapshots : snapshots'[n] = snapshots[n]
         /\ snapshots'[Len(snapshots) + 1].bid = Len(bids) + 1
         /\ snapshots'[Len(snapshots) + 1].new = t.amount
         /\ snapshots' # <<>>
         /\ DOMAIN bids = 1 .. Len(bids)
         /\ DOMAIN bids' = 1 .. Len(bids) + 1
         /\ Len(bids) \in Nat
<1> DEFINE s == [bid |-> Len(bids) + 1, previous |-> t.price, new |-> t.amount]
<1>1. Len(bids) \in Nat /\ t.price \in Nat /\ t.amount \in Nat
  BY SetsAssumption, LenProperties DEF Txn, TypeOK
<1>2. s \in [bid : Nat, previous : Nat, new : Nat]
  BY <1>1
<1>3. snapshots' = Append(snapshots, s)
  BY DEF InsertPublic
<1>4. /\ Len(snapshots') = Len(snapshots) + 1
      /\ snapshots'[Len(snapshots) + 1] = s
      /\ \A n \in 1 .. Len(snapshots) : snapshots'[n] = snapshots[n]
      /\ snapshots' \in Seq([bid : Nat, previous : Nat, new : Nat])
  BY <1>2, <1>3, AppendProperties DEF TypeOK
<1>5. /\ DOMAIN snapshots = 1 .. Len(snapshots) /\ Len(snapshots) \in Nat
      /\ DOMAIN snapshots' = 1 .. Len(snapshots')
  BY <1>4, LenProperties DEF TypeOK
<1>6. bids' \in Seq(Bid) /\ Len(bids') = Len(bids) + 1
  BY InsertType
<1>7. DOMAIN bids = 1 .. Len(bids) /\ DOMAIN bids' = 1 .. Len(bids) + 1
  BY <1>6, LenProperties DEF TypeOK
<1>8. snapshots' # <<>>
  BY <1>4, <1>5, EmptySeq
<1> QED
  BY <1>1, <1>4, <1>5, <1>7, <1>8

LEMMA FunctionIsSeq ==
  ASSUME NEW S, NEW n \in Nat, NEW f \in [1 .. n -> S]
  PROVE  f \in Seq(S) /\ Len(f) = n
<1>1. f \in Seq(S)
  BY SeqDef
<1>2. DOMAIN f = 1 .. Len(f) /\ Len(f) \in Nat
  BY <1>1, LenProperties
<1> QED
  BY <1>1, <1>2

LEMMA NextPriceChain ==
  TypeOK /\ RowLock /\ PriceChain /\ [Next]_vars => PriceChain'
<1> SUFFICES ASSUME TypeOK, RowLock, PriceChain, [Next]_vars PROVE PriceChain'
  OBVIOUS
<1>1. CASE ~\E w \in Workers : BidCommit(w)
  <2>1. UNCHANGED <<price, bids, snapshots>>
    BY <1>1, OnlyCommitsWrite DEF ledger
  <2> QED
    BY <2>1 DEF PriceChain
<1>2. ASSUME NEW w \in Workers, BidCommit(w) PROVE PriceChain'
  <2>1. CASE InsertSuppressed(txn[w])
    <3>1. UNCHANGED <<price, snapshots>>
      BY <2>1 DEF InsertSuppressed, row
    <3>2. DOMAIN bids \subseteq DOMAIN bids'
      <4>1. Len(bids') = Len(bids) + 1 /\ bids' \in Seq(Bid)
        BY <1>2, <2>1, CommitFinds, InsertType
      <4> QED
        BY <4>1, LenProperties DEF TypeOK
    <3> QED
      BY <3>1, <3>2 DEF PriceChain
  <2>2. CASE InsertPublic(txn[w], Len(bids) + 1)
    <3>1. price' = txn[w].amount
      BY <2>2 DEF InsertPublic
    <3>2. txn[w] \in Txn
      BY <1>2, CommitFinds
    <3> QED
      BY <2>2, <3>1, <3>2, SnapshotAdded DEF PriceChain
  <2> QED
    BY <1>2, <2>1, <2>2, CommitFinds
<1> QED
  BY <1>1, <1>2

LEMMA PriceChainHolds == Spec => []PriceChain
<1>1. Init => PriceChain
  BY EmptySeq DEF Init, PriceChain
<1> QED
  BY <1>1, NextPriceChain, TypeCorrect, RowLockHolds, PTL DEF Spec

(* The calls as far as nothing is committed, and after a public commit.    *)
LEMMA RaiseStep ==
  ASSUME TypeOK, RowLock, PriceChain, NEW w \in Workers, BidCommit(w)
  PROVE  [English!ANext]_(English!avars)
<1> DEFINE t == txn[w]
           n == Len(snapshots) + 1
<1>1. t \in Txn /\ status = Active
  BY CommitFinds
<1>2. CASE InsertSuppressed(t)
  <2>1. status' = status /\ snapshots' = snapshots
    BY <1>2 DEF InsertSuppressed, row
  <2>2. \A i \in DOMAIN bids : bids'[i] = bids[i]
    BY <1>1, <1>2, NewBidType, AppendProperties, LenProperties
       DEF InsertSuppressed, TypeOK
  <2>3. Calls' = Calls
    BY <2>1, <2>2 DEF Calls, PriceChain
  <2> QED
    BY <2>1, <2>3 DEF English!avars
<1>3. CASE InsertPublic(t, Len(bids) + 1)
  <2> DEFINE call == [bidder |-> t.user, amount |-> t.amount]
  <2>1. Calls \in Seq([bidder : Users, amount : Nat]) /\ Len(Calls) = Len(snapshots)
    <3>1. \A i \in DOMAIN bids : bids[i] \in Bid
      BY LenProperties, ElementOfSeq DEF TypeOK
    <3>2. \A i \in DOMAIN snapshots : snapshots[i].new \in Nat
      <4>1. \A i \in DOMAIN snapshots :
              snapshots[i] \in [bid : Nat, previous : Nat, new : Nat]
        BY LenProperties, ElementOfSeq DEF TypeOK
      <4> QED
        BY <4>1
    <3>3. Calls \in [1 .. Len(snapshots) -> [bidder : Users, amount : Nat]]
      BY <1>1, <1>3, <3>1, <3>2, SnapshotAdded DEF Calls, PriceChain, Bid
    <3>4. Len(snapshots) \in Nat
      BY <1>1, <1>3, SnapshotAdded
    <3> QED
      BY <3>3, <3>4, FunctionIsSeq
  <2>2. call \in [bidder : Users, amount : Nat] /\ t.amount \in Amounts
    BY <1>1, SetsAssumption DEF Txn
  <2>3. \A i \in DOMAIN snapshots :
          bids'[snapshots[i].bid].bidder = bids[snapshots[i].bid].bidder
    BY <1>1, <1>3, PublicIsAccepted DEF PriceChain
  <2>4. bids'[Len(bids) + 1].bidder = t.user
    BY <1>1, <1>3, PublicIsAccepted
  <2>5. Calls' = Append(Calls, call)
    <3>1. /\ Append(Calls, call) \in Seq([bidder : Users, amount : Nat])
          /\ Len(Append(Calls, call)) = n
          /\ \A i \in 1 .. Len(snapshots) : Append(Calls, call)[i] = Calls[i]
          /\ Append(Calls, call)[n] = call
      BY <2>1, <2>2, AppendProperties
    <3>2. DOMAIN Append(Calls, call) = 1 .. n
      BY <3>1, LenProperties
    <3>3. \A i \in 1 .. Len(snapshots) : Calls'[i] = Calls[i]
      BY <1>1, <1>3, <2>3, SnapshotAdded DEF Calls
    <3>4. Calls'[n] = call /\ DOMAIN Calls' = 1 .. n
      BY <1>1, <1>3, <2>4, SnapshotAdded DEF Calls
    <3>5. \A i \in 1 .. n : Calls'[i] = Append(Calls, call)[i]
      BY <1>1, <1>3, <3>1, <3>3, <3>4, SnapshotAdded
    <3>6. Calls' \in Seq([bidder : Users, amount : Nat])
      <4>1. \A i \in 1 .. n : Calls'[i] \in [bidder : Users, amount : Nat]
        BY <3>1, <3>2, <3>5, ElementOfSeq
      <4>2. Calls' \in [1 .. n -> [bidder : Users, amount : Nat]]
        BY <3>4, <4>1 DEF Calls
      <4>3. n \in Nat
        BY <1>1, <1>3, SnapshotAdded
      <4> HIDE DEF n
      <4> QED
        BY <4>2, <4>3, FunctionIsSeq
    <3>7. Len(Calls') = n
      <4>1. n \in Nat /\ DOMAIN Calls' = 1 .. Len(Calls') /\ Len(Calls') \in Nat
        BY <1>1, <1>3, <3>6, SnapshotAdded, LenProperties
      <4> HIDE DEF n
      <4> QED
        BY <3>4, <4>1
    <3> QED
      BY <3>1, <3>5, <3>6, <3>7, SeqEqual
  <2>6. English!CallPrice = price
    <3>1. CASE snapshots = <<>>
      <4>1. Calls = <<>>
        BY <2>1, <3>1, EmptySeq
      <4> QED
        BY <3>1, <4>1 DEF English!CallPrice, PriceChain
    <3>2. CASE snapshots # <<>>
      <4>1. Len(snapshots) # 0
        BY <3>2, EmptySeq DEF TypeOK
      <4>2. Calls # <<>>
        BY <2>1, <4>1, EmptySeq
      <4>3. Len(snapshots) \in DOMAIN snapshots
        BY <1>1, <1>3, <4>1, SnapshotAdded
      <4>4. Calls[Len(Calls)].amount = snapshots[Len(snapshots)].new
        BY <2>1, <4>3 DEF Calls
      <4> QED
        BY <3>2, <4>2, <4>4 DEF English!CallPrice, PriceChain
    <3> QED
      BY <3>1, <3>2
  <2>7. status' = status
    BY <1>3 DEF InsertPublic
  <2>8. t.amount > price /\ t.amount - price >= MinIncrement
    BY CommitFinds
  <2>9. English!Raise(t.user, t.amount)
    BY <1>1, <2>5, <2>6, <2>7, <2>8 DEF English!Raise
  <2> QED
    BY <1>1, <2>2, <2>9 DEF English!ANext, Txn
<1> QED
  BY <1>2, <1>3, CommitFinds

(* What else happens is the hammer or goes unnoticed.                      *)
LEMMA OtherStepsHammer ==
  ASSUME TypeOK, [Next]_vars, ~\E w \in Workers : BidCommit(w)
  PROVE  [English!ANext]_(English!avars)
<1>1. Calls' = Calls
  <2>1. UNCHANGED <<bids, snapshots>>
    BY OnlyCommitsWrite DEF ledger
  <2> QED
    BY <2>1 DEF Calls
<1>2. status' = status \/ status' \in Closed
  <2>1. ASSUME NEW w \in Workers, PlaceBid(w) PROVE status' = status
    BY <2>1 DEF PlaceBid, BidNotOpen, BidReplay, BidForbidden, BidCheck,
                BidFinish, BidRefuse, BidCrash, KeepBooks, row
  <2>2. ASSUME NEW r \in Readers, Retrieve(r)
        PROVE  status' = status \/ status' \in Closed
    <3>1. reader[r].pc = "closing" => reader[r].result \in Closed
      <4>1. reader[r] \in Get \cup {NoGet}
        BY DEF TypeOK
      <4> QED
        BY <4>1 DEF Get, NoGet
    <3> QED
      BY <2>2, <3>1 DEF Retrieve, GetLoad, GetDecide, GetClose, CloseRow, row
  <2>3. SweepClose => status' = status \/ status' \in Closed
    BY DEF SweepClose, CloseRow, ClosedStatus, Closed, row
  <2>4. UNCHANGED vars => status' = status
    BY DEF vars, row
  <2> QED
    BY <2>1, <2>2, <2>3, <2>4
       DEF Next, Tick, Subscribe, ToggleShadow, SweepList, Announce, row
<1>3. CASE (status' = Active) = (status = Active)
  BY <1>1, <1>3 DEF English!avars
<1>4. CASE (status' = Active) # (status = Active)
  <2>1. status = Active /\ status' # Active
    BY <1>2, <1>4 DEF Closed, Active, Ended, EndedWithoutBids
  <2> QED
    BY <1>1, <2>1 DEF English!ANext, English!Hammer
<1> QED
  BY <1>3, <1>4

(* The whole of place_bid, the sweep and the GET, with any number of       *)
(* processes, is to those who watch the snapshots an English auction.      *)
THEOREM BiddingIsEnglish == Spec => ImplementsEnglishAuction
<1>1. Init => English!AInit
  <2> SUFFICES ASSUME Init PROVE English!AInit
    OBVIOUS
  <2>1. snapshots = <<>> /\ status = Active
    BY DEF Init
  <2>2. Calls \in [1 .. 0 -> {}]
    BY <2>1, EmptySeq, LenProperties DEF Calls
  <2>3. Calls = <<>>
    BY <2>2, FunctionIsSeq, EmptySeq
  <2> QED
    BY <2>1, <2>3 DEF English!AInit
<1>2. TypeOK /\ RowLock /\ PriceChain /\ [Next]_vars
        => [English!ANext]_(English!avars)
  BY RaiseStep, OtherStepsHammer
<1> QED
  BY <1>1, <1>2, TypeCorrect, RowLockHolds, PriceChainHolds, PTL
     DEF Spec, ImplementsEnglishAuction, English!ASpec
-----------------------------------------------------------------------------
(* Time to answer.                                                         *)

(* The deadline never moves back; a bid was placed before the deadline of  *)
(* the row it commits to; and a public bid leaves the others the trigger   *)
(* window or the extension, whatever waited for the row lock meanwhile.    *)
THEOREM TimeToAnswer == Spec => BidsLeaveTimeToAnswer
<1>1. TypeOK /\ RowLock /\ [Next]_vars => [TimeToAnswerStep]_vars
  <2> SUFFICES ASSUME TypeOK, RowLock, [Next]_vars PROVE TimeToAnswerStep
    OBVIOUS
  <2>1. CASE ~\E w \in Workers : BidCommit(w)
    <3>1. UNCHANGED <<endsAt, bids>>
      BY <2>1, OnlyCommitsWrite DEF ledger
    <3> QED
      BY <3>1, LenProperties DEF TimeToAnswerStep, TypeOK
  <2>2. ASSUME NEW w \in Workers, BidCommit(w) PROVE TimeToAnswerStep
    <3> DEFINE t == txn[w]
               b == NewBid(t)
    <3>1. /\ t \in Txn /\ t.endsAt = endsAt /\ t.now <= endsAt
          /\ endsAt \in Nat /\ t.now \in Nat
      <4>1. t \in Txn /\ t.endsAt = endsAt
        BY <2>2, CommitFinds
      <4>2. Checked(w)
        BY <2>2 DEF BidCommit, Checked
      <4>3. t.now <= endsAt
        BY <4>2 DEF RowLock
      <4> QED
        BY <4>1, <4>3 DEF Txn, TypeOK
    <3>2. bids'[Len(bids')] = b /\ b \in Bid
      BY <2>2, <3>1, CommitFinds, CommitAppends, NewBidType
    <3>3. CASE t.suppress
      <4>1. endsAt' = endsAt
        BY <2>2, <3>3, CommitFinds DEF InsertSuppressed, InsertPublic, row
      <4> QED
        BY <3>1, <3>2, <3>3, <4>1 DEF TimeToAnswerStep, NewBid
    <3>4. CASE ~t.suppress
      <4>1. endsAt' = NewDeadline(t)
        BY <2>2, <3>4, CommitFinds DEF InsertSuppressed, InsertPublic
      <4> QED
        BY <3>1, <3>2, <3>4, <4>1, NumbersAssumption
           DEF TimeToAnswerStep, NewDeadline, Extends, InWindow, NewBid
    <3> QED
      BY <3>3, <3>4
  <2> QED
    BY <2>1, <2>2
<1> QED
  BY <1>1, TypeCorrect, RowLockHolds, PTL DEF Spec, BidsLeaveTimeToAnswer
-----------------------------------------------------------------------------
(* Idempotency keys.                                                       *)

(* One key of one user stands for at most one bid, and it is the user's:   *)
(* the lookup that found nothing is still true at the commit.              *)
THEOREM KeysNameBids == Spec => []KeysNameOneBid
<1>1. Init => KeysNameOneBid
  BY DEF Init, KeysNameOneBid
<1>2. TypeOK /\ RowLock /\ KeysNameOneBid /\ [Next]_vars => KeysNameOneBid'
  <2> SUFFICES ASSUME TypeOK, RowLock, KeysNameOneBid, [Next]_vars
               PROVE  KeysNameOneBid'
    OBVIOUS
  <2>1. CASE ~\E w \in Workers : BidCommit(w)
    <3>1. UNCHANGED <<idem, bids>>
      BY <2>1, OnlyCommitsWrite DEF ledger
    <3> QED
      BY <3>1 DEF KeysNameOneBid
  <2>2. ASSUME NEW w \in Workers, BidCommit(w) PROVE KeysNameOneBid'
    <3> DEFINE t  == txn[w]
               id == Len(bids) + 1
               e0 == [user |-> t.user, key |-> t.key, bid |-> id]
    <3>1. t \in Txn /\ Lookup(t.user, t.key) = {}
      <4>1. Checked(w)
        BY <2>2 DEF BidCommit, Checked
      <4> QED
        BY <2>2, <4>1, CommitFinds DEF RowLock
    <3>2. /\ DOMAIN bids = 1 .. Len(bids) /\ Len(bids) \in Nat
          /\ DOMAIN bids' = 1 .. id
          /\ bids'[id].bidder = t.user
          /\ \A i \in DOMAIN bids : bids'[i].bidder = bids[i].bidder
      <4>1. bids' \in Seq(Bid) /\ Len(bids') = id
        BY <2>2, <3>1, CommitFinds, InsertType
      <4>2. bids'[id] = NewBid(t)
        BY <2>2, <3>1, <4>1, CommitFinds, CommitAppends
      <4>3. DOMAIN bids' = 1 .. id
        BY <4>1, LenProperties
      <4>4. DOMAIN bids = 1 .. Len(bids) /\ Len(bids) \in Nat
        BY LenProperties DEF TypeOK
      <4>5. \A i \in DOMAIN bids : bids'[i].bidder = bids[i].bidder
        BY <2>2, <3>1, CommitFinds, CommitAppends
      <4> QED
        BY <4>2, <4>3, <4>4, <4>5 DEF NewBid
    <3>3. idem' \subseteq idem \cup {e0}
      BY <2>2 DEF BidCommit
    <3>4. \A e \in idem : ~(e.user = t.user /\ e.key = t.key)
      BY <3>1 DEF Lookup
    <3>5. \A e \in idem' : e.bid \in DOMAIN bids' /\ bids'[e.bid].bidder = e.user
      BY <3>2, <3>3 DEF KeysNameOneBid
    <3>6. \A e, f \in idem' : e.user = f.user /\ e.key = f.key => e = f
      BY <3>3, <3>4 DEF KeysNameOneBid
    <3> QED
      BY <3>5, <3>6 DEF KeysNameOneBid
  <2> QED
    BY <2>1, <2>2
<1> QED
  BY <1>1, <1>2, TypeCorrect, RowLockHolds, PTL DEF Spec
-----------------------------------------------------------------------------
(* Replays.                                                                *)

(* While the auction is open every answer to a used key is the bid of that *)
(* key, and an answer names a bid of its own user: replay, first answer    *)
(* and refusal agree because no key is used while its transaction waits.   *)
THEOREM ReplaysAnswerAlike == Spec => ReplayReturnsOriginal
<1>1. TypeOK /\ RowLock /\ KeysNameOneBid /\ [Next]_vars => [ReplayStep]_vars
  <2> SUFFICES ASSUME TypeOK, RowLock, KeysNameOneBid, Next,
                      answer' # NoAnswer
               PROVE  ReplayStep
    BY DEF ReplayStep
  <2>1. ASSUME NEW w \in Workers, NEW u \in Users, NEW k \in Keys \cup {NoKey},
               BidNotOpen(w, u, k) \/ BidReplay(w, u, k) \/ BidForbidden(w, u, k)
        PROVE  ReplayStep
    <3>1. UNCHANGED bids
      BY <2>1 DEF BidNotOpen, BidReplay, BidForbidden, KeepBooks, ledger
    <3>2. CASE BidNotOpen(w, u, k)
      BY <3>2 DEF BidNotOpen, Answer, ReplayStep
    <3>3. CASE BidReplay(w, u, k)
      <4>1. PICK e \in idem : e.user = u /\ e.key = k /\ Answer(u, k, e.bid)
        BY <3>3 DEF BidReplay, Lookup
      <4> QED
        BY <3>1, <4>1 DEF Answer, ReplayStep, KeysNameOneBid
    <3>4. CASE BidForbidden(w, u, k)
      BY <3>4 DEF BidForbidden, Answer, Lookup, ReplayStep
    <3> QED
      BY <2>1, <3>2, <3>3, <3>4
  <2>2. ASSUME NEW w \in Workers, BidFinish(w) PROVE ReplayStep
    <3> DEFINE t == txn[w]
    <3>1. Checked(w)
      BY <2>2 DEF BidFinish, BidRefuse, BidCommit, BidCrash, Checked
    <3>2. \A e \in idem : ~(e.user = t.user /\ e.key = t.key)
      BY <3>1 DEF RowLock, Lookup
    <3>3. CASE BidRefuse(w)
      BY <3>2, <3>3 DEF BidRefuse, Answer, ReplayStep
    <3>4. CASE BidCommit(w)
      <4>1. t \in Txn /\ (InsertSuppressed(t) \/ InsertPublic(t, Len(bids) + 1))
        BY <3>4, CommitFinds
      <4>2. /\ bids' \in Seq(Bid) /\ Len(bids') = Len(bids) + 1
            /\ bids'[Len(bids')] = NewBid(t)
        BY <4>1, InsertType, CommitAppends
      <4>3. Len(bids) + 1 \in DOMAIN bids'
        BY <4>2, LenProperties DEF TypeOK
      <4>4. answer'.user = t.user /\ answer'.key = t.key
              /\ answer'.bid = Len(bids) + 1
        BY <3>4 DEF BidCommit, Answer
      <4>5. bids'[answer'.bid].bidder = answer'.user
        BY <4>2, <4>4 DEF NewBid
      <4> QED
        BY <3>2, <4>3, <4>4, <4>5 DEF ReplayStep
    <3>5. CASE BidCrash(w)
      BY <3>5 DEF BidCrash
    <3> QED
      BY <2>2, <3>3, <3>4, <3>5 DEF BidFinish
  <2> QED
    BY <2>1, <2>2
       DEF Next, PlaceBid, BidCheck, Tick, Subscribe, ToggleShadow, SweepList,
           SweepClose, Retrieve, GetLoad, GetDecide, GetClose, RestOfGet, Announce
<1> QED
  BY <1>1, TypeCorrect, RowLockHolds, KeysNameBids, PTL
     DEF Spec, ReplayReturnsOriginal
-----------------------------------------------------------------------------
(* The close, with the sweep as the only closer.                           *)

LEMMA StatusIsSwept ==
  ASSUME TypeOK, Readers = {}, [Next]_vars, UNCHANGED ledger
  PROVE  \/ UNCHANGED row
         \/ /\ Unlocked
            /\ IsDue(status, endsAt, clock)
            /\ CloseRow(ClosedStatus(status, Public # {}), clock)
<1>1. ASSUME NEW w \in Workers, PlaceBid(w) PROVE UNCHANGED row
  <2>1. ASSUME BidCommit(w) PROVE FALSE
    <3>1. txn[w] \in Txn
      BY <2>1, TxnType DEF BidCommit, Checked
    <3>2. Len(bids') = Len(bids) + 1
      BY <2>1, <3>1, InsertType DEF BidCommit
    <3> QED
      BY <3>2, LenProperties DEF ledger, TypeOK
  <2> QED
    BY <1>1, <2>1 DEF PlaceBid, BidNotOpen, BidReplay, BidForbidden, BidCheck,
                      BidFinish, BidRefuse, BidCrash, KeepBooks
<1>2. CASE SweepClose
  BY <1>2 DEF SweepClose
<1> QED
  BY <1>1, <1>2 DEF Next, Tick, Subscribe, ToggleShadow, SweepList, Announce, vars

LEMMA CommitKeepsActive ==
  ASSUME TypeOK, RowLock, NEW w \in Workers, BidCommit(w)
  PROVE  status = Active /\ status' = Active
BY CommitFinds DEF InsertSuppressed, InsertPublic, row

(* Without GETs an auction is ended only when its last deadline is past:   *)
(* the sweep looks again under the lock, when no bid is about to move the  *)
(* deadline.                                                               *)
THEOREM SweepClosesInTime ==
  ASSUME Readers = {}
  PROVE  Spec => []ClosedAfterDeadline
<1>1. Init => ClosedAfterDeadline
  BY DEF Init, ClosedAfterDeadline, Closed, Active, Ended, EndedWithoutBids
<1>2. TypeOK /\ RowLock /\ ClosedAfterDeadline /\ [Next]_vars
        => ClosedAfterDeadline'
  <2> SUFFICES ASSUME TypeOK, RowLock, ClosedAfterDeadline, [Next]_vars
               PROVE  ClosedAfterDeadline'
    OBVIOUS
  <2>1. ASSUME NEW w \in Workers, BidCommit(w) PROVE ClosedAfterDeadline'
    BY <2>1, CommitKeepsActive
       DEF ClosedAfterDeadline, Closed, Active, Ended, EndedWithoutBids
  <2>2. CASE ~\E w \in Workers : BidCommit(w)
    <3>1. UNCHANGED ledger
      BY <2>2, OnlyCommitsWrite
    <3>2. CASE UNCHANGED row
      BY <3>2 DEF row, ClosedAfterDeadline
    <3>3. CASE IsDue(status, endsAt, clock)
                 /\ CloseRow(ClosedStatus(status, Public # {}), clock)
      BY <3>3 DEF IsDue, CloseRow, ClosedAfterDeadline, TypeOK
    <3> QED
      BY <3>1, <3>2, <3>3, StatusIsSwept
  <2> QED
    BY <2>1, <2>2
<1> QED
  BY <1>1, <1>2, TypeCorrect, RowLockHolds, PTL DEF Spec

(* Without GETs the outcome tells whether there are public bids: the sweep *)
(* counts them under the lock, and none is let in afterwards.              *)
THEOREM SweepTellsBids ==
  ASSUME Readers = {}
  PROVE  Spec => []OutcomeTellsBids
<1> DEFINE Outcome == OutcomeTellsBids /\ status # Scheduled
<1>1. Init => Outcome
  BY DEF Init, OutcomeTellsBids, Active, Scheduled, Ended, EndedWithoutBids
<1>2. TypeOK /\ RowLock /\ Outcome /\ [Next]_vars => Outcome'
  <2> SUFFICES ASSUME TypeOK, RowLock, Outcome, [Next]_vars
               PROVE  Outcome'
    OBVIOUS
  <2>1. ASSUME NEW w \in Workers, BidCommit(w) PROVE Outcome'
    BY <2>1, CommitKeepsActive
       DEF OutcomeTellsBids, Active, Scheduled, Ended, EndedWithoutBids
  <2>2. CASE ~\E w \in Workers : BidCommit(w)
    <3>1. UNCHANGED ledger /\ Public' = Public
      BY <2>2, OnlyCommitsWrite DEF ledger, Public
    <3>2. CASE UNCHANGED row
      BY <3>1, <3>2 DEF row, OutcomeTellsBids
    <3>3. CASE IsDue(status, endsAt, clock)
                 /\ CloseRow(ClosedStatus(status, Public # {}), clock)
      <4>1. status = Active
        BY <3>3 DEF IsDue
      <4> QED
        BY <3>1, <3>3, <4>1 DEF CloseRow, ClosedStatus, OutcomeTellsBids,
                                Active, Scheduled, Ended, EndedWithoutBids
    <3> QED
      BY <3>1, <3>2, <3>3, StatusIsSwept
  <2> QED
    BY <2>1, <2>2
<1> QED
  BY <1>1, <1>2, TypeCorrect, RowLockHolds, PTL DEF Spec
-----------------------------------------------------------------------------
(* Who closes without the lock.                                            *)

(* The deadline of the row and all deadlines that have been loaded are the *)
(* first one or later, and what a GET has decided it decided for a reason. *)
Grounded ==
  /\ EndIsGrounded
  /\ endsAt >= FirstDeadline
  /\ \A r \in Readers : reader[r].pc = "loaded" => reader[r].endsAt >= FirstDeadline
  /\ \A r \in Readers :
       reader[r].pc = "closing" => /\ reader[r].now > FirstDeadline
                                   /\ reader[r].result = Ended => Public # {}

LEMMA GroundedGet ==
  ASSUME TypeOK, Grounded, NEW r \in Readers, Retrieve(r)
  PROVE  Grounded'
<1>1. /\ Public' = Public /\ endsAt' = endsAt
      /\ \A s \in Readers \ {r} : reader'[s] = reader[s]
      /\ endsAt \in Nat /\ clock \in Nat /\ FirstDeadline \in Nat
  BY NumbersAssumption
     DEF Retrieve, GetLoad, GetDecide, GetClose, RestOfGet, CloseRow, row, ledger,
         Public, TypeOK
<1>2. CASE GetLoad(r)
  <2>1. reader'[r] = [pc |-> "loaded", status |-> status, endsAt |-> endsAt]
    BY <1>2 DEF GetLoad, TypeOK
  <2>2. UNCHANGED <<status, actualEnd>>
    BY <1>2 DEF GetLoad, row
  <2> QED
    BY <1>1, <2>1, <2>2 DEF Grounded, EndIsGrounded
<1>3. CASE GetDecide(r)
  <2>1. reader[r] \in Get /\ reader[r].pc = "loaded" /\ reader[r].endsAt \in Nat
    BY <1>3 DEF GetDecide, TypeOK, NoGet, Get
  <2>2. UNCHANGED <<status, actualEnd>>
    BY <1>3 DEF GetDecide, row
  <2>3. CASE IsDue(reader[r].status, reader[r].endsAt, clock)
    <3>1. reader'[r] = [pc |-> "closing", now |-> clock,
                        result |-> ClosedStatus(reader[r].status, Public # {})]
      BY <1>3, <2>3 DEF GetDecide, TypeOK
    <3>2. clock > FirstDeadline
      BY <1>1, <2>1, <2>3 DEF Grounded, IsDue
    <3>3. reader'[r].result = Ended => Public # {}
      BY <3>1 DEF ClosedStatus, Ended, EndedWithoutBids
    <3> QED
      BY <1>1, <2>2, <3>1, <3>2, <3>3 DEF Grounded, EndIsGrounded
  <2>4. CASE ~IsDue(reader[r].status, reader[r].endsAt, clock)
    <3>1. reader'[r] = NoGet
      BY <1>3, <2>4 DEF GetDecide, TypeOK
    <3> QED
      BY <1>1, <2>2, <3>1 DEF Grounded, EndIsGrounded, NoGet
  <2> QED
    BY <2>3, <2>4
<1>4. CASE GetClose(r)
  <2>1. /\ reader[r].now > FirstDeadline
        /\ reader[r].result = Ended => Public # {}
    BY <1>4 DEF GetClose, Grounded
  <2>2. reader'[r] = NoGet /\ status' = reader[r].result /\ actualEnd' = reader[r].now
    BY <1>4 DEF GetClose, CloseRow, TypeOK
  <2> QED
    BY <1>1, <2>1, <2>2 DEF Grounded, EndIsGrounded, NoGet
<1> QED
  BY <1>2, <1>3, <1>4 DEF Retrieve

LEMMA GroundedBid ==
  ASSUME TypeOK, RowLock, Grounded, NEW w \in Workers, BidCommit(w)
  PROVE  Grounded'
<1> DEFINE t == txn[w]
<1>1. /\ t \in Txn /\ t.endsAt = endsAt /\ status = Active /\ status' = Active
      /\ reader' = reader
      /\ InsertSuppressed(t) \/ InsertPublic(t, Len(bids) + 1)
  BY CommitFinds, CommitKeepsActive DEF BidCommit
<1>2. Public \subseteq Public'
  BY <1>1, SuppressedIsNotPublic, PublicIsAccepted
<1>3. endsAt' >= FirstDeadline
  <2>1. endsAt' = endsAt \/ endsAt' = endsAt + Extension
    BY <1>1 DEF InsertSuppressed, InsertPublic, NewDeadline, row
  <2> QED
    BY <2>1, NumbersAssumption DEF Grounded, TypeOK
<1> QED
  BY <1>1, <1>2, <1>3 DEF Grounded, EndIsGrounded, Closed, Active, Ended, EndedWithoutBids

LEMMA GroundedRest ==
  ASSUME TypeOK, Grounded, [Next]_vars,
         ~\E w \in Workers : BidCommit(w), ~\E r \in Readers : Retrieve(r)
  PROVE  Grounded'
<1>1. Public' = Public /\ endsAt' = endsAt
  BY OnlyCommitsWrite DEF ledger, Public
<1>2. ASSUME NEW w \in Workers, PlaceBid(w) PROVE UNCHANGED <<row, reader>>
  BY <1>2 DEF PlaceBid, BidNotOpen, BidReplay, BidForbidden, BidCheck, BidFinish,
     BidRefuse, BidCrash, KeepBooks
<1>3. reader' = reader
  BY <1>2 DEF Next, Tick, Subscribe, ToggleShadow, SweepList, SweepClose, Announce, vars
<1>4. \/ UNCHANGED <<status, actualEnd>>
      \/ /\ IsDue(status, endsAt, clock)
         /\ CloseRow(ClosedStatus(status, Public # {}), clock)
  <2>1. CASE SweepClose
    BY <2>1 DEF SweepClose, row
  <2>2. CASE ~SweepClose
    BY <1>2, <2>2 DEF Next, Tick, Subscribe, ToggleShadow, SweepList, Announce, vars, row
  <2> QED
    BY <2>1, <2>2
<1>5. EndIsGrounded'
  <2>1. CASE UNCHANGED <<status, actualEnd>>
    BY <1>1, <2>1 DEF Grounded, EndIsGrounded
  <2>2. CASE /\ IsDue(status, endsAt, clock)
             /\ CloseRow(ClosedStatus(status, Public # {}), clock)
    <3>1. actualEnd' > FirstDeadline
      BY <2>2, NumbersAssumption DEF Grounded, IsDue, CloseRow, TypeOK
    <3>2. status' = Ended => Public # {}
      BY <2>2 DEF CloseRow, ClosedStatus, Ended, EndedWithoutBids
    <3> QED
      BY <1>1, <3>1, <3>2 DEF EndIsGrounded
  <2> QED
    BY <1>4, <2>1, <2>2
<1> QED
  BY <1>1, <1>3, <1>5 DEF Grounded

(* Also a GET, which decides on what it loaded and writes without having   *)
(* locked the row, ends no auction before its first deadline, and none     *)
(* "with bids" that has no public bid.                                     *)
THEOREM EveryEndIsGrounded == Spec => []EndIsGrounded
<1>1. Init => Grounded
  BY NumbersAssumption
     DEF Init, Grounded, EndIsGrounded, NoGet, Closed, Active, Ended, EndedWithoutBids
<1>2. TypeOK /\ RowLock /\ Grounded /\ [Next]_vars => Grounded'
  BY GroundedGet, GroundedBid, GroundedRest
<1>3. Grounded => EndIsGrounded
  BY DEF Grounded
<1> QED
  BY <1>1, <1>2, <1>3, TypeCorrect, RowLockHolds, PTL DEF Spec
-----------------------------------------------------------------------------
(* Counting.                                                               *)

(* The rows of the table that a commit keeps, and the one it adds.         *)
LEMMA CommitKeeps ==
  ASSUME TypeOK, RowLock, NEW w \in Workers, BidCommit(w)
  PROVE  /\ Len(bids) \in Nat
         /\ DOMAIN bids = 1 .. Len(bids)
         /\ DOMAIN bids' = 1 .. Len(bids) + 1
         /\ bids'[Len(bids) + 1] = NewBid(txn[w])
         /\ \A i \in DOMAIN bids :
              /\ bids'[i].bidder = bids[i].bidder
              /\ bids'[i].extended = bids[i].extended
              /\ bids'[i].suppressed = bids[i].suppressed
              /\ bids'[i].counted = bids[i].counted
<1> DEFINE t == txn[w]
<1>1. t \in Txn /\ (InsertSuppressed(t) \/ InsertPublic(t, Len(bids) + 1))
  BY CommitFinds
<1>2. NewBid(t) \in Bid
  BY <1>1, NewBidType
<1>3. bids \in Seq(Bid) /\ Len(bids) \in Nat /\ DOMAIN bids = 1 .. Len(bids)
  BY LenProperties DEF TypeOK
<1>4. Outbid \in Seq(Bid) /\ Len(Outbid) = Len(bids)
  BY OutbidType
<1>5. \A i \in DOMAIN bids :
        /\ Outbid[i].bidder = bids[i].bidder
        /\ Outbid[i].extended = bids[i].extended
        /\ Outbid[i].suppressed = bids[i].suppressed
        /\ Outbid[i].counted = bids[i].counted
  <2>1. \A i \in DOMAIN bids : bids[i] \in Bid
    BY <1>3, ElementOfSeq
  <2> QED
    BY <2>1 DEF Outbid, Bid
<1>6. \/ bids' = Append(bids, NewBid(t))
      \/ bids' = Append(Outbid, NewBid(t))
  BY <1>1 DEF InsertSuppressed, InsertPublic
<1>7. bids' \in Seq(Bid) /\ Len(bids') = Len(bids) + 1
        /\ bids'[Len(bids) + 1] = NewBid(t)
        /\ \/ \A i \in 1 .. Len(bids) : bids'[i] = bids[i]
           \/ \A i \in 1 .. Len(bids) : bids'[i] = Outbid[i]
  <2>1. CASE bids' = Append(bids, NewBid(t))
    BY <1>2, <1>3, <2>1, AppendProperties
  <2>2. CASE bids' = Append(Outbid, NewBid(t))
    BY <1>2, <1>3, <1>4, <2>2, AppendProperties
  <2> QED
    BY <1>6, <2>1, <2>2
<1>8. DOMAIN bids' = 1 .. Len(bids) + 1
  BY <1>7, LenProperties
<1>9. \A i \in DOMAIN bids :
        /\ bids'[i].bidder = bids[i].bidder
        /\ bids'[i].extended = bids[i].extended
        /\ bids'[i].suppressed = bids[i].suppressed
        /\ bids'[i].counted = bids[i].counted
  BY <1>3, <1>5, <1>7
<1> QED
  BY <1>3, <1>7, <1>8, <1>9

(* A set of rows is finite, and counts one more with a row that is new.    *)
LEMMA RowsAreCounted ==
  ASSUME TypeOK, NEW S \in SUBSET DOMAIN bids
  PROVE  /\ IsFiniteSet(S)
         /\ Cardinality(S) \in Nat
         /\ Cardinality(S \cup {Len(bids) + 1}) = Cardinality(S) + 1
<1>1. DOMAIN bids = 1 .. Len(bids) /\ Len(bids) \in Nat
  BY LenProperties DEF TypeOK
<1>2. IsFiniteSet(1 .. Len(bids))
  BY <1>1, FS_Interval
<1>3. IsFiniteSet(S)
  BY <1>1, <1>2, FS_Subset
<1>4. Len(bids) + 1 \notin S
  BY <1>1
<1> QED
  BY <1>3, <1>4, FS_CardinalityType, FS_AddElement

Extending == {i \in DOMAIN bids : bids[i].extended}

(* No extension is lost or granted twice: each commit adds to the deadline *)
(* and the count of the row, not to those of a stale copy.                 *)
THEOREM DeadlineAlwaysAddsUp == Spec => []DeadlineAddsUp
<1>1. Init => DeadlineAddsUp
  <2> SUFFICES ASSUME Init PROVE DeadlineAddsUp
    OBVIOUS
  <2>1. {i \in DOMAIN bids : bids[i].extended} = {}
    BY DEF Init
  <2>2. Cardinality({i \in DOMAIN bids : bids[i].extended}) = 0
    BY <2>1, FS_EmptySet, Zenon
  <2> QED
    BY <2>2, NumbersAssumption DEF Init, DeadlineAddsUp
<1>2. TypeOK /\ RowLock /\ DeadlineAddsUp /\ [Next]_vars => DeadlineAddsUp'
  <2> SUFFICES ASSUME TypeOK, RowLock, DeadlineAddsUp, [Next]_vars
               PROVE  DeadlineAddsUp'
    OBVIOUS
  <2>1. CASE ~\E w \in Workers : BidCommit(w)
    <3>1. UNCHANGED <<endsAt, extCount, bids>>
      BY <2>1, OnlyCommitsWrite DEF ledger
    <3> QED
      BY <3>1 DEF DeadlineAddsUp
  <2>2. ASSUME NEW w \in Workers, BidCommit(w) PROVE DeadlineAddsUp'
    <3> DEFINE t == txn[w]
    <3>1. /\ t.endsAt = endsAt /\ t.extCount = extCount
          /\ InsertSuppressed(t) \/ InsertPublic(t, Len(bids) + 1)
      <4>1. Checked(w)
        BY <2>2 DEF BidCommit, Checked
      <4> QED
        BY <2>2, <4>1, CommitFinds DEF RowLock
    <3>2. /\ DOMAIN bids = 1 .. Len(bids) /\ Len(bids) \in Nat
          /\ DOMAIN bids' = 1 .. Len(bids) + 1
          /\ bids'[Len(bids) + 1] = NewBid(t)
          /\ \A i \in DOMAIN bids : bids'[i].extended = bids[i].extended
      BY <2>2, CommitKeeps
    <3>3. /\ Extending \subseteq DOMAIN bids
          /\ extCount = Cardinality(Extending)
          /\ endsAt = FirstDeadline + extCount * Extension
      BY DEF Extending, DeadlineAddsUp
    <3>4. CASE Extends(t)
      <4>1. endsAt' = endsAt + Extension /\ extCount' = extCount + 1
        BY <3>1, <3>4 DEF InsertSuppressed, InsertPublic, Extends, NewDeadline
      <4>2. Extending' = Extending \cup {Len(bids) + 1}
        <5>1. bids'[Len(bids) + 1].extended
          BY <3>2, <3>4 DEF NewBid
        <5> QED
          BY <3>2, <5>1 DEF Extending
      <4>3. Cardinality(Extending') = Cardinality(Extending) + 1
        BY <3>3, <4>2, RowsAreCounted
      <4>4. FirstDeadline + extCount * Extension + Extension
              = FirstDeadline + (extCount + 1) * Extension
        BY NumbersAssumption DEF TypeOK
      <4>5. endsAt' = FirstDeadline + extCount' * Extension
        BY <3>3, <4>1, <4>4
      <4>6. extCount' = Cardinality(Extending')
        BY <3>3, <4>1, <4>3
      <4> QED
        BY <4>5, <4>6 DEF Extending, DeadlineAddsUp
    <3>5. CASE ~Extends(t)
      <4>1. endsAt' = endsAt /\ extCount' = extCount
        BY <3>1, <3>5 DEF InsertSuppressed, InsertPublic, NewDeadline, row
      <4>2. Extending' = Extending
        <5>1. ~bids'[Len(bids) + 1].extended
          BY <3>2, <3>5 DEF NewBid
        <5> QED
          BY <3>2, <5>1 DEF Extending
      <4> QED
        BY <3>3, <4>1, <4>2 DEF Extending, DeadlineAddsUp
    <3> QED
      BY <3>4, <3>5
  <2> QED
    BY <2>1, <2>2
<1> QED
  BY <1>1, <1>2, TypeCorrect, RowLockHolds, PTL DEF Spec
-----------------------------------------------------------------------------
(* Each extension came with a higher price.  What place_bid has saved of   *)
(* an extension before it refuses the bid is rolled back, and a commit     *)
(* raises the very price its transaction has loaded.                       *)
THEOREM NoFreeExtension == Spec => []ExtensionsArePaidFor
<1>1. Init => ExtensionsArePaidFor
  BY NumbersAssumption DEF Init, ExtensionsArePaidFor
<1>2. TypeOK /\ RowLock /\ ExtensionsArePaidFor /\ [Next]_vars => ExtensionsArePaidFor'
  <2> SUFFICES ASSUME TypeOK, RowLock, ExtensionsArePaidFor, [Next]_vars
               PROVE  ExtensionsArePaidFor'
    OBVIOUS
  <2>1. CASE ~\E w \in Workers : BidCommit(w)
    BY <2>1, OnlyCommitsWrite DEF ExtensionsArePaidFor
  <2>2. ASSUME NEW w \in Workers, BidCommit(w) PROVE ExtensionsArePaidFor'
    <3> DEFINE t == txn[w]
    <3>1. /\ t.amount \in Nat /\ price \in Nat
          /\ t.amount > price /\ t.amount - price >= MinIncrement
          /\ InsertSuppressed(t) \/ InsertPublic(t, Len(bids) + 1)
      BY <2>2, CommitFinds
    <3>2. t.extCount = extCount
      BY <2>2 DEF RowLock, BidCommit, Checked
    <3>3. \/ price' = price /\ extCount' = extCount
          \/ price' = t.amount /\ extCount' \in {extCount, extCount + 1}
      BY <3>1, <3>2 DEF InsertSuppressed, InsertPublic, row
    <3>4. (extCount + 1) * MinIncrement = extCount * MinIncrement + MinIncrement
      BY NumbersAssumption DEF TypeOK
    <3>5. /\ extCount * MinIncrement \in Nat
          /\ extCount \in Nat /\ MinIncrement \in Nat /\ StartPrice \in Nat
      BY NumbersAssumption DEF TypeOK
    <3>6. PICK m \in Nat : m = extCount * MinIncrement
      BY <3>5
    <3>7. price >= StartPrice + extCount /\ price >= StartPrice + m
      BY <3>6 DEF ExtensionsArePaidFor
    <3>8. /\ t.amount >= StartPrice + extCount
          /\ t.amount >= StartPrice + (extCount + 1)
          /\ t.amount >= StartPrice + m
          /\ t.amount >= StartPrice + (m + MinIncrement)
      <4> HIDE DEF t
      <4>1. t.amount > price /\ t.amount - price >= MinIncrement
        BY <3>1
      <4> QED
        BY <3>1, <3>5, <3>7, <4>1
    <3>9. CASE extCount' = extCount
      <4>1. price' = price \/ price' = t.amount
        BY <3>3
      <4>2. extCount' * MinIncrement = m
        BY <3>6, <3>9
      <4>3. price' >= StartPrice + extCount' /\ price' >= StartPrice + m
        BY <3>7, <3>8, <3>9, <4>1
      <4> QED
        BY <4>2, <4>3 DEF ExtensionsArePaidFor
    <3>10. CASE extCount' = extCount + 1
      <4>1. price' = t.amount
        BY <3>3, <3>5, <3>10
      <4>2. extCount' * MinIncrement = m + MinIncrement
        BY <3>4, <3>6, <3>10
      <4>3. price' >= StartPrice + extCount' /\ price' >= StartPrice + (m + MinIncrement)
        BY <3>8, <3>10, <4>1
      <4> QED
        BY <4>2, <4>3 DEF ExtensionsArePaidFor
    <3> QED
      BY <3>3, <3>9, <3>10
  <2> QED
    BY <2>1, <2>2
<1> QED
  BY <1>1, <1>2, TypeCorrect, RowLockHolds, PTL DEF Spec
-----------------------------------------------------------------------------
OwnPublic(u) == {i \in Public : bids[i].bidder = u}

LEMMA OwnPublicGrows ==
  ASSUME TypeOK, RowLock, NEW w \in Workers, BidCommit(w),
         InsertPublic(txn[w], Len(bids) + 1), NEW u \in Users
  PROVE  OwnPublic(u)' = IF u = txn[w].user
                         THEN OwnPublic(u) \cup {Len(bids) + 1}
                         ELSE OwnPublic(u)
<1> DEFINE id == Len(bids) + 1
<1>1. txn[w] \in Txn
  BY CommitFinds
<1>2. /\ Public' = Public \cup {id}
      /\ bids'[id].bidder = txn[w].user
      /\ \A i \in DOMAIN bids : bids'[i].bidder = bids[i].bidder
  BY <1>1, PublicIsAccepted
<1>3. Public \subseteq DOMAIN bids /\ id \notin DOMAIN bids
  BY LenProperties DEF Public, TypeOK
<1> QED
  BY <1>2, <1>3 DEF OwnPublic

(* What a shadow banned user bids is seen by nobody: whatever is announced *)
(* or put in a snapshot is a public bid, and the statistics count public   *)
(* bids only and each of them once.                                        *)
THEOREM ShadowBidsAlwaysHidden == Spec => []ShadowBidsStayHidden
<1>1. Init => ShadowBidsStayHidden
  <2> SUFFICES ASSUME Init PROVE ShadowBidsStayHidden
    OBVIOUS
  <2>1. \A u \in Users : OwnPublic(u) = {}
    BY DEF Init, OwnPublic, Public
  <2>2. \A u \in Users : Cardinality(OwnPublic(u)) = 0
    BY <2>1, FS_EmptySet, Zenon
  <2>3. DOMAIN snapshots = {} /\ feed = {}
    BY EmptySeq, LenProperties DEF Init
  <2> QED
    BY <2>2, <2>3 DEF Init, ShadowBidsStayHidden, OwnPublic
<1>2. TypeOK /\ RowLock /\ ShadowBidsStayHidden /\ [Next]_vars
        => ShadowBidsStayHidden'
  <2> SUFFICES ASSUME TypeOK, RowLock, ShadowBidsStayHidden, [Next]_vars
               PROVE  ShadowBidsStayHidden'
    OBVIOUS
  <2>1. /\ feed \subseteq Public
        /\ \A n \in DOMAIN snapshots : snapshots[n].bid \in Public
        /\ \A u \in Users : bidCount[u] = Cardinality(OwnPublic(u))
    BY DEF ShadowBidsStayHidden, OwnPublic
  <2>2. CASE ~\E w \in Workers : BidCommit(w)
    <3>1. UNCHANGED <<bids, snapshots, bidCount>>
      BY <2>2, OnlyCommitsWrite DEF ledger
    <3>2. Public' = Public
      BY <3>1 DEF Public
    <3>3. feed' = feed \/ \E id \in DOMAIN bids : Announce(id)
      BY <2>2 DEF Next, PlaceBid, BidNotOpen, BidReplay, BidForbidden, BidCheck,
                  BidFinish, BidRefuse, BidCrash, KeepBooks, Tick, Subscribe,
                  ToggleShadow, SweepList, SweepClose, Retrieve, GetLoad,
                  GetDecide, GetClose, RestOfGet, vars
    <3>4. feed' \subseteq Public
      BY <2>1, <3>3 DEF Announce, Public
    <3> QED
      BY <2>1, <3>1, <3>2, <3>4 DEF ShadowBidsStayHidden, OwnPublic
  <2>3. ASSUME NEW w \in Workers, BidCommit(w) PROVE ShadowBidsStayHidden'
    <3> DEFINE t == txn[w]
    <3>1. t \in Txn /\ feed' = feed
      BY <2>3, CommitFinds DEF BidCommit
    <3>2. CASE InsertSuppressed(t)
      <4>1. /\ Public' = Public
            /\ \A i \in Public : bids'[i] = bids[i]
            /\ UNCHANGED <<snapshots, bidCount>>
        BY <3>1, <3>2, SuppressedIsNotPublic DEF InsertSuppressed
      <4>2. \A u \in Users : OwnPublic(u)' = OwnPublic(u)
        BY <4>1 DEF OwnPublic
      <4> QED
        BY <2>1, <3>1, <4>1, <4>2 DEF ShadowBidsStayHidden, OwnPublic
    <3>3. CASE InsertPublic(t, Len(bids) + 1)
      <4>1. Public' = Public \cup {Len(bids) + 1}
        BY <3>1, <3>3, PublicIsAccepted
      <4>2. \A n \in DOMAIN snapshots' : snapshots'[n].bid \in Public'
        BY <2>1, <3>1, <3>3, <4>1, SnapshotAdded
      <4>3. ASSUME NEW u \in Users
            PROVE  bidCount'[u] = Cardinality(OwnPublic(u)')
        <5>1. OwnPublic(u) \in SUBSET DOMAIN bids
          BY DEF OwnPublic, Public
        <5>2. Cardinality(OwnPublic(u) \cup {Len(bids) + 1})
                = Cardinality(OwnPublic(u)) + 1
          BY <5>1, RowsAreCounted
        <5>3. OwnPublic(u)' = IF u = t.user
                              THEN OwnPublic(u) \cup {Len(bids) + 1}
                              ELSE OwnPublic(u)
          BY <2>3, <3>3, OwnPublicGrows
        <5>4. bidCount'[u] = IF u = t.user THEN bidCount[u] + 1 ELSE bidCount[u]
          BY <3>3 DEF InsertPublic, TypeOK
        <5> QED
          BY <2>1, <5>2, <5>3, <5>4
      <4> QED
        BY <2>1, <3>1, <4>1, <4>2, <4>3 DEF ShadowBidsStayHidden, OwnPublic
    <3> QED
      BY <2>3, <3>2, <3>3, CommitFinds
  <2> QED
    BY <2>2, <2>3
<1> QED
  BY <1>1, <1>2, TypeCorrect, RowLockHolds, PTL DEF Spec
-----------------------------------------------------------------------------
(* The bids of a user whose attempt was counted in a second.               *)
InSecond(u, s) ==
  {j \in DOMAIN bids : bids[j].bidder = u /\ bids[j].counted = s}

(* No second holds too many, and the counter of this second has seen its   *)
(* bids.                                                                   *)
CounterSees ==
  MaxPerSecond > 0 =>
    /\ \A i \in DOMAIN bids : bids[i].counted <= clock
    /\ \A u \in Users :
         /\ Cardinality(InSecond(u, clock)) <= rate[u]
         /\ \A s \in Nat : Cardinality(InSecond(u, s)) <= MaxPerSecond

LEMMA CommitCounts ==
  ASSUME TypeOK, RowLock, CounterSees, MaxPerSecond > 0,
         NEW w \in Workers, BidCommit(w),
         NEW t, t = txn[w], NEW now, now = clock
  PROVE  CounterSees'
<1> DEFINE id == Len(bids) + 1
<1>1. /\ t \in Txn /\ t.user \in Users
      /\ now \in Nat /\ clock' = now
      /\ rate[t.user] \in Nat
      /\ rate[t.user] < MaxPerSecond
      /\ rate'[t.user] = rate[t.user] + 1
      /\ \A u \in Users : u # t.user => rate'[u] = rate[u]
  <2>1. t \in Txn
    BY CommitFinds
  <2> QED
    BY <2>1, NumbersAssumption
       DEF BidCommit, Throttled, CountAttempt, Txn, TypeOK
<1>2. /\ DOMAIN bids = 1 .. Len(bids) /\ Len(bids) \in Nat
      /\ DOMAIN bids' = 1 .. id
      /\ bids'[id] = NewBid(t)
      /\ \A i \in DOMAIN bids : /\ bids'[i].bidder = bids[i].bidder
                                /\ bids'[i].counted = bids[i].counted
  BY CommitKeeps
<1>3. bids'[id].bidder = t.user /\ bids'[id].counted = now
  BY <1>2 DEF NewBid
<1>4. ASSUME NEW u \in Users, NEW s \in Nat, ~(u = t.user /\ s = now)
      PROVE  InSecond(u, s)' = InSecond(u, s)
  BY <1>2, <1>3, <1>4 DEF InSecond
<1>5. InSecond(t.user, now)' = InSecond(t.user, now) \cup {id}
  BY <1>1, <1>2, <1>3 DEF InSecond
<1>6. /\ Cardinality(InSecond(t.user, now)') = Cardinality(InSecond(t.user, now)) + 1
      /\ Cardinality(InSecond(t.user, now)) \in Nat
  <2>1. InSecond(t.user, now) \in SUBSET DOMAIN bids
    BY DEF InSecond
  <2> QED
    BY <1>5, <2>1, RowsAreCounted
<1>7. \A i \in DOMAIN bids' : bids'[i].counted <= now
  BY <1>1, <1>2, <1>3 DEF CounterSees
<1>8. Cardinality(InSecond(t.user, now)) <= rate[t.user]
  BY <1>1 DEF CounterSees
<1>9. Cardinality(InSecond(t.user, now)') <= MaxPerSecond
        /\ Cardinality(InSecond(t.user, now)') <= rate'[t.user]
  BY <1>1, <1>6, <1>8, NumbersAssumption
<1>10. ASSUME NEW u \in Users
       PROVE  /\ Cardinality(InSecond(u, now)') <= rate'[u]
              /\ \A s \in Nat : Cardinality(InSecond(u, s)') <= MaxPerSecond
  <2>1. /\ Cardinality(InSecond(u, now)) <= rate[u]
        /\ \A s \in Nat : Cardinality(InSecond(u, s)) <= MaxPerSecond
    BY DEF CounterSees
  <2>2. CASE u = t.user
    BY <1>1, <1>4, <1>9, <2>1, <2>2
  <2>3. CASE u # t.user
    BY <1>1, <1>4, <2>1, <2>3
  <2> QED
    BY <2>2, <2>3
<1>11. \A u \in Users : InSecond(u, clock)' = InSecond(u, now)'
  BY <1>1 DEF InSecond
<1> QED
  BY <1>1, <1>7, <1>10, <1>11 DEF CounterSees

LEMMA TimeCounts ==
  ASSUME TypeOK, CounterSees, MaxPerSecond > 0, Tick
  PROVE  CounterSees'
<1>1. bids' = bids /\ clock' = clock + 1 /\ clock \in Nat
        /\ \A u \in Users : rate'[u] = 0
  BY DEF Tick, ledger, TypeOK
<1>2. \A i \in DOMAIN bids : bids[i].counted \in Nat
  <2>1. \A i \in DOMAIN bids : bids[i] \in Bid
    BY LenProperties, ElementOfSeq DEF TypeOK
  <2> QED
    BY <2>1 DEF Bid
<1>3. \A i \in DOMAIN bids : bids[i].counted < clock'
  BY <1>1, <1>2 DEF CounterSees
<1>4. \A u \in Users : InSecond(u, clock)' = {}
  BY <1>1, <1>2, <1>3 DEF InSecond
<1>5. \A u \in Users : Cardinality(InSecond(u, clock)') = 0
  BY <1>4, FS_EmptySet, Zenon
<1>6. \A u \in Users, s \in Nat : InSecond(u, s)' = InSecond(u, s)
  BY <1>1 DEF InSecond
<1>7. \A i \in DOMAIN bids' : bids'[i].counted <= clock'
  BY <1>1, <1>2, <1>3
<1>8. \A u \in Users : Cardinality(InSecond(u, clock)') <= rate'[u]
  BY <1>1, <1>5
<1>9. \A u \in Users, s \in Nat : Cardinality(InSecond(u, s)') <= MaxPerSecond
  BY <1>6 DEF CounterSees
<1> QED
  BY <1>7, <1>8, <1>9 DEF CounterSees

(* However many processes serve a user, no more of the user's attempts     *)
(* that were counted in one second become bids than the limit allows: the  *)
(* counter is compared before the bid and counts what was refused as well. *)
THEOREM RateAlwaysRespected == Spec => []RateRespected
<1>1. Init => CounterSees
  <2> SUFFICES ASSUME Init PROVE CounterSees
    OBVIOUS
  <2>1. DOMAIN bids = {}
    BY EmptySeq, LenProperties DEF Init
  <2>2. \A u \in Users, s \in Nat : InSecond(u, s) = {}
    BY <2>1 DEF InSecond
  <2>3. \A u \in Users, s \in Nat : Cardinality(InSecond(u, s)) = 0
    BY <2>2, FS_EmptySet, Zenon
  <2> QED
    BY <2>1, <2>3, NumbersAssumption DEF Init, CounterSees
<1>2. TypeOK /\ RowLock /\ CounterSees /\ [Next]_vars => CounterSees'
  <2> SUFFICES ASSUME TypeOK, RowLock, CounterSees, [Next]_vars, MaxPerSecond > 0
               PROVE  CounterSees'
    BY DEF CounterSees
  <2>1. ASSUME NEW w \in Workers, BidCommit(w) PROVE CounterSees'
    BY <2>1, CommitCounts
  <2>2. CASE Tick
    BY <2>2, TimeCounts
  <2>3. CASE ~Tick /\ ~\E w \in Workers : BidCommit(w)
    <3>1. UNCHANGED <<bids, clock>>
      <4>1. UNCHANGED bids
        BY <2>3, OnlyCommitsWrite DEF ledger
      <4>2. UNCHANGED clock
        BY <2>3 DEF Next, PlaceBid, BidNotOpen, BidReplay, BidForbidden,
                  BidCheck, BidFinish, BidRefuse, BidCrash, KeepBooks,
                  Subscribe, ToggleShadow, SweepList, SweepClose, Retrieve,
                  GetLoad, GetDecide, GetClose, RestOfGet, Announce, vars
      <4> QED
        BY <4>1, <4>2
    <3>2. \A u \in Users : rate'[u] = rate[u] \/ rate'[u] = rate[u] + 1
      BY <2>3 DEF Next, PlaceBid, BidNotOpen, BidReplay, BidForbidden,
                  BidCheck, BidFinish, BidRefuse, BidCrash, CountAttempt,
                  Subscribe, ToggleShadow, SweepList, SweepClose, Retrieve,
                  GetLoad, GetDecide, GetClose, RestOfGet, Announce, vars, TypeOK
    <3>3. \A u \in Users : rate[u] \in Nat /\ clock \in Nat
      BY DEF TypeOK
    <3>4. \A u \in Users, s \in Nat : InSecond(u, s)' = InSecond(u, s)
      BY <3>1 DEF InSecond
    <3>5. \A u \in Users : InSecond(u, clock)' = InSecond(u, clock)
      BY <3>1 DEF InSecond
    <3>6. \A u \in Users, s \in Nat : Cardinality(InSecond(u, s)') <= MaxPerSecond
      BY <3>4 DEF CounterSees
    <3>7. \A u \in Users : Cardinality(InSecond(u, clock)') <= rate'[u]
      <4> SUFFICES ASSUME NEW u \in Users
                   PROVE  Cardinality(InSecond(u, clock)') <= rate'[u]
        OBVIOUS
      <4>1. Cardinality(InSecond(u, clock)) <= rate[u]
        BY DEF CounterSees
      <4>2. Cardinality(InSecond(u, clock)) \in Nat
        <5>1. InSecond(u, clock) \in SUBSET DOMAIN bids
          BY DEF InSecond
        <5> QED
          BY <5>1, RowsAreCounted
      <4>3. Cardinality(InSecond(u, clock)') = Cardinality(InSecond(u, clock))
        BY <3>5
      <4> QED
        BY <3>2, <3>3, <4>1, <4>2, <4>3
    <3> QED
      BY <3>1, <3>6, <3>7 DEF CounterSees
  <2> QED
    BY <2>1, <2>2, <2>3
<1>3. TypeOK /\ CounterSees => RateRespected
  <2> SUFFICES ASSUME TypeOK, CounterSees, MaxPerSecond > 0, NEW i \in DOMAIN bids
               PROVE  Cardinality(InSecond(bids[i].bidder, bids[i].counted))
                        <= MaxPerSecond
    BY DEF RateRespected, InSecond
  <2>1. bids[i] \in Bid
    BY LenProperties, ElementOfSeq DEF TypeOK
  <2> QED
    BY <2>1 DEF Bid, CounterSees
<1> QED
  BY <1>1, <1>2, <1>3, TypeCorrect, RowLockHolds, PTL DEF Spec
=============================================================================
