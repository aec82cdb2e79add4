------------------------------- MODULE GoLive -------------------------------
(***************************************************************************)
(* How an auction goes live: the requests of Listing and the payments of   *)
(* Payments, on one Auction row.  Both change its status; neither knows    *)
(* what the other has loaded.                                              *)
(***************************************************************************)
EXTENDS Naturals, FiniteSets

CONSTANTS
  Users, Seller, Web, Tasks, LocksNeedTransaction, MaxCrashes,  \* of Payments
  Clerks,         \* web processes that serve requests about the listing
  Categories, FirstCategory, Items, Assigned, MinImages, MaxImages,
  Prices, FirstPrice, KeepPrice                                 \* of Listing

ASSUME GoLiveAssumption ==
  /\ Seller \in Users
  /\ LocksNeedTransaction \in BOOLEAN
  /\ MaxCrashes \in Nat
  /\ FirstPrice \in Prices
  /\ KeepPrice \notin Prices
  /\ Clerks # {}
  /\ FirstCategory \in Categories
  /\ Assigned \in [Categories -> SUBSET Items]
  /\ MinImages \in [Categories -> Nat]
  /\ MaxImages \in [Categories -> Nat]

VARIABLES
  status,                                              \* of both
  start, current, category, images, rows, log, job, deaths,
  had, overlapped,                                     \* of Listing
  sub, tx, paid, hooks, web, task, crashes             \* of Payments

listing  == <<start, current, category, images, rows, log, job, deaths, had, overlapped>>
payments == <<sub, tx, paid, hooks, web, task, crashes>>
gvars    == <<status, listing, payments>>

L == INSTANCE Listing WITH Web <- Clerks
P == INSTANCE Payments WITH auction <- status, Orderly <- FALSE

(* The two start together: a draft nobody has subscribed to.               *)
GInit ==
  /\ L!LInit
  /\ sub = [u \in Users |-> P!None]
  /\ tx = [u \in Users |-> P!NoTx]
  /\ paid = {}
  /\ hooks = {}
  /\ web = [p \in Web |-> P!Idle]
  /\ task = [t \in Tasks |-> P!Idle]
  /\ crashes = 0

GNext ==
  \/ L!Request /\ UNCHANGED payments
  \/ L!Close /\ UNCHANGED payments
  \/ P!PaymentsStep /\ UNCHANGED listing

GSpec == GInit /\ [][GNext]_gvars
-----------------------------------------------------------------------------
(* Whatever races, an auction on sale has been approved by a reviewer and  *)
(* paid for by its seller: no save of a stale instance and no payment that *)
(* arrives late puts one on sale that lacks either.                        *)
OnSaleIsApprovedAndPaid ==
  status \in {L!Active, L!Ended} => /\ "approve" \in log
                                   /\ Seller \in paid
                                   /\ sub[Seller] = P!Active

(* What Payments takes for granted of the listing is what Listing does.    *)
Seen(st) == IF st \in {L!Approved, L!Active, L!Ended, L!Cancelled}
            THEN st ELSE L!UnderReview

Paying == INSTANCE Payments WITH auction <- Seen(status), Orderly <- FALSE

ImplementsPayments == Paying!PSpec
=============================================================================
