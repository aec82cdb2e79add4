--------------------------- MODULE GoLiveTheorems ---------------------------
(***************************************************************************)
(* Listing and Payments together, for any number of clerks, processes and  *)
(* users: the listing is an environment Payments can live with, so what is *)
(* proved of Payments holds of the whole, and with the review log of the   *)
(* listing it follows that what is on sale is approved and paid.           *)
(***************************************************************************)
EXTENDS GoLive, TLAPS

PT == INSTANCE PaymentsTheorems WITH auction <- Seen(status), Orderly <- FALSE
LT == INSTANCE ListingTheorems WITH Web <- Clerks

(* The reviewer's approval has been logged when the listing is approved or *)
(* further, when a save or a webhook in flight is about to make it so.     *)
Sold ==
  /\ LT!LTypeOK
  /\ LT!DecisionsAreLogged
  /\ LT!InFlightIsLogged
  /\ \A t \in Tasks : task[t].pc = "entering" => "approve" \in log
-----------------------------------------------------------------------------
(* The modules of theorems extend the specifications: what they call       *)
(* Request and PNext is what GoLive calls so.                              *)

LEMMA SameListing == (L!Request <=> LT!Request) /\ (L!Close <=> LT!Close)
BY DEF L!Close, LT!Close,
       L!Request, LT!Request, L!RequestOf, LT!RequestOf, L!Meets, LT!Meets,
       L!kind, LT!kind, L!past, LT!past, L!Move, LT!Move, L!Allowed, LT!Allowed,
       L!Patch, LT!Patch, L!PatchLoad, LT!PatchLoad,
       L!PatchSave, LT!PatchSave, L!PatchReprice, LT!PatchReprice, L!Submit,
       LT!Submit, L!SubmitLoad, LT!SubmitLoad, L!SubmitValidate,
       LT!SubmitValidate, L!SubmitSave, LT!SubmitSave, L!Copy, LT!Copy,
       L!CopyRow, LT!CopyRow, L!CopyEnd, LT!CopyEnd, L!Media, LT!Media,
       L!UploadLoad, LT!UploadLoad, L!UploadCount, LT!UploadCount,
       L!UploadCreate, LT!UploadCreate, L!DeleteLoad, LT!DeleteLoad,
       L!DeleteImage, LT!DeleteImage, L!Review, LT!Review, L!ChecklistGet,
       LT!ChecklistGet, L!Tick, LT!Tick, L!ReviewLoad, LT!ReviewLoad,
       L!ReviewDecide, LT!ReviewDecide, L!ReviewLog, LT!ReviewLog,
       L!ReviewSave, LT!ReviewSave, L!Cancel, LT!Cancel, L!CancelLoad,
       LT!CancelLoad, L!CancelSave, LT!CancelSave, L!Crash, LT!Crash,
       L!Serving, LT!Serving, L!Begin, LT!Begin, L!Goto, LT!Goto, L!End,
       LT!End, L!price, LT!price, L!Outcome, LT!Outcome, L!NoJob, LT!NoJob,
       L!Editable, LT!Editable, L!Cancellable, LT!Cancellable, L!Decision,
       LT!Decision, L!Draft, LT!Draft, L!UnderReview, LT!UnderReview,
       L!Returned, LT!Returned, L!Rejected, LT!Rejected, L!Approved,
       LT!Approved, L!Active, LT!Active, L!Ended, LT!Ended, L!Cancelled,
       LT!Cancelled, L!Absent, LT!Absent, L!Open, LT!Open, L!Checked,
       LT!Checked

LEMMA SamePayments ==
  /\ Paying!PInit <=> PT!PInit
  /\ [Paying!PNext]_(Paying!pvars) <=> [PT!PNext]_(PT!pvars)
BY DEF Paying!PInit, PT!PInit, Paying!pvars, PT!pvars,
       Paying!PNext, PT!PNext, Paying!PaymentsStep, PT!PaymentsStep,
       Paying!Subscribe, PT!Subscribe, Paying!SubscribeCheck,
       PT!SubscribeCheck, Paying!SubscribeFound, PT!SubscribeFound,
       Paying!SubscribeNew, PT!SubscribeNew, Paying!SubscribeInsert,
       PT!SubscribeInsert, Paying!SubscribeCharge, PT!SubscribeCharge,
       Paying!SubscribeRefer, PT!SubscribeRefer, Paying!MarkPaid, PT!MarkPaid,
       Paying!PayLoad, PT!PayLoad, Paying!PayCommit, PT!PayCommit,
       Paying!WebCrash, PT!WebCrash, Paying!Report, PT!Report, Paying!TaskStep,
       PT!TaskStep, Paying!TaskSave, PT!TaskSave, Paying!TaskSync, PT!TaskSync,
       Paying!TaskActivate, PT!TaskActivate, Paying!TaskRaise, PT!TaskRaise,
       Paying!TaskGoLive, PT!TaskGoLive, Paying!TaskEnter, PT!TaskEnter,
       Paying!TaskCrash, PT!TaskCrash, Paying!TaskLoad, PT!TaskLoad,
       Paying!AuctionStep, PT!AuctionStep, Paying!Eligible, PT!Eligible,
       Paying!GoLive, PT!GoLive, Paying!At, PT!At, Paying!Doing, PT!Doing,
       Paying!Goto, PT!Goto, Paying!Finish, PT!Finish, Paying!RestOfWeb,
       PT!RestOfWeb, Paying!Continue, PT!Continue, Paying!Done, PT!Done,
       Paying!RestOfTask, PT!RestOfTask, Paying!money, PT!money,
       Paying!processes, PT!processes, Paying!Hook, PT!Hook, Paying!TxStatus,
       PT!TxStatus, Paying!Settled, PT!Settled, Paying!Failed, PT!Failed,
       Paying!Awaiting, PT!Awaiting, Paying!NoTx, PT!NoTx, Paying!Idle,
       PT!Idle, Paying!None, PT!None, Paying!Pending, PT!Pending,
       Paying!UnderReview, PT!UnderReview, Paying!Approved, PT!Approved,
       Paying!Active, PT!Active, Paying!Ended, PT!Ended, Paying!Cancelled,
       PT!Cancelled
-----------------------------------------------------------------------------
(* Every step of the listing is one Payments allows of its environment.    *)
LEMMA ListingIsEnvironment ==
  ASSUME LT!LTypeOK, L!Request \/ L!Close, UNCHANGED payments
  PROVE  [Paying!PNext]_(Paying!pvars)
<1>1. LT!Request \/ LT!Close
  BY SameListing
<1>2. \/ status' = status
      \/ status' \in LT!AuctionStatus \ {LT!Active, LT!Ended}
      \/ status = LT!Active /\ status' = LT!Ended
  <2>1. ASSUME NEW p \in Clerks, LT!PatchSave(p)
        PROVE  status' \in LT!Editable
    BY <2>1 DEF LT!PatchSave, LT!Serving, LT!LTypeOK, LT!Job, LT!NoJob
  <2>2. ASSUME NEW p \in Clerks, LT!ReviewSave(p)
        PROVE  status' \in {LT!Approved, LT!Rejected, LT!Returned}
    BY <2>2 DEF LT!ReviewSave, LT!Outcome
  <2>3. ASSUME NEW p \in Clerks, LT!SubmitSave(p) \/ LT!CancelSave(p)
        PROVE  status' \in {LT!UnderReview, LT!Cancelled}
    BY <2>3 DEF LT!SubmitSave, LT!CancelSave
  <2>4. ASSUME NEW p \in Clerks,
               \/ LT!PatchReprice(p) \/ LT!SubmitLoad(p) \/ LT!SubmitValidate(p)
               \/ LT!Copy(p) \/ LT!Media(p) \/ LT!ChecklistGet(p)
               \/ LT!ReviewDecide(p) \/ LT!ReviewLog(p) \/ LT!CancelLoad(p)
               \/ LT!Crash(p)
               \/ \E d \in LT!Decision : LT!ReviewLoad(p, d)
               \/ \E i \in Items, m \in {LT!Open, LT!Checked} : LT!Tick(p, i, m)
               \/ \E a \in Prices \cup {KeepPrice}, c \in Categories : LT!PatchLoad(p, a, c)
        PROVE  status' = status
    BY <2>4 DEF LT!PatchReprice, LT!SubmitLoad, LT!SubmitValidate, LT!Copy,
         LT!CopyRow, LT!CopyEnd, LT!Media, LT!UploadLoad, LT!UploadCount,
         LT!UploadCreate, LT!DeleteLoad, LT!DeleteImage, LT!ChecklistGet,
         LT!ReviewDecide, LT!ReviewLog, LT!CancelLoad, LT!Crash, LT!ReviewLoad,
         LT!Tick, LT!PatchLoad
  <2>5. LT!Editable \cup {LT!Approved, LT!Rejected, LT!Returned, LT!UnderReview,
                          LT!Cancelled}
          \subseteq LT!AuctionStatus \ {LT!Active, LT!Ended}
    BY DEF LT!Editable, LT!AuctionStatus, LT!Draft, LT!UnderReview, LT!Returned,
         LT!Rejected, LT!Approved, LT!Active, LT!Ended, LT!Cancelled
  <2>6. CASE LT!Request
    BY <2>1, <2>2, <2>3, <2>4, <2>5, <2>6
       DEF LT!Request, LT!RequestOf, LT!Patch, LT!Submit, LT!Review, LT!Cancel
  <2>7. CASE LT!Close
    BY <2>7 DEF LT!Close
  <2>8. QED
    BY <1>1, <2>6, <2>7
<1>3. \/ Seen(status)' = Seen(status)
      \/ Seen(status)' \in {Paying!UnderReview, Paying!Approved, Paying!Cancelled}
      \/ Seen(status) = Paying!Active /\ Seen(status)' = Paying!Ended
  BY <1>2 DEF Seen, LT!AuctionStatus, LT!Active, LT!Ended, L!Approved, L!Active,
       L!Ended, L!Cancelled, L!UnderReview, Paying!UnderReview, Paying!Approved,
       Paying!Cancelled, Paying!Active, Paying!Ended
<1>4. UNCHANGED <<sub, tx, Paying!money, Paying!processes>>
  BY DEF payments, Paying!money, Paying!processes
<1>5. Paying!AuctionStep \/ UNCHANGED (Paying!pvars)
  BY <1>3, <1>4 DEF Paying!AuctionStep, Paying!pvars
<1>6. QED
  BY <1>5 DEF Paying!PNext

(* A step of Payments is the same step when the early statuses are one.    *)
LEMMA PaymentsIsPayments ==
  ASSUME P!PaymentsStep
  PROVE  Paying!PNext
<1> USE DEF Seen, L!Approved, L!Active, L!Ended, L!Cancelled, L!UnderReview,
        P!At, P!Goto, P!Finish, P!RestOfWeb, P!Doing, P!Continue, P!Done,
        P!RestOfTask, P!money, P!processes, P!Idle, P!None, P!Pending, P!Active,
        P!Approved, P!NoTx, P!Settled, P!Failed, P!Awaiting,
        Paying!At, Paying!Goto, Paying!Finish, Paying!RestOfWeb, Paying!Doing,
        Paying!Continue, Paying!Done, Paying!RestOfTask, Paying!money,
        Paying!processes, Paying!Idle, Paying!None, Paying!Pending, Paying!Active,
        Paying!Approved, Paying!NoTx, Paying!Settled, Paying!Failed, Paying!Awaiting
<1>1. ASSUME NEW p \in Web, P!Subscribe(p) PROVE Paying!Subscribe(p)
  BY <1>1 DEF P!Subscribe, P!SubscribeCheck, P!SubscribeFound, P!SubscribeNew,
       P!SubscribeInsert, P!SubscribeCharge, P!SubscribeRefer, P!Eligible,
       Paying!Subscribe, Paying!SubscribeCheck, Paying!SubscribeFound,
       Paying!SubscribeNew, Paying!SubscribeInsert, Paying!SubscribeCharge,
       Paying!SubscribeRefer, Paying!Eligible
<1>2. ASSUME NEW p \in Web, P!MarkPaid(p) PROVE Paying!MarkPaid(p)
  BY <1>2 DEF P!MarkPaid, P!PayLoad, P!PayCommit, P!GoLive,
       Paying!MarkPaid, Paying!PayLoad, Paying!PayCommit, Paying!GoLive
<1>3. ASSUME NEW p \in Web, P!WebCrash(p) PROVE Paying!WebCrash(p)
  BY <1>3 DEF P!WebCrash, Paying!WebCrash
<1>4. ASSUME NEW u \in Users, NEW s \in P!TxStatus, P!Report(u, s)
      PROVE  s \in Paying!TxStatus /\ Paying!Report(u, s)
  BY <1>4 DEF P!TxStatus, Paying!TxStatus, P!Report, Paying!Report
<1>5. ASSUME NEW t \in Tasks, P!TaskStep(t) PROVE Paying!TaskStep(t)
  BY <1>5 DEF P!TaskStep, P!TaskSave, P!TaskSync, P!TaskActivate, P!TaskRaise,
       P!TaskGoLive, P!TaskEnter,
       Paying!TaskStep, Paying!TaskSave, Paying!TaskSync, Paying!TaskActivate,
       Paying!TaskRaise, Paying!TaskGoLive, Paying!TaskEnter
<1>6. ASSUME NEW t \in Tasks, P!TaskCrash(t) PROVE Paying!TaskCrash(t)
  BY <1>6 DEF P!TaskCrash, Paying!TaskCrash
<1>7. ASSUME NEW t \in Tasks, NEW m \in P!Hook, P!TaskLoad(t, m)
      PROVE  m \in Paying!Hook /\ Paying!TaskLoad(t, m)
  BY <1>7 DEF P!TaskLoad, Paying!TaskLoad, P!Hook, Paying!Hook, P!TxStatus,
       Paying!TxStatus
<1>8. QED
  BY <1>1, <1>2, <1>3, <1>4, <1>5, <1>6, <1>7
     DEF P!PaymentsStep, Paying!PaymentsStep, Paying!PNext
-----------------------------------------------------------------------------
(* The listing keeps its types, so Payments is implemented.                *)

LEMMA Assumptions == PT!PaymentsAssumption /\ LT!ListingAssumption
BY GoLiveAssumption DEF PT!PaymentsAssumption, LT!ListingAssumption

LEMMA ListingInit == GInit => LT!LInit
BY DEF GInit, L!LInit, LT!LInit, L!Draft, LT!Draft, L!Absent, LT!Absent, L!NoJob,
     LT!NoJob

LEMMA ListingTypeInit == GInit => LT!LTypeOK
BY ListingInit, Assumptions, LT!InitType

LEMMA PaymentsStatus ==
  ASSUME P!PaymentsStep
  PROVE  status' \in {status, LT!Active}
BY DEF P!PaymentsStep, P!Subscribe, P!SubscribeCheck, P!SubscribeFound,
     P!SubscribeNew, P!SubscribeInsert, P!SubscribeCharge, P!SubscribeRefer,
     P!MarkPaid, P!PayLoad, P!PayCommit, P!GoLive, P!WebCrash, P!Report, P!TaskLoad,
     P!TaskStep, P!TaskSave, P!TaskSync, P!TaskActivate, P!TaskRaise, P!TaskGoLive,
     P!TaskEnter, P!TaskCrash, P!RestOfWeb, P!Active, LT!Active

LEMMA ListingTypeStep == LT!LTypeOK /\ [GNext]_gvars => LT!LTypeOK'
<1> SUFFICES ASSUME LT!LTypeOK, [GNext]_gvars PROVE LT!LTypeOK'
  OBVIOUS
<1>1. CASE L!Request \/ L!Close
  BY <1>1, SameListing, Assumptions, LT!StepType DEF LT!LNext
<1>2. CASE P!PaymentsStep /\ UNCHANGED listing
  BY <1>2, PaymentsStatus DEF listing, LT!LTypeOK, LT!AuctionStatus
<1>3. CASE UNCHANGED gvars
  BY <1>3 DEF gvars, listing, LT!LTypeOK
<1>4. QED
  BY <1>1, <1>2, <1>3 DEF GNext

LEMMA PaymentsStart == GInit => Paying!PInit
BY DEF GInit, L!LInit, L!Draft, Seen, L!Approved, L!Active, L!Ended, L!Cancelled,
     L!UnderReview, Paying!PInit, Paying!UnderReview, P!None, Paying!None, P!NoTx,
     Paying!NoTx, P!Idle, Paying!Idle

LEMMA PaymentsSteps == LT!LTypeOK /\ [GNext]_gvars => [Paying!PNext]_(Paying!pvars)
<1> SUFFICES ASSUME LT!LTypeOK, [GNext]_gvars PROVE [Paying!PNext]_(Paying!pvars)
  OBVIOUS
<1>1. CASE (L!Request \/ L!Close) /\ UNCHANGED payments
  BY <1>1, ListingIsEnvironment
<1>2. CASE P!PaymentsStep
  BY <1>2, PaymentsIsPayments
<1>3. CASE UNCHANGED gvars
  BY <1>3 DEF gvars, payments, Paying!pvars, Paying!money, Paying!processes, Seen
<1>4. QED
  BY <1>1, <1>2, <1>3 DEF GNext

(* What Payments takes for granted of the listing is what Listing does,    *)
(* however its requests race.                                              *)
THEOREM ListingSuitsPayments == GSpec => ImplementsPayments
<1>1. GSpec => []LT!LTypeOK
  BY ListingTypeInit, ListingTypeStep, PTL DEF GSpec
<1>2. QED
  BY <1>1, PaymentsStart, PaymentsSteps, PTL DEF GSpec, ImplementsPayments, Paying!PSpec
-----------------------------------------------------------------------------
(* The approval is in the log when a payment starts the auction.           *)

LEMMA SoldInit == GInit => Sold
<1> SUFFICES ASSUME GInit PROVE Sold
  OBVIOUS
<1>1. LT!DecisionsAreLogged /\ LT!InFlightIsLogged
  BY ListingInit DEF LT!LInit, LT!DecisionsAreLogged, LT!InFlightIsLogged,
       LT!Serving, LT!NoJob, LT!Draft, LT!Returned, LT!Rejected, LT!Approved,
       LT!Active, LT!Ended
<1>2. QED
  BY <1>1, ListingTypeInit DEF Sold, GInit, P!Idle

LEMMA LogGrows ==
  ASSUME L!Request \/ L!Close
  PROVE  log \subseteq log'
<1>1. CASE L!Close
  BY <1>1 DEF L!Close
<1>2. CASE L!Request
  BY <1>2 DEF L!Request, L!RequestOf, L!Patch, L!PatchLoad, L!PatchSave, L!PatchReprice,
       L!Submit, L!SubmitLoad, L!SubmitValidate, L!SubmitSave, L!Copy, L!CopyRow,
       L!CopyEnd, L!Media, L!UploadLoad, L!UploadCount, L!UploadCreate,
       L!DeleteLoad, L!DeleteImage, L!Review, L!ChecklistGet, L!Tick, L!ReviewLoad,
       L!ReviewDecide, L!ReviewLog, L!ReviewSave, L!Cancel, L!CancelLoad,
       L!CancelSave, L!Crash
<1>3. QED
  BY <1>1, <1>2

(* A payment starts an auction it has seen approved.                       *)
LEMMA PaymentsKeepSold ==
  ASSUME Sold, PT!PTypeOK, P!PaymentsStep, UNCHANGED listing
  PROVE  Sold'
<1> USE DEF P!Doing, P!Approved, P!Active, P!Idle, P!Continue, P!Done, P!RestOfTask,
        P!RestOfWeb, LT!DecisionsAreLogged, LT!Approved, LT!Active, LT!Ended,
        LT!Rejected, LT!Returned, Sold
<1>1. UNCHANGED <<start, current, category, images, rows, log, job, deaths, had,
                 overlapped>>
  BY DEF listing
<1>2. \A t \in Tasks :
        /\ task \in [Tasks -> PT!Job \cup {PT!Idle}]
        /\ task[t] # PT!Idle => task[t] \in PT!Job
  BY DEF PT!PTypeOK
<1>3. /\ \/ status' = status
         \/ status' = LT!Active /\ "approve" \in log
      /\ \A t \in Tasks : task'[t].pc = "entering" => "approve" \in log
  <2>1. ASSUME NEW p \in Web, P!Subscribe(p) \/ P!MarkPaid(p) \/ P!WebCrash(p)
        PROVE  <1>3
    BY <2>1 DEF P!Subscribe, P!SubscribeCheck, P!SubscribeFound, P!SubscribeNew,
         P!SubscribeInsert, P!SubscribeCharge, P!SubscribeRefer, P!MarkPaid,
         P!PayLoad, P!PayCommit, P!GoLive, P!WebCrash
  <2>2. ASSUME NEW u \in Users, NEW s \in P!TxStatus, P!Report(u, s)
        PROVE  <1>3
    BY <2>2 DEF P!Report, P!processes
  <2>3. ASSUME NEW t \in Tasks, NEW m \in P!Hook, P!TaskLoad(t, m)
        PROVE  <1>3
    BY <1>2, <2>3 DEF P!TaskLoad
  <2>4. ASSUME NEW t \in Tasks, P!TaskStep(t) \/ P!TaskCrash(t)
        PROVE  <1>3
    <3>1. task[t] # PT!Idle
      BY <2>4 DEF P!TaskStep, P!TaskSave, P!TaskSync, P!TaskActivate,
           P!TaskRaise, P!TaskGoLive, P!TaskEnter, P!TaskCrash, PT!Idle
    <3>2. task[t] \in PT!Job
      BY <1>2, <3>1
    <3>3. \A s \in Tasks : s # t => task'[s] = task[s]
      BY <1>2, <2>4 DEF P!TaskStep, P!TaskSave, P!TaskSync, P!TaskActivate,
           P!TaskRaise, P!TaskGoLive, P!TaskEnter, P!TaskCrash
    <3>4. task'[t].pc = "entering" => status = P!Approved
      BY <1>2, <2>4, <3>2 DEF P!TaskStep, P!TaskSave, P!TaskSync, P!TaskActivate,
           P!TaskRaise, P!TaskGoLive, P!TaskEnter, P!TaskCrash, PT!Job
    <3>5. status' = status \/ (status' = LT!Active /\ task[t].pc = "entering")
      BY <2>4 DEF P!TaskStep, P!TaskSave, P!TaskSync, P!TaskActivate,
           P!TaskRaise, P!TaskGoLive, P!TaskEnter, P!TaskCrash
    <3>6. QED
      BY <3>3, <3>4, <3>5
  <2>5. QED
    BY <2>1, <2>2, <2>3, <2>4 DEF P!PaymentsStep
<1>4. LT!LTypeOK'
  BY <1>1, <1>3 DEF LT!LTypeOK, LT!AuctionStatus
<1>5. LT!DecisionsAreLogged' /\ LT!InFlightIsLogged'
  BY <1>1, <1>3 DEF LT!InFlightIsLogged, LT!Serving, LT!Logged
<1>6. QED
  BY <1>1, <1>3, <1>4, <1>5

LEMMA SoldNext == Sold /\ PT!PTypeOK /\ [GNext]_gvars => Sold'
<1> SUFFICES ASSUME Sold, PT!PTypeOK, [GNext]_gvars PROVE Sold'
  OBVIOUS
<1>1. CASE (L!Request \/ L!Close) /\ UNCHANGED payments
  <2>1. LT!LNext
    BY <1>1, SameListing DEF LT!LNext
  <2>2. LT!LTypeOK' /\ LT!DecisionsAreLogged' /\ LT!InFlightIsLogged'
    BY <2>1, Assumptions, LT!StepType, LT!LoggedNext DEF Sold
  <2>3. \A t \in Tasks : task'[t].pc = "entering" => "approve" \in log'
    BY <1>1, LogGrows DEF Sold, payments
  <2>4. QED
    BY <2>2, <2>3 DEF Sold
<1>2. CASE P!PaymentsStep /\ UNCHANGED listing
  BY <1>2, PaymentsKeepSold
<1>3. CASE UNCHANGED gvars
  BY <1>3 DEF gvars, listing, payments, Sold, LT!LTypeOK, LT!DecisionsAreLogged,
       LT!InFlightIsLogged, LT!Serving, LT!Logged
<1>4. QED
  BY <1>1, <1>2, <1>3 DEF GNext

(* An auction on sale has been approved by a reviewer and paid for by its  *)
(* seller, whatever saves and webhooks were in flight.                     *)
THEOREM OnSaleIsSound == GSpec => []OnSaleIsApprovedAndPaid
<1>1. GSpec => PT!PSpec
  BY ListingSuitsPayments, SamePayments, PTL
     DEF ImplementsPayments, Paying!PSpec, PT!PSpec
<1>2. GSpec => [](PT!PTypeOK /\ PT!LiveIsPaid /\ PT!ActiveIsPaid)
  BY <1>1, Assumptions, PT!PTypeCorrect, PT!NothingLiveUnpaid, PT!NobodyInUnpaid, PTL
<1>3. GSpec => []Sold
  BY <1>2, SoldInit, SoldNext, PTL DEF GSpec
<1>4. Sold /\ PT!LiveIsPaid /\ PT!ActiveIsPaid => OnSaleIsApprovedAndPaid
  BY GoLiveAssumption
     DEF Sold, LT!DecisionsAreLogged, PT!LiveIsPaid, PT!ActiveIsPaid, Seen,
         OnSaleIsApprovedAndPaid, L!Approved, L!Active, L!Ended, L!Cancelled,
         LT!Approved, LT!Active, LT!Ended, PT!Active, PT!Ended, P!Active
<1>5. QED
  BY <1>2, <1>3, <1>4, PTL

(* With row locks the listing and the payments together keep the promise   *)
(* of Admission: the decisions of the listing are all that Admission has   *)
(* to allow beside the payments.                                           *)
THEOREM OnSaleAdmits ==
  ASSUME LocksNeedTransaction
  PROVE  GSpec => PT!ImplementsAdmission
<1>1. GSpec => PT!PSpec
  BY ListingSuitsPayments, SamePayments, PTL
     DEF ImplementsPayments, Paying!PSpec, PT!PSpec
<1>2. PT!PSpec => PT!ImplementsAdmission
  BY Assumptions, PT!PaymentsAdmit
<1>3. QED
  BY <1>1, <1>2, PTL
=============================================================================
