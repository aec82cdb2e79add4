-------------------------- MODULE ListingTheorems --------------------------
(***************************************************************************)
(* What holds of Listing for any number of processes, checklist items and  *)
(* prices, however requests interleave.                                    *)
(*                                                                         *)
(* A request carries into its save what it read long ago, so the invariant *)
(* of the rows is strengthened by what the requests in flight may write:   *)
(* the status a PATCH has loaded was once the row's, and a review that is  *)
(* about to save has written its log.                                      *)
(*                                                                         *)
(* The rest is about requests that come one after the other.  Until two    *)
(* overlap, one process at most is at work (Serial).  Then the status and  *)
(* the category are those on which its request has decided, wherever       *)
(* processes die (Undisturbed), and with them come the diagram, what the   *)
(* public is shown and the images of what goes to review (Illustrated).    *)
(* As long as none has died, all that a request has loaded or checked is   *)
(* still so (Alone): the checklist of what is approved is full, and the    *)
(* prices agree.                                                           *)
(***************************************************************************)
EXTENDS Listing, FiniteSetTheorems, TLAPS

Logged(st) ==
  /\ st \in {Approved, Active, Ended} => "approve" \in log
  /\ st = Rejected => "reject" \in log
  /\ st = Returned => "return_for_edit" \in log

InFlightIsLogged ==
  \A p \in Web :
    /\ Serving(p, "editing") => Logged(job[p].status)
    /\ Serving(p, "logged") => job[p].decision \in log
-----------------------------------------------------------------------------
LEMMA JobType ==
  ASSUME LTypeOK, NEW p \in Web, job[p] # NoJob
  PROVE  job[p] \in Job
BY DEF LTypeOK

LEMMA OutcomeType ==
  ASSUME NEW d \in Decision
  PROVE  /\ d = "approve" => Outcome(d) = Approved
         /\ d = "reject" => Outcome(d) = Rejected
         /\ d = "return_for_edit" => Outcome(d) = Returned
BY DEF Decision, Outcome

LEMMA InitType == LInit => LTypeOK
<1> SUFFICES ASSUME LInit PROVE LTypeOK
  OBVIOUS
<1>1. /\ status \in AuctionStatus /\ start \in Prices /\ current \in Prices
      /\ category \in Categories /\ had \subseteq Categories
  BY ListingAssumption DEF LInit, AuctionStatus
<1>2. images \in Nat /\ deaths \in 0 .. MaxCrashes
  BY ListingAssumption DEF LInit
<1>3. /\ rows \in [Items -> {Absent, Open, Checked}] /\ log \subseteq Decision
      /\ job \in [Web -> Job \cup {NoJob}]
  BY DEF LInit
<1>4. overlapped \in BOOLEAN
  BY Zenon DEF LInit
<1> QED
  BY <1>1, <1>2, <1>3, <1>4 DEF LTypeOK

LEMMA PatchType ==
  ASSUME LTypeOK, NEW p \in Web, Patch(p)
  PROVE  LTypeOK'
<1> USE DEF Begin, Meets, End, Goto, Serving, price, kind, past
<1>1. ASSUME NEW asked \in Prices \cup {KeepPrice}, NEW c \in Categories,
             PatchLoad(p, asked, c)
      PROVE  LTypeOK'
  <2>1. [pc |-> "editing", status |-> status, start |-> start,
         current |-> current, category |-> c, asked |-> asked] \in Job
    BY <1>1 DEF PatchLoad, LTypeOK, Job
  <2>2. QED
    BY <1>1, <2>1 DEF PatchLoad, LTypeOK
<1>2. CASE PatchSave(p)
  <2>1. /\ job[p].status \in Editable
        /\ job[p].start \in Prices
        /\ job[p].current \in Prices
        /\ job[p].category \in Categories
        /\ job[p].asked \in Prices \cup {KeepPrice}
    BY <1>2, JobType DEF PatchSave, NoJob, Job
  <2>2. [pc |-> "repricing", asked |-> job[p].asked] \in Job \/ job[p].asked = KeepPrice
    BY <2>1 DEF Job
  <2>3. job' \in [Web -> Job \cup {NoJob}]
    BY <1>2, <2>2 DEF PatchSave, LTypeOK
  <2>4. status' \in AuctionStatus /\ start' \in Prices /\ current' \in Prices
    BY <1>2, <2>1 DEF PatchSave, Editable, AuctionStatus
  <2>5. QED
    BY <1>2, <2>1, <2>3, <2>4 DEF PatchSave, Move, LTypeOK
<1>3. CASE PatchReprice(p)
  <2>1. job[p].asked \in Prices
    BY <1>3, JobType DEF PatchReprice, NoJob, Job
  <2>2. QED
    BY <1>3, <2>1 DEF PatchReprice, LTypeOK
<1> QED
  BY <1>1, <1>2, <1>3 DEF Patch

(* Steps that write no row and at most move on in their own job.           *)
LEMMA SubmitType ==
  ASSUME LTypeOK, NEW p \in Web, Submit(p) \/ Copy(p)
  PROVE  LTypeOK'
<1> USE DEF Begin, Meets, End, Goto, Serving, price, kind, past
<1>1. CASE SubmitLoad(p)
  BY <1>1 DEF SubmitLoad, LTypeOK, Job
<1>2. CASE SubmitValidate(p)
  <2>1. [job[p] EXCEPT !.pc = "valid"] \in Job
    BY <1>2, JobType DEF SubmitValidate, NoJob, Job
  <2>2. QED
    BY <1>2, <2>1 DEF SubmitValidate, LTypeOK
<1>3. CASE SubmitSave(p)
  <2>1. job[p].category \in Categories
    BY <1>3, JobType DEF SubmitSave, NoJob, Job
  <2>2. Assigned[job[p].category] \subseteq Items
    BY <2>1, ListingAssumption
  <2>3. [pc |-> "copying", todo |-> Assigned[job[p].category]] \in Job
    BY <2>2 DEF Job
  <2>4. QED
    BY <1>3, <2>3 DEF SubmitSave, LTypeOK, AuctionStatus
<1>4. ASSUME NEW i \in Items, CopyRow(p, i) PROVE LTypeOK'
  <2>1. [job[p] EXCEPT !.todo = @ \ {i}] \in Job
    BY <1>4, JobType DEF CopyRow, NoJob, Job
  <2>2. QED
    BY <1>4, <2>1 DEF CopyRow, LTypeOK
<1>5. CASE CopyEnd(p)
  BY <1>5 DEF CopyEnd, LTypeOK
<1> QED
  BY <1>1, <1>2, <1>3, <1>4, <1>5 DEF Submit, Copy

LEMMA MediaType ==
  ASSUME LTypeOK, NEW p \in Web, Media(p)
  PROVE  LTypeOK'
<1> USE DEF Begin, Meets, End, Goto, Serving, price, kind, past
<1>1. CASE UploadLoad(p)
  BY <1>1 DEF UploadLoad, LTypeOK, Job
<1>2. CASE UploadCount(p)
  <2>1. [job[p] EXCEPT !.pc = "counted"] \in Job
    BY <1>2, JobType DEF UploadCount, NoJob, Job
  <2>2. QED
    BY <1>2, <2>1 DEF UploadCount, LTypeOK
<1>3. CASE UploadCreate(p)
  BY <1>3 DEF UploadCreate, LTypeOK
<1>4. CASE DeleteLoad(p)
  BY <1>4 DEF DeleteLoad, LTypeOK, Job
<1>5. CASE DeleteImage(p)
  BY <1>5 DEF DeleteImage, LTypeOK
<1> QED
  BY <1>1, <1>2, <1>3, <1>4, <1>5 DEF Media

LEMMA ReviewType ==
  ASSUME LTypeOK, NEW p \in Web, Review(p) \/ Cancel(p) \/ Crash(p)
  PROVE  LTypeOK'
<1> USE DEF Begin, Meets, End, Goto, Serving, price, kind, past
<1>1. CASE ChecklistGet(p)
  <2>1. Assigned[category] \subseteq Items
    BY ListingAssumption DEF LTypeOK
  <2>2. [pc |-> "copying", todo |-> Assigned[category]] \in Job
    BY <2>1 DEF Job
  <2>3. QED
    BY <1>1, <2>2 DEF ChecklistGet, LTypeOK
<1>2. ASSUME NEW i \in Items, NEW mark \in {Open, Checked}, Tick(p, i, mark)
      PROVE  LTypeOK'
  BY <1>2 DEF Tick, LTypeOK
<1>3. ASSUME NEW d \in Decision, ReviewLoad(p, d) PROVE LTypeOK'
  BY <1>3 DEF ReviewLoad, LTypeOK, Job
<1>4. CASE ReviewDecide(p)
  <2>1. [job[p] EXCEPT !.pc = "decided"] \in Job
    BY <1>4, JobType DEF ReviewDecide, NoJob, Job
  <2>2. QED
    BY <1>4, <2>1 DEF ReviewDecide, LTypeOK
<1>5. CASE ReviewLog(p)
  <2>1. [job[p] EXCEPT !.pc = "logged"] \in Job /\ job[p].decision \in Decision
    BY <1>5, JobType DEF ReviewLog, NoJob, Job
  <2>2. QED
    BY <1>5, <2>1 DEF ReviewLog, LTypeOK
<1>6. CASE ReviewSave(p)
  <2>1. job[p].decision \in Decision
    BY <1>6, JobType DEF ReviewSave, NoJob, Job
  <2>2. status' \in AuctionStatus
    BY <1>6, <2>1, OutcomeType DEF ReviewSave, Decision, AuctionStatus
  <2>3. QED
    BY <1>6, <2>2 DEF ReviewSave, LTypeOK
<1>7. CASE CancelLoad(p)
  BY <1>7 DEF CancelLoad, LTypeOK, Job
<1>8. CASE CancelSave(p)
  BY <1>8 DEF CancelSave, LTypeOK, AuctionStatus
<1>9. CASE Crash(p)
  BY <1>9, ListingAssumption DEF Crash, LTypeOK
<1> QED
  BY <1>1, <1>2, <1>3, <1>4, <1>5, <1>6, <1>7, <1>8, <1>9 DEF Review, Cancel

LEMMA StepType == LTypeOK /\ [LNext]_lvars => LTypeOK'
<1> SUFFICES ASSUME LTypeOK, [LNext]_lvars PROVE LTypeOK'
  OBVIOUS
<1>1. CASE Request
  BY <1>1, PatchType, SubmitType, MediaType, ReviewType DEF Request, RequestOf
<1>2. ASSUME NEW p \in Web, SellerPays(p) PROVE LTypeOK'
  BY <1>2 DEF SellerPays, Meets, LTypeOK, AuctionStatus, price, kind
<1>3. CASE Close
  BY <1>3 DEF Close, LTypeOK, AuctionStatus, price, kind, past
<1>4. CASE UNCHANGED lvars
  BY <1>4 DEF lvars, LTypeOK, price, kind, past
<1> QED
  BY <1>1, <1>2, <1>3, <1>4 DEF LNext

(* Every variable keeps its type.                                          *)
THEOREM LTypeCorrect == LSpec => []LTypeOK
<1>1. QED
  BY InitType, StepType, PTL DEF LSpec
-----------------------------------------------------------------------------
(* Decisions.                                                              *)

(* The steps that neither save a status nor move a review or a PATCH on.   *)
Plain(p) ==
  /\ status' = status
  /\ log' = log
  /\ job'[p].pc \notin {"editing", "logged"}
  /\ \A q \in Web : q # p => job'[q] = job[q]

LEMMA PlainIsLogged ==
  ASSUME LTypeOK, DecisionsAreLogged, InFlightIsLogged, NEW p \in Web, Plain(p)
  PROVE  (DecisionsAreLogged /\ InFlightIsLogged)'
BY DEF DecisionsAreLogged, InFlightIsLogged, Plain, Serving, Logged

LEMMA PlainSteps ==
  ASSUME LTypeOK, NEW p \in Web,
         \/ PatchReprice(p) \/ SubmitLoad(p) \/ SubmitValidate(p) \/ Copy(p)
         \/ Media(p) \/ ChecklistGet(p) \/ ReviewDecide(p) \/ CancelLoad(p)
         \/ Crash(p) \/ \E d \in Decision : ReviewLoad(p, d)
         \/ \E i \in Items, mark \in {Open, Checked} : Tick(p, i, mark)
  PROVE  Plain(p)
<1> USE DEF Begin, End, Goto, Serving, Plain, LTypeOK, NoJob
<1>1. CASE PatchReprice(p) \/ CancelLoad(p) \/ ChecklistGet(p)
           \/ Crash(p) \/ \E d \in Decision : ReviewLoad(p, d)
  BY <1>1 DEF PatchReprice, CancelLoad, ChecklistGet, Crash, ReviewLoad
<1>2. CASE SubmitLoad(p) \/ SubmitValidate(p) \/ ReviewDecide(p)
  BY <1>2, JobType DEF SubmitLoad, SubmitValidate, ReviewDecide, Job
<1>3. CASE Copy(p)
  BY <1>3, JobType DEF Copy, CopyRow, CopyEnd, Job
<1>4. CASE Media(p)
  BY <1>4, JobType DEF Media, UploadLoad, UploadCount, UploadCreate, DeleteLoad,
       DeleteImage, Job
<1>5. ASSUME NEW i \in Items, NEW mark \in {Open, Checked}, Tick(p, i, mark)
      PROVE  Plain(p)
  BY <1>5 DEF Tick
<1> QED
  BY <1>1, <1>2, <1>3, <1>4, <1>5

LEMMA LoggedNext ==
  LTypeOK /\ DecisionsAreLogged /\ InFlightIsLogged /\ [LNext]_lvars
    => (DecisionsAreLogged /\ InFlightIsLogged)'
<1> SUFFICES ASSUME LTypeOK, DecisionsAreLogged, InFlightIsLogged, [LNext]_lvars
             PROVE  (DecisionsAreLogged /\ InFlightIsLogged)'
  OBVIOUS
<1> USE DEF DecisionsAreLogged, InFlightIsLogged, Serving, Logged
<1>1. ASSUME NEW p \in Web, NEW asked \in Prices \cup {KeepPrice},
             NEW c \in Categories, PatchLoad(p, asked, c)
      PROVE  (DecisionsAreLogged /\ InFlightIsLogged)'
  <2>1. /\ job'[p].pc = "editing" /\ job'[p].status = status
        /\ \A q \in Web : q # p => job'[q] = job[q]
        /\ status' = status /\ log' = log
    BY <1>1 DEF PatchLoad, Begin, LTypeOK
  <2>2. QED
    BY <2>1
<1>2. ASSUME NEW p \in Web, PatchSave(p)
      PROVE  (DecisionsAreLogged /\ InFlightIsLogged)'
  <2>1. /\ job'[p].pc \notin {"editing", "logged"}
        /\ \A q \in Web : q # p => job'[q] = job[q]
        /\ status' = job[p].status /\ log' = log
    BY <1>2 DEF PatchSave, End, LTypeOK, NoJob
  <2>2. Logged(job[p].status)
    BY <1>2 DEF PatchSave
  <2>3. QED
    BY <2>1, <2>2
<1>3. ASSUME NEW p \in Web, SubmitSave(p) \/ CancelSave(p)
      PROVE  (DecisionsAreLogged /\ InFlightIsLogged)'
  <2>1. /\ job'[p].pc \notin {"editing", "logged"}
        /\ \A q \in Web : q # p => job'[q] = job[q]
        /\ status' \in {UnderReview, Cancelled} /\ log' = log
    BY <1>3 DEF SubmitSave, CancelSave, End, LTypeOK, NoJob
  <2>2. QED
    BY <2>1 DEF UnderReview, Returned, Rejected, Approved, Active, Ended, Cancelled
<1>4. ASSUME NEW p \in Web, ReviewLog(p)
      PROVE  (DecisionsAreLogged /\ InFlightIsLogged)'
  <2>1. /\ job'[p].pc = "logged" /\ job'[p].decision = job[p].decision
        /\ \A q \in Web : q # p => job'[q] = job[q]
        /\ status' = status /\ log' = log \cup {job[p].decision}
    BY <1>4, JobType DEF ReviewLog, Goto, LTypeOK, NoJob, Job
  <2>2. QED
    BY <2>1
<1>5. ASSUME NEW p \in Web, ReviewSave(p)
      PROVE  (DecisionsAreLogged /\ InFlightIsLogged)'
  <2>1. /\ job'[p].pc \notin {"editing", "logged"}
        /\ \A q \in Web : q # p => job'[q] = job[q]
        /\ status' = Outcome(job[p].decision) /\ log' = log
        /\ job[p].decision \in log
    BY <1>5 DEF ReviewSave, End, LTypeOK, NoJob
  <2>2. job[p].decision \in Decision
    BY <1>5, JobType DEF ReviewSave, NoJob, Job
  <2>3. Logged(Outcome(job[p].decision))
    BY <2>1, <2>2, OutcomeType DEF Decision, Approved, Rejected, Returned, Active, Ended
  <2>4. QED
    BY <2>1, <2>3
<1>6. ASSUME NEW p \in Web,
             \/ PatchReprice(p) \/ SubmitLoad(p) \/ SubmitValidate(p) \/ Copy(p)
             \/ Media(p) \/ ChecklistGet(p) \/ ReviewDecide(p) \/ CancelLoad(p)
             \/ Crash(p) \/ \E d \in Decision : ReviewLoad(p, d)
             \/ \E i \in Items, mark \in {Open, Checked} : Tick(p, i, mark)
      PROVE  (DecisionsAreLogged /\ InFlightIsLogged)'
  BY <1>6, PlainSteps, PlainIsLogged
<1>7. CASE Close \/ \E p \in Web : SellerPays(p)
  BY <1>7 DEF Close, SellerPays, Approved, Active, Ended, Rejected, Returned
<1>8. CASE UNCHANGED lvars
  BY <1>8 DEF lvars
<1> QED
  BY <1>1, <1>2, <1>3, <1>4, <1>5, <1>6, <1>7, <1>8
     DEF LNext, Request, RequestOf, Patch, Submit, Review, Cancel

(* No listing is on sale, rejected or returned without that decision in    *)
(* the review log, however stale the instance that was saved last.         *)
THEOREM NoStatusUndecided == LSpec => []DecisionsAreLogged
<1>1. LInit => DecisionsAreLogged /\ InFlightIsLogged
  BY DEF LInit, DecisionsAreLogged, InFlightIsLogged, Serving, NoJob, Draft, Returned,
         Rejected, Approved, Active, Ended
<1>2. LSpec => [](DecisionsAreLogged /\ InFlightIsLogged)
  BY <1>1, LoggedNext, LTypeCorrect, PTL DEF LSpec
<1>3. QED
  BY <1>2, PTL

LEMMA TicksNext == LTypeOK /\ [LNext]_lvars => [TicksStep]_lvars
<1> SUFFICES ASSUME LTypeOK, LNext, NEW i \in Items, rows[i] # Absent
             PROVE  rows'[i] = rows[i] \/ \E p \in Web : Tick(p, i, rows'[i])
  BY DEF TicksStep
<1>1. ASSUME NEW p \in Web, NEW j \in Items, CopyRow(p, j)
      PROVE  rows'[i] = rows[i]
  BY <1>1 DEF CopyRow, LTypeOK
<1>2. ASSUME NEW p \in Web, NEW j \in Items, NEW mark \in {Open, Checked},
             Tick(p, j, mark)
      PROVE  rows'[i] = rows[i] \/ Tick(p, i, rows'[i])
  BY <1>2 DEF Tick, LTypeOK
<1>3. ASSUME NEW p \in Web,
             \/ Patch(p) \/ Submit(p) \/ CopyEnd(p) \/ Media(p) \/ ChecklistGet(p)
             \/ ReviewDecide(p) \/ ReviewLog(p) \/ ReviewSave(p) \/ Cancel(p)
             \/ Crash(p) \/ SellerPays(p) \/ \E d \in Decision : ReviewLoad(p, d)
      PROVE  rows' = rows
  BY <1>3 DEF Patch, PatchLoad, PatchSave, PatchReprice, Submit, SubmitLoad,
       SubmitValidate, SubmitSave, CopyEnd, Media, UploadLoad, UploadCount,
       UploadCreate, DeleteLoad, DeleteImage, ChecklistGet, ReviewDecide, ReviewLog,
       ReviewSave, Cancel, CancelLoad, CancelSave, Crash, SellerPays, ReviewLoad
<1> QED
  BY <1>1, <1>2, <1>3 DEF LNext, Request, RequestOf, Copy, Review, Close

(* No copy of the checklist undoes a tick.                                 *)
THEOREM NoTickUndone == LSpec => TicksAreKept
<1>1. QED
  BY TicksNext, LTypeCorrect, PTL DEF LSpec, TicksAreKept
-----------------------------------------------------------------------------
(* Images.                                                                 *)

(* Uploads that have counted and will still create their image.            *)
Counted == {p \in Web : job[p].pc = "counted"}

(* For one of the categories the listing has had, the images it has and    *)
(* those to come are few enough.                                           *)
Explained(c) ==
  images + Cardinality(Counted) < MaxImages[c] + Cardinality(Web)

(* What a request has loaded, the listing has had.                         *)
ImagesToCome ==
  /\ category \in had
  /\ \A p \in Web : Serving(p, "uploading") => job[p].category \in had
  /\ \E c \in had : Explained(c)

LEMMA CountedIsFinite ==
  ASSUME IsFiniteSet(Web)
  PROVE  /\ IsFiniteSet(Counted) /\ Cardinality(Counted) \in Nat
         /\ Cardinality(Web) \in Nat
BY FS_Subset, FS_CardinalityType DEF Counted

(* A request that ends, or goes on elsewhere, will create no image.        *)
LEMMA CountedShrinks ==
  ASSUME IsFiniteSet(Web), Counted' \subseteq Counted
  PROVE  Cardinality(Counted') <= Cardinality(Counted)
BY CountedIsFinite, FS_Subset

(* The categories of the requests that upload stay among those it has had. *)
LEMMA HadNext ==
  ASSUME LTypeOK, ImagesToCome, [LNext]_lvars
  PROVE  /\ category' \in had' /\ had \subseteq had'
         /\ \A p \in Web : Serving(p, "uploading")' => job'[p].category \in had'
<1> USE DEF LTypeOK, ImagesToCome, Serving, kind, NoJob
<1>1. ASSUME NEW p \in Web, PatchSave(p)
      PROVE  /\ category' \in had' /\ had \subseteq had'
             /\ job'[p].pc # "uploading"
             /\ \A q \in Web \ {p} : job'[q] = job[q]
  BY <1>1 DEF PatchSave, Move, End
<1>2. ASSUME NEW p \in Web, RequestOf(p), ~PatchSave(p)
      PROVE  /\ UNCHANGED kind
             /\ job'[p].pc = "uploading" =>
                  job'[p] = job[p] \/ job'[p].category = category
             /\ \A q \in Web \ {p} : job'[q] = job[q]
  <2>1. CASE Patch(p)
    BY <1>2, <2>1 DEF Patch, PatchLoad, PatchReprice, Begin, End
  <2>2. CASE Submit(p) \/ Copy(p)
    BY <2>2, JobType DEF Submit, Copy, SubmitLoad, SubmitValidate, SubmitSave,
         CopyRow, CopyEnd, Begin, Goto, End, Job
  <2>3. CASE Media(p)
    BY <2>3, JobType DEF Media, UploadLoad, UploadCount, UploadCreate, DeleteLoad,
         DeleteImage, Begin, Goto, End, Job
  <2>4. CASE Review(p)
    BY <2>4, JobType DEF Review, ChecklistGet, Tick, ReviewLoad, ReviewDecide,
         ReviewLog, ReviewSave, Begin, Goto, End, Job
  <2>5. CASE Cancel(p) \/ Crash(p)
    BY <2>5, JobType DEF Cancel, CancelLoad, CancelSave, Crash, Begin, End, Job
  <2> QED
    BY <1>2, <2>1, <2>2, <2>3, <2>4, <2>5 DEF RequestOf
<1>3. CASE Close \/ (\E p \in Web : SellerPays(p)) \/ UNCHANGED lvars
  <2>1. UNCHANGED <<job, category, had>>
    BY <1>3 DEF Close, SellerPays, lvars
  <2> QED
    BY <2>1
<1> QED
  BY <1>1, <1>2, <1>3 DEF LNext, Request

LEMMA CountStep ==
  ASSUME LTypeOK, IsFiniteSet(Web), ImagesToCome, NEW p \in Web, UploadCount(p)
  PROVE  \E c \in had : Explained(c)'
<1>1. /\ images' = images /\ images \in Nat
      /\ p \notin Counted
      /\ Counted' \subseteq Counted \cup {p}
      /\ images < MaxImages[job[p].category] \/ Counted' \subseteq Counted
  BY DEF UploadCount, Serving, Goto, End, NoJob, LTypeOK, Counted
<1>2. /\ IsFiniteSet(Counted) /\ Cardinality(Counted) \in Nat
      /\ Cardinality(Web) \in Nat
      /\ \A c \in had : MaxImages[c] \in Nat
  BY CountedIsFinite, ListingAssumption DEF LTypeOK
<1>3. CASE Counted' \subseteq Counted
  <2>1. PICK c \in had : Explained(c)
    BY DEF ImagesToCome
  <2>2. Cardinality(Counted') <= Cardinality(Counted)
    BY <1>3, CountedShrinks
  <2>3. Cardinality(Counted') \in Nat
    BY <1>2, <1>3, FS_Subset, FS_CardinalityType
  <2>4. Explained(c)'
    BY <1>1, <1>2, <2>1, <2>2, <2>3 DEF Explained
  <2> QED
    BY <2>4
<1>4. CASE images < MaxImages[job[p].category]
  <2>1. Counted' \in SUBSET Web
    BY DEF Counted
  <2>2. Cardinality(Counted') <= Cardinality(Web) /\ Cardinality(Counted') \in Nat
    BY <2>1, FS_Subset, FS_CardinalityType
  <2>3. PICK c \in had : c = job[p].category
    BY DEF ImagesToCome, UploadCount
  <2>4. Explained(c)'
    BY <1>1, <1>2, <1>4, <2>2, <2>3 DEF Explained
  <2> QED
    BY <2>4
<1> QED
  BY <1>1, <1>3, <1>4

LEMMA CreateStep ==
  ASSUME LTypeOK, IsFiniteSet(Web), NEW p \in Web, UploadCreate(p),
         NEW c \in Categories, Explained(c)
  PROVE  Explained(c)'
<1>1. /\ images' = images + 1 /\ images \in Nat
      /\ p \in Counted
      /\ Counted' = Counted \ {p}
  BY DEF UploadCreate, Serving, End, NoJob, LTypeOK, Counted
<1>2. /\ IsFiniteSet(Counted) /\ Cardinality(Counted) \in Nat
      /\ Cardinality(Web) \in Nat /\ MaxImages[c] \in Nat
  BY CountedIsFinite, ListingAssumption
<1>3. Cardinality(Counted') = Cardinality(Counted) - 1
  BY <1>1, <1>2, FS_RemoveElement
<1> QED
  BY <1>1, <1>2, <1>3 DEF Explained

LEMMA OtherStep ==
  ASSUME LTypeOK, IsFiniteSet(Web), [LNext]_lvars,
         ~\E p \in Web : UploadCount(p) \/ UploadCreate(p),
         NEW c \in Categories, Explained(c)
  PROVE  Explained(c)'
<1>1. images' \in Nat /\ images' <= images
  <2>1. ASSUME NEW p \in Web, Patch(p) \/ Submit(p) \/ Copy(p)
        PROVE  images' = images
    BY <2>1 DEF Patch, Submit, Copy, PatchLoad, PatchSave, PatchReprice,
                SubmitLoad, SubmitValidate, SubmitSave, CopyRow, CopyEnd
  <2>2. ASSUME NEW p \in Web, Review(p) \/ Cancel(p) \/ Crash(p)
        PROVE  images' = images
    BY <2>2 DEF Review, Cancel, Crash, ChecklistGet, Tick, ReviewLoad,
                ReviewDecide, ReviewLog, ReviewSave, CancelLoad, CancelSave
  <2>3. ASSUME NEW p \in Web, Media(p), ~UploadCount(p), ~UploadCreate(p)
        PROVE  \/ images' = images
               \/ images > 0 /\ images' = images - 1
               \/ images' = 0
    BY <2>3 DEF Media, UploadLoad, DeleteLoad, DeleteImage
  <2>4. Request \/ images' = images
    BY DEF LNext, SellerPays, Close, lvars
  <2> QED
    BY <2>1, <2>2, <2>3, <2>4 DEF Request, RequestOf, LTypeOK
<1>2. ASSUME NEW p \in Web, NEW request, Begin(p, request), request.pc # "counted"
      PROVE  Counted' \subseteq Counted
  BY <1>2 DEF Begin, Counted, LTypeOK
<1>3. ASSUME NEW p \in Web, NEW step, Goto(p, step), step # "counted"
      PROVE  Counted' \subseteq Counted
  BY <1>3 DEF Goto, Counted, LTypeOK
<1>4. ASSUME NEW p \in Web, End(p) PROVE Counted' \subseteq Counted
  BY <1>4 DEF End, Counted, NoJob, LTypeOK
<1>5. UNCHANGED job => Counted' \subseteq Counted
  BY DEF Counted
<1>6. Counted' \subseteq Counted
  <2>1. ASSUME NEW p \in Web, Patch(p) PROVE Counted' \subseteq Counted
    <3>1. CASE PatchSave(p)
      BY <3>1 DEF PatchSave, End, NoJob, Counted, LTypeOK
    <3> QED
      BY <1>2, <1>4, <2>1, <3>1 DEF Patch, PatchLoad, PatchReprice
  <2>2. ASSUME NEW p \in Web, Submit(p) \/ Copy(p)
        PROVE  Counted' \subseteq Counted
    <3>1. CASE SubmitSave(p)
      BY <3>1 DEF SubmitSave, Counted, LTypeOK
    <3>2. ASSUME NEW i \in Items, CopyRow(p, i) PROVE Counted' \subseteq Counted
      BY <3>2 DEF CopyRow, Serving, Counted, LTypeOK
    <3> QED
      BY <1>2, <1>3, <1>4, <2>2, <3>1, <3>2
         DEF Submit, Copy, SubmitLoad, SubmitValidate, CopyEnd
  <2>3. ASSUME NEW p \in Web, Media(p), ~UploadCount(p), ~UploadCreate(p)
        PROVE  Counted' \subseteq Counted
    BY <1>2, <1>4, <2>3 DEF Media, UploadLoad, DeleteLoad, DeleteImage
  <2>4. ASSUME NEW p \in Web, Review(p) \/ Cancel(p) \/ Crash(p)
        PROVE  Counted' \subseteq Counted
    BY <1>2, <1>3, <1>4, <1>5, <2>4
       DEF Review, Cancel, Crash, ChecklistGet, Tick, ReviewLoad, ReviewDecide,
           ReviewLog, ReviewSave, CancelLoad, CancelSave
  <2>5. UNCHANGED job \/ Request
    BY DEF LNext, SellerPays, Close, lvars
  <2> QED
    BY <1>5, <2>1, <2>2, <2>3, <2>4, <2>5 DEF Request, RequestOf
<1>7. /\ Cardinality(Counted') <= Cardinality(Counted)
      /\ Cardinality(Counted') \in Nat
  <2>1. IsFiniteSet(Counted')
    BY <1>6, CountedIsFinite, FS_Subset
  <2> QED
    BY <1>6, <2>1, CountedShrinks, FS_CardinalityType
<1> QED
  BY <1>1, <1>7, CountedIsFinite, ListingAssumption DEF Explained, LTypeOK

LEMMA ImagesNext ==
  ASSUME LTypeOK, IsFiniteSet(Web), ImagesToCome, [LNext]_lvars
  PROVE  ImagesToCome'
<1>1. \E c \in had : Explained(c)'
  <2>1. PICK c \in had : Explained(c) /\ c \in Categories
    BY DEF ImagesToCome, LTypeOK
  <2> QED
    BY <2>1, CountStep, CreateStep, OtherStep
<1> QED
  BY <1>1, HadNext DEF ImagesToCome

(* However many uploads count the images before any of them is created,    *)
(* and whatever category an edit moves them to, a listing exceeds the      *)
(* limit of one of the categories it has been in by fewer images than      *)
(* there are processes.                                                    *)
THEOREM ImagesAlwaysBounded ==
  ASSUME IsFiniteSet(Web)
  PROVE  LSpec => []ImagesBounded
<1>1. LInit => ImagesToCome
  <2> SUFFICES ASSUME LInit PROVE ImagesToCome
    OBVIOUS
  <2>1. Counted = {}
    BY DEF LInit, Counted, NoJob
  <2>2. Cardinality(Counted) = 0
    BY <2>1, FS_EmptySet, Zenon
  <2>3. Cardinality(Web) \in Nat /\ Cardinality(Web) # 0
    BY FS_EmptySet, FS_CardinalityType, ListingAssumption
  <2>4. Explained(FirstCategory)
    BY <2>2, <2>3, ListingAssumption DEF LInit, Explained
  <2> QED
    BY <2>4 DEF LInit, ImagesToCome, Serving, NoJob
<1>2. LTypeOK /\ ImagesToCome /\ [LNext]_lvars => ImagesToCome'
  BY ImagesNext
<1>3. LTypeOK /\ ImagesToCome => ImagesBounded
  <2> SUFFICES ASSUME LTypeOK, ImagesToCome PROVE ImagesBounded
    OBVIOUS
  <2>1. PICK c \in had : Explained(c) /\ c \in Categories
    BY DEF ImagesToCome, LTypeOK
  <2>2. images < MaxImages[c] + Cardinality(Web)
    BY <2>1, CountedIsFinite, ListingAssumption DEF Explained, LTypeOK
  <2> QED
    BY <2>2 DEF ImagesBounded
<1> QED
  BY <1>1, <1>2, <1>3, LTypeCorrect, PTL DEF LSpec
-----------------------------------------------------------------------------
(* Requests that come one after the other, served by the process p.        *)

(* What the request of p has loaded is still so, what it has checked too,  *)
(* and what it has not yet written is known.                               *)
Alone(p) ==
  LET j == job[p] IN
  /\ j.pc = "editing" =>
       status = j.status /\ start = j.start /\ current = j.current
  /\ j.pc = "repricing" => j.asked = start
  /\ j.pc # "repricing" => current = start
  /\ j.pc \in {"editing", "repricing", "submitting", "valid", "uploading",
               "counted", "deleting"} => status \in Editable
  /\ j.pc \in {"copying", "reviewing", "decided", "logged"} => status = UnderReview
  /\ j.pc = "copying" =>
       \A i \in Assigned[category] : i \in j.todo \/ rows[i] # Absent
  /\ j.pc \in {"decided", "logged"} /\ j.decision = "approve" =>
       \A i \in Assigned[category] : rows[i] = Checked
  /\ status = UnderReview /\ j.pc # "copying" =>
       \A i \in Assigned[category] : rows[i] # Absent

(* The status and the category are still those on which the request of p   *)
(* has decided.  The rest of Alone does not outlive a death: an edit that  *)
(* dies leaves the old current price behind, a submit half a checklist.    *)
Undisturbed(p) ==
  LET j == job[p] IN
  /\ j.pc = "editing" => status = j.status
  /\ j.pc \in {"editing", "repricing", "submitting", "valid", "uploading",
               "counted", "deleting"} => status \in Editable
  /\ j.pc \in {"submitting", "valid"} => j.category = category
  /\ j.pc \in {"copying", "reviewing", "decided", "logged"} => status = UnderReview
  /\ j.pc = "cancelling" => status \in Cancellable

(* The images of a listing have been counted before it went to review, and *)
(* are left alone from then on, as is its category.                        *)
Illustrated(p) ==
  /\ job[p].pc = "valid" => images \in Allowed(category)
  /\ status \in {UnderReview, Approved, Active} => images \in Allowed(category)

(* No other process is serving a request.                                  *)
Only(p) == \A q \in Web \ {p} : job[q] = NoJob

(* A step of p, or of nobody.                                              *)
Acts(p) == RequestOf(p) \/ SellerPays(p) \/ Close \/ UNCHANGED lvars

LEMMA ItemsAssigned == ASSUME LTypeOK PROVE Assigned[category] \subseteq Items
BY ListingAssumption DEF LTypeOK
-----------------------------------------------------------------------------
(* As long as no process has died.                                         *)

LEMMA AlonePatch ==
  ASSUME LTypeOK, NEW p \in Web, Alone(p), Patch(p)
  PROVE  Alone(p)' /\ ApproveStep
<1> USE DEF Alone, Editable, Draft, UnderReview, Returned, Rejected, Approved,
            Active, Ended, Cancelled, LTypeOK, Serving, ApproveStep, price, kind
<1>1. ASSUME NEW asked \in Prices \cup {KeepPrice}, NEW c \in Categories,
             PatchLoad(p, asked, c)
      PROVE  Alone(p)' /\ UNCHANGED status
  <2>1. /\ status \in Editable
        /\ job'[p] = [pc |-> "editing", status |-> status, start |-> start,
                      current |-> current, category |-> c, asked |-> asked]
        /\ UNCHANGED <<status, start, current, category, images, rows>>
        /\ job[p].pc = "idle"
    BY <1>1 DEF PatchLoad, Begin, NoJob
  <2> QED
    BY <2>1
<1>2. CASE PatchSave(p)
  <2>1. /\ job[p].pc = "editing"
        /\ UNCHANGED <<status, current, images, rows>>
        /\ \/ job'[p].pc = "idle" /\ start' = start
           \/ job'[p].pc = "repricing" /\ start' = job'[p].asked
    BY <1>2 DEF PatchSave, End, NoJob
  <2> QED
    BY <2>1
<1>3. CASE PatchReprice(p)
  <2>1. /\ job[p].pc = "repricing" /\ job'[p].pc = "idle"
        /\ UNCHANGED <<status, start, category, images, rows>>
        /\ current' = start
    BY <1>3 DEF PatchReprice, End, NoJob
  <2> QED
    BY <2>1
<1> QED
  BY <1>1, <1>2, <1>3 DEF Patch

LEMMA AloneSubmit ==
  ASSUME LTypeOK, NEW p \in Web, Alone(p), Undisturbed(p), Submit(p) \/ Copy(p)
  PROVE  Alone(p)' /\ ApproveStep
<1> USE DEF Alone, Editable, Draft, UnderReview, Returned, Rejected, Approved,
            Active, Ended, Cancelled, LTypeOK, Serving, ApproveStep, price, kind
<1>1. CASE SubmitLoad(p)
  <2>1. /\ status \in Editable /\ job[p].pc = "idle"
        /\ job'[p].pc = "submitting"
        /\ UNCHANGED <<status, start, current, category, images, rows>>
    BY <1>1 DEF SubmitLoad, Begin, NoJob
  <2> QED
    BY <2>1
<1>2. CASE SubmitValidate(p)
  <2>1. /\ job[p].pc = "submitting"
        /\ \/ job'[p].pc = "idle"
           \/ job'[p].pc = "valid" /\ images \in Allowed(job[p].category)
        /\ UNCHANGED <<status, start, current, category, images, rows>>
    BY <1>2, JobType DEF SubmitValidate, Goto, End, NoJob, Job
  <2> QED
    BY <2>1
<1>3. CASE SubmitSave(p)
  <2>1. /\ job[p].pc = "valid"
        /\ job'[p] = [pc |-> "copying", todo |-> Assigned[category]]
        /\ status' = UnderReview
        /\ UNCHANGED <<start, current, category, images, rows>>
    BY <1>3 DEF SubmitSave, Undisturbed
  <2> QED
    BY <2>1
<1>4. ASSUME NEW i \in Items, CopyRow(p, i) PROVE Alone(p)' /\ UNCHANGED status
  <2>1. /\ job[p].pc = "copying" /\ job'[p].pc = "copying"
        /\ job'[p].todo = job[p].todo \ {i}
        /\ rows'[i] # Absent
        /\ \A k \in Items : k # i => rows'[k] = rows[k]
        /\ UNCHANGED <<status, start, current, category, images>>
    BY <1>4, JobType DEF CopyRow, NoJob, Job, Absent, Open, Checked
  <2>2. \A k \in Assigned[category] : k \in Items
    BY ItemsAssigned
  <2> QED
    BY <2>1, <2>2
<1>5. CASE CopyEnd(p)
  <2>1. /\ job[p].pc = "copying" /\ job[p].todo = {} /\ job'[p].pc = "idle"
        /\ UNCHANGED <<status, start, current, category, images, rows>>
    BY <1>5 DEF CopyEnd, End, NoJob
  <2> QED
    BY <2>1
<1> QED
  BY <1>1, <1>2, <1>3, <1>4, <1>5 DEF Submit, Copy

LEMMA AloneMedia ==
  ASSUME LTypeOK, NEW p \in Web, Alone(p), Media(p)
  PROVE  Alone(p)' /\ UNCHANGED <<status, rows>>
<1> USE DEF Alone, Editable, Draft, UnderReview, Returned, Rejected, Approved,
            Active, Ended, Cancelled, LTypeOK, Serving, price, kind
<1>1. /\ job[p].pc \in {"idle", "uploading", "counted", "deleting"}
      /\ job'[p].pc \in {"idle", "uploading", "counted", "deleting"}
      /\ status \in Editable
      /\ UNCHANGED <<status, start, current, category, rows>>
  BY JobType DEF Media, UploadLoad, UploadCount, UploadCreate, DeleteLoad,
       DeleteImage, Begin, Goto, End, NoJob, Job
<1> QED
  BY <1>1

LEMMA AloneReview ==
  ASSUME LTypeOK, NEW p \in Web, Alone(p), Review(p)
  PROVE  Alone(p)' /\ ApproveStep
<1> USE DEF Alone, Editable, Draft, UnderReview, Returned, Rejected, Approved,
            Active, Ended, Cancelled, LTypeOK, Serving, ApproveStep, price, kind
<1>1. CASE ChecklistGet(p)
  <2>1. /\ status = UnderReview /\ job[p].pc = "idle"
        /\ job'[p] = [pc |-> "copying", todo |-> Assigned[category]]
        /\ UNCHANGED <<status, start, current, category, images, rows>>
    BY <1>1 DEF ChecklistGet, Begin, NoJob
  <2> QED
    BY <2>1
<1>2. ASSUME NEW i \in Items, NEW mark \in {Open, Checked}, Tick(p, i, mark)
      PROVE  Alone(p)' /\ UNCHANGED status
  <2>1. /\ job[p].pc = "idle" /\ job'[p].pc = "idle"
        /\ rows'[i] # Absent
        /\ \A k \in Items : k # i => rows'[k] = rows[k]
        /\ UNCHANGED <<status, start, current, category, images>>
    BY <1>2 DEF Tick, NoJob, Absent, Open, Checked
  <2>2. \A k \in Assigned[category] : k \in Items
    BY ItemsAssigned
  <2> QED
    BY <2>1, <2>2
<1>3. ASSUME NEW d \in Decision, ReviewLoad(p, d)
      PROVE  Alone(p)' /\ UNCHANGED status
  <2>1. /\ status = UnderReview /\ job[p].pc = "idle"
        /\ job'[p].pc = "reviewing"
        /\ UNCHANGED <<status, start, current, category, images, rows>>
    BY <1>3 DEF ReviewLoad, Begin, NoJob
  <2> QED
    BY <2>1
<1>4. CASE ReviewDecide(p)
  <2>1. /\ job[p].pc = "reviewing"
        /\ \/ job'[p].pc = "idle"
           \/ /\ job'[p].pc = "decided" /\ job'[p].decision = job[p].decision
              /\ job[p].decision = "approve" => \A i \in Items : rows[i] # Open
        /\ UNCHANGED <<status, start, current, category, images, rows>>
    BY <1>4, JobType DEF ReviewDecide, Goto, End, NoJob, Job
  <2>2. \A k \in Assigned[category] : k \in Items
    BY ItemsAssigned
  <2> QED
    BY <2>1, <2>2
<1>5. CASE ReviewLog(p)
  <2>1. /\ job[p].pc = "decided"
        /\ job'[p].pc = "logged" /\ job'[p].decision = job[p].decision
        /\ UNCHANGED <<status, start, current, category, images, rows>>
    BY <1>5, JobType DEF ReviewLog, Goto, NoJob, Job
  <2> QED
    BY <2>1
<1>6. CASE ReviewSave(p)
  <2>1. /\ job[p].pc = "logged" /\ job'[p].pc = "idle"
        /\ job[p].decision \in Decision
        /\ status' = Outcome(job[p].decision)
        /\ UNCHANGED <<start, current, category, images, rows>>
    BY <1>6, JobType DEF ReviewSave, End, NoJob, Job
  <2>2. /\ status = UnderReview
        /\ status' \in {Approved, Rejected, Returned}
        /\ status' = Approved => job[p].decision = "approve"
    BY <2>1, OutcomeType DEF Decision
  <2> QED
    BY <2>1, <2>2
<1> QED
  BY <1>1, <1>2, <1>3, <1>4, <1>5, <1>6 DEF Review

LEMMA AloneCancel ==
  ASSUME LTypeOK, NEW p \in Web, Alone(p),
         Cancel(p) \/ SellerPays(p) \/ Close
  PROVE  Alone(p)' /\ ApproveStep
<1> USE DEF Alone, Editable, Cancellable, Draft, UnderReview, Returned, Rejected,
            Approved, Active, Ended, Cancelled, LTypeOK, Serving, ApproveStep, price, kind
<1>1. CASE CancelLoad(p)
  <2>1. /\ status \in Cancellable /\ job[p].pc = "idle"
        /\ job'[p].pc = "cancelling"
        /\ UNCHANGED <<status, start, current, category, images, rows>>
    BY <1>1 DEF CancelLoad, Begin, NoJob
  <2> QED
    BY <2>1
<1>2. CASE CancelSave(p)
  <2>1. /\ job[p].pc = "cancelling" /\ job'[p].pc = "idle"
        /\ status' = Cancelled
        /\ UNCHANGED <<start, current, category, images, rows>>
    BY <1>2 DEF CancelSave, End, NoJob
  <2> QED
    BY <2>1
<1>3. CASE SellerPays(p)
  <2>1. /\ job[p].pc = "idle" /\ job' = job
        /\ status = Approved /\ status' = Active
        /\ UNCHANGED <<start, current, category, images, rows>>
    BY <1>3 DEF SellerPays, NoJob
  <2> QED
    BY <2>1
<1>4. CASE Close
  <2>1. /\ job' = job /\ status = Active /\ status' = Ended
        /\ UNCHANGED <<start, current, category, images, rows>>
    BY <1>4 DEF Close
  <2> QED
    BY <2>1
<1> QED
  BY <1>1, <1>2, <1>3, <1>4 DEF Cancel

LEMMA AloneNext ==
  ASSUME LTypeOK, NEW p \in Web, Undisturbed(p), deaths = 0 => Alone(p), Acts(p)
  PROVE  (deaths = 0 => Alone(p))' /\ [ApproveStep]_lvars
<1> SUFFICES ASSUME deaths = 0 \/ deaths' = 0
             PROVE  (deaths' = 0 => Alone(p)') /\ [ApproveStep]_lvars
  BY DEF ApproveStep
<1>1. CASE Crash(p)
  <2>1. deaths' # 0 /\ UNCHANGED status
    BY <1>1 DEF Crash, LTypeOK
  <2> QED
    BY <2>1 DEF ApproveStep
<1>2. CASE ~Crash(p)
  <2>1. deaths = 0
    BY <1>2 DEF Acts, RequestOf, Patch, PatchLoad, PatchSave, PatchReprice, Submit,
         SubmitLoad, SubmitValidate, SubmitSave, Copy, CopyRow, CopyEnd, Media,
         UploadLoad, UploadCount, UploadCreate, DeleteLoad, DeleteImage, Review,
         ChecklistGet, Tick, ReviewLoad, ReviewDecide, ReviewLog, ReviewSave,
         Cancel, CancelLoad, CancelSave, SellerPays, Close, lvars, past
  <2>2. UNCHANGED lvars => Alone(p)'
    BY <2>1 DEF lvars, price, kind, Alone
  <2>3. UNCHANGED status => ApproveStep
    BY DEF ApproveStep
  <2> QED
    BY <1>2, <2>1, <2>2, <2>3, AlonePatch, AloneSubmit, AloneMedia, AloneReview,
       AloneCancel DEF Acts, RequestOf
<1> QED
  BY <1>1, <1>2

LEMMA AloneInit == ASSUME LInit, NEW p \in Web PROVE Alone(p)
BY DEF LInit, Alone, NoJob, Draft, UnderReview, Approved, Active
-----------------------------------------------------------------------------
(* Whether processes have died or not.                                     *)

(* A request begins with the status it needs, ...                          *)
LEMMA BeginsUndisturbed ==
  ASSUME LTypeOK, NEW p \in Web,
         \/ \E asked \in Prices \cup {KeepPrice}, c \in Categories : PatchLoad(p, asked, c)
         \/ SubmitLoad(p) \/ UploadLoad(p) \/ DeleteLoad(p) \/ ChecklistGet(p)
         \/ \E d \in Decision : ReviewLoad(p, d)
         \/ CancelLoad(p)
  PROVE  Undisturbed(p)' /\ UNCHANGED status
<1>1. /\ UNCHANGED <<status, category>>
      /\ job'[p].pc = "submitting" => job'[p].category = category
      /\ \/ /\ job'[p].pc = "editing" /\ job'[p].status = status
            /\ status \in Editable
         \/ /\ job'[p].pc \in {"submitting", "uploading", "deleting"}
            /\ status \in Editable
         \/ job'[p].pc \in {"copying", "reviewing"} /\ status = UnderReview
         \/ job'[p].pc = "cancelling" /\ status \in Cancellable
  BY DEF LTypeOK, PatchLoad, SubmitLoad, UploadLoad, DeleteLoad, ChecklistGet,
         ReviewLoad, CancelLoad, Begin, kind
<1> QED
  BY <1>1 DEF Undisturbed

(* ... goes on or ends without touching it, ...                            *)
LEMMA GoesOnUndisturbed ==
  ASSUME LTypeOK, NEW p \in Web, Undisturbed(p),
         \/ PatchReprice(p) \/ SubmitValidate(p) \/ Copy(p)
         \/ UploadCount(p) \/ UploadCreate(p) \/ DeleteImage(p)
         \/ \E i \in Items, mark \in {Open, Checked} : Tick(p, i, mark)
         \/ ReviewDecide(p) \/ ReviewLog(p) \/ Crash(p)
  PROVE  Undisturbed(p)' /\ UNCHANGED status
<1>1. /\ UNCHANGED <<status, category>>
      /\ \/ job'[p] = NoJob
         \/ /\ job[p].pc = "submitting" /\ job'[p].pc = "valid"
            /\ job'[p].category = job[p].category
         \/ job[p].pc = "uploading" /\ job'[p].pc = "counted"
         \/ job[p].pc = "copying" /\ job'[p].pc = "copying"
         \/ job[p].pc = "reviewing" /\ job'[p].pc = "decided"
         \/ job[p].pc = "decided" /\ job'[p].pc = "logged"
  BY JobType DEF LTypeOK, PatchReprice, SubmitValidate, Copy, CopyRow, CopyEnd,
         UploadCount, UploadCreate, DeleteImage, Tick, ReviewDecide, ReviewLog,
         Crash, Goto, End, Serving, NoJob, Job, kind
<1> QED
  BY <1>1 DEF Undisturbed, NoJob

(* ... and writes a status that follows it.                                *)
LEMMA WritesNext ==
  ASSUME LTypeOK, NEW p \in Web, Undisturbed(p),
         \/ PatchSave(p) \/ SubmitSave(p) \/ ReviewSave(p) \/ CancelSave(p)
         \/ SellerPays(p) \/ Close
  PROVE  Undisturbed(p)' /\ [Life!LifeNext]_status
<1> USE DEF Editable, Cancellable, Draft, UnderReview, Returned, Rejected,
            Approved, Active, Ended, Cancelled, Serving, LTypeOK, kind
<1>1. CASE PatchSave(p)
  <2>1. /\ status' = status /\ status \in Editable
        /\ job'[p].pc \in {"idle", "repricing"}
    BY <1>1 DEF PatchSave, End, NoJob, Undisturbed
  <2> QED
    BY <2>1 DEF Undisturbed
<1>2. CASE SubmitSave(p)
  <2>1. status \in Editable /\ status' = UnderReview /\ job'[p].pc = "copying"
    BY <1>2 DEF SubmitSave, Undisturbed
  <2> QED
    BY <2>1 DEF Undisturbed, Life!LifeNext, Life!Follows, Life!Editable,
                Life!Draft, Life!Returned, Life!UnderReview
<1>3. CASE ReviewSave(p)
  <2>1. /\ status = UnderReview /\ job[p].decision \in Decision
        /\ status' = Outcome(job[p].decision) /\ job'[p].pc = "idle"
    BY <1>3, JobType DEF ReviewSave, End, NoJob, Job, Undisturbed
  <2>2. status' \in {Approved, Rejected, Returned}
    BY <2>1, OutcomeType DEF Decision
  <2> QED
    BY <2>1, <2>2 DEF Undisturbed, Life!LifeNext, Life!Follows, Life!Approved,
                      Life!Rejected, Life!Returned, Life!UnderReview
<1>4. CASE CancelSave(p)
  <2>1. status \in Cancellable /\ status' = Cancelled /\ job'[p].pc = "idle"
    BY <1>4 DEF CancelSave, End, NoJob, Undisturbed
  <2> QED
    BY <2>1 DEF Undisturbed, Life!LifeNext, Life!Follows, Life!Cancellable,
                Life!Editable, Life!Draft, Life!Returned, Life!UnderReview,
                Life!Approved, Life!Cancelled
<1>5. CASE SellerPays(p)
  <2>1. /\ status = Approved /\ status' = Active
        /\ job'[p].pc = "idle"
    BY <1>5 DEF SellerPays, NoJob
  <2> QED
    BY <2>1 DEF Undisturbed, Life!LifeNext, Life!Follows, Life!Approved,
                Life!Active
<1>6. CASE Close
  <2>1. status = Active /\ status' = Ended /\ job' = job /\ category' = category
    BY <1>6 DEF Close
  <2> QED
    BY <2>1 DEF Undisturbed, Life!LifeNext, Life!Follows, Life!Ended, Life!Active
<1> QED
  BY <1>1, <1>2, <1>3, <1>4, <1>5, <1>6

LEMMA UndisturbedNext ==
  ASSUME LTypeOK, NEW p \in Web, Undisturbed(p), Acts(p)
  PROVE  Undisturbed(p)' /\ [Life!LifeNext]_status
<1>1. UNCHANGED lvars => Undisturbed(p)' /\ UNCHANGED status
  BY DEF lvars, kind, Undisturbed
<1> QED
  BY <1>1, BeginsUndisturbed, GoesOnUndisturbed, WritesNext
     DEF Acts, RequestOf, Patch, Submit, Media, Review, Cancel

LEMMA UndisturbedInit == ASSUME LInit, NEW p \in Web PROVE Undisturbed(p)
BY DEF LInit, Undisturbed, NoJob

(* What a list names can be opened, and what can be opened has its images  *)
(* and its bids.                                                           *)
LEMMA PagesAgree ==
  ASSUME LTypeOK, NEW v \in Viewer
  PROVE  /\ MediaServed(v) = InDetail(v)
         /\ status = Active /\ MayJoin(v) => InDetail(v)
         /\ ~InDetail(v) => \A mine \in BOOLEAN, wanted \in {AnyStatus, status} :
                             ~InList(v, mine, wanted)
<1> USE DEF PublicBrowse, PrePublish, AuctionStatus, Draft, UnderReview, Returned,
            Rejected, Approved, Active, Ended, Cancelled
<1>1. /\ MediaServed(v) = InDetail(v)
      /\ status = Active /\ MayJoin(v) => InDetail(v)
  BY DEF MediaServed, InDetail, LTypeOK
<1>2. ASSUME NEW mine \in BOOLEAN, NEW wanted, InList(v, mine, wanted)
      PROVE  InDetail(v)
  BY <1>2 DEF InList, InDetail
<1> QED
  BY <1>1, <1>2

(* What the public has been shown is left alone but for the close and for  *)
(* ticks on its checklist.                                                 *)
LEMMA UndisturbedShown ==
  ASSUME LTypeOK, NEW p \in Web, Undisturbed(p), Acts(p)
  PROVE  [ShownStep]_lvars
<1> SUFFICES ASSUME ~UNCHANGED lvars PROVE ShownStep
  BY DEF ShownStep
<1> USE DEF PublicBrowse, PrePublish, AuctionStatus, Draft, UnderReview, Returned,
            Rejected, Approved, Active, Ended, Cancelled
<1>1. ASSUME status \in PublicBrowse
      PROVE  status' \in PublicBrowse /\ UNCHANGED <<start, category, images>>
  <2>1. job[p] = NoJob /\ job[p].pc = "idle"
    <3>1. job[p] \in Job \cup {NoJob}
      BY DEF LTypeOK
    <3> QED
      BY <1>1, <3>1 DEF Undisturbed, Job, NoJob, Editable, Cancellable
  <2>2. ~(Patch(p) \/ Submit(p) \/ Copy(p) \/ Media(p) \/ Cancel(p) \/ Crash(p)
          \/ SellerPays(p))
    <3>1. status \notin Editable /\ status \notin Cancellable /\ status # Approved
      BY <1>1 DEF Editable, Cancellable
    <3>2. ~Patch(p) /\ ~Cancel(p)
      BY <2>1, <3>1 DEF Patch, PatchLoad, PatchSave, PatchReprice, Cancel,
                        CancelLoad, CancelSave, Serving
    <3>3. ~Submit(p) /\ ~Copy(p)
      BY <2>1, <3>1 DEF Submit, Copy, SubmitLoad, SubmitValidate, SubmitSave,
                        CopyRow, CopyEnd, Serving
    <3>4. ~Media(p)
      BY <2>1, <3>1 DEF Media, UploadLoad, UploadCount, UploadCreate, DeleteLoad,
                        DeleteImage, Serving
    <3>5. ~Crash(p)
      BY <2>1 DEF Crash
    <3>6. ~SellerPays(p)
      BY <3>1 DEF SellerPays
    <3> QED
      BY <3>2, <3>3, <3>4, <3>5, <3>6
  <2>3. Close \/ \E i \in Items, mark \in {Open, Checked} : Tick(p, i, mark)
    BY <1>1, <2>1, <2>2 DEF Acts, RequestOf, Review, ChecklistGet, ReviewLoad,
         ReviewDecide, ReviewLog, ReviewSave, Serving
  <2> QED
    BY <1>1, <2>3 DEF Close, Tick, price, kind
<1> QED
  BY <1>1, PagesAgree DEF ShownStep, InDetail
-----------------------------------------------------------------------------
LEMMA IllustratedNext ==
  ASSUME LTypeOK, NEW p \in Web, Undisturbed(p), Illustrated(p), Acts(p)
  PROVE  Illustrated(p)'
<1> USE DEF Editable, Cancellable, Draft, UnderReview, Returned, Rejected,
            Approved, Active, Ended, Cancelled, Serving, LTypeOK, kind
<1>1. CASE UploadCreate(p) \/ DeleteImage(p)
  <2>1. status \in Editable /\ UNCHANGED status /\ job'[p].pc = "idle"
    BY <1>1 DEF UploadCreate, DeleteImage, End, NoJob, Undisturbed
  <2> QED
    BY <2>1 DEF Illustrated, Allowed
<1>2. CASE SubmitValidate(p)
  <2>1. /\ UNCHANGED <<status, images, category>>
        /\ job[p].category = category
        /\ job'[p].pc = "valid" => images \in Allowed(job[p].category)
    BY <1>2 DEF SubmitValidate, Goto, End, NoJob, Undisturbed
  <2> QED
    BY <2>1 DEF Illustrated, Allowed
<1>3. CASE SubmitSave(p)
  <2>1. /\ job[p].pc = "valid" /\ job'[p].pc = "copying"
        /\ UNCHANGED <<images, category>>
    BY <1>3 DEF SubmitSave
  <2> QED
    BY <2>1 DEF Illustrated, Allowed
<1>4. CASE PatchSave(p)
  <2>1. /\ UNCHANGED <<status, images>> /\ job'[p].pc \in {"idle", "repricing"}
        /\ status \in Editable
    BY <1>4 DEF PatchSave, End, NoJob, Undisturbed
  <2> QED
    BY <2>1 DEF Illustrated, Allowed
<1>5. CASE ReviewSave(p)
  <2>1. /\ status = UnderReview /\ UNCHANGED <<images, category>>
        /\ job'[p].pc = "idle"
    BY <1>5 DEF ReviewSave, End, NoJob, Undisturbed
  <2> QED
    BY <2>1 DEF Illustrated, Allowed
<1>6. CASE CancelSave(p) \/ SellerPays(p) \/ Close
  <2>1. /\ UNCHANGED <<images, category>>
        /\ job'[p].pc = "idle" \/ job' = job
        /\ status' \in {Cancelled, Ended} \/ status = Approved
    BY <1>6 DEF CancelSave, SellerPays, Close, End, NoJob
  <2> QED
    BY <2>1 DEF Illustrated, Allowed
<1>7. CASE \/ \E asked \in Prices \cup {KeepPrice}, c \in Categories : PatchLoad(p, asked, c)
           \/ PatchReprice(p) \/ SubmitLoad(p) \/ UploadLoad(p) \/ UploadCount(p)
           \/ DeleteLoad(p) \/ Copy(p) \/ ChecklistGet(p)
           \/ \E i \in Items, mark \in {Open, Checked} : Tick(p, i, mark)
           \/ \E d \in Decision : ReviewLoad(p, d)
           \/ ReviewDecide(p) \/ ReviewLog(p) \/ CancelLoad(p) \/ Crash(p)
           \/ UNCHANGED lvars
  <2>1. /\ UNCHANGED <<status, images, category>>
        /\ job'[p].pc # "valid" \/ job' = job
    BY <1>7, JobType
       DEF PatchLoad, PatchReprice, SubmitLoad, UploadLoad, UploadCount,
           DeleteLoad, Copy, CopyRow, CopyEnd, ChecklistGet, Tick, ReviewLoad,
           ReviewDecide, ReviewLog, CancelLoad, Crash, Begin, Goto, End, NoJob,
           Job, lvars
  <2> QED
    BY <2>1 DEF Illustrated, Allowed
<1> QED
  BY <1>1, <1>2, <1>3, <1>4, <1>5, <1>6, <1>7
     DEF Acts, RequestOf, Patch, Submit, Media, Review, Cancel

-----------------------------------------------------------------------------
(* Until two requests have overlapped, one process at most is at work.     *)
Serial ==
  ~overlapped =>
    \E p \in Web : /\ Only(p) /\ Undisturbed(p) /\ Illustrated(p)
                   /\ deaths = 0 => Alone(p)

(* Whoever acts next is the one at work, or everyone is idle.              *)
LEMMA Turn ==
  ASSUME LTypeOK, NEW p \in Web, Only(p), [LNext]_lvars, ~overlapped'
  PROVE  \E r \in Web : Only(r) /\ Only(r)' /\ job[r] = job[p] /\ Acts(r)
<1>1. ASSUME NEW r \in Web, RequestOf(r)
      PROVE  /\ \A q \in Web \ {r} : job'[q] = job[q]
             /\ job[r] = NoJob => Only(r)
  <2>1. \A q \in Web \ {r} : job'[q] = job[q]
    BY <1>1 DEF RequestOf, Patch, PatchLoad, PatchSave, PatchReprice, Submit,
         SubmitLoad, SubmitValidate, SubmitSave, Copy, CopyRow, CopyEnd, Media,
         UploadLoad, UploadCount, UploadCreate, DeleteLoad, DeleteImage, Review,
         ChecklistGet, Tick, ReviewLoad, ReviewDecide, ReviewLog, ReviewSave,
         Cancel, CancelLoad, CancelSave, Crash, Begin, Goto, End, LTypeOK
  <2>2. job[r] = NoJob => Meets(r)
    BY <1>1 DEF RequestOf, Patch, PatchLoad, PatchSave, PatchReprice, Submit,
         SubmitLoad, SubmitValidate, SubmitSave, Copy, CopyRow, CopyEnd, Media,
         UploadLoad, UploadCount, UploadCreate, DeleteLoad, DeleteImage, Review,
         ChecklistGet, Tick, ReviewLoad, ReviewDecide, ReviewLog, ReviewSave,
         Cancel, CancelLoad, CancelSave, Crash, Begin, Serving, NoJob
  <2>3. Meets(r) => Only(r)
    BY DEF Meets, Only
  <2> QED
    BY <2>1, <2>2, <2>3
<1>2. ASSUME NEW r \in Web, SellerPays(r)
      PROVE  UNCHANGED job /\ job[r] = NoJob /\ Only(r)
  BY <1>2 DEF SellerPays, Meets, Only
<1>3. ASSUME NEW r \in Web, RequestOf(r)
      PROVE  Only(r) /\ Only(r)' /\ job[r] = job[p]
  BY <1>1, <1>3 DEF Only
<1>4. ASSUME NEW r \in Web, SellerPays(r)
      PROVE  Only(r) /\ Only(r)' /\ job[r] = job[p]
  BY <1>2, <1>4 DEF Only
<1>5. CASE Close \/ UNCHANGED lvars
  <2>1. UNCHANGED job
    BY <1>5 DEF Close, lvars
  <2> QED
    BY <1>5, <2>1 DEF Only, Acts
<1> QED
  BY <1>3, <1>4, <1>5 DEF LNext, Request, Acts

LEMMA SerialInit == LInit => Serial
<1> SUFFICES ASSUME LInit PROVE Serial
  OBVIOUS
<1>1. PICK p \in Web : TRUE
  BY ListingAssumption
<1>2. Only(p) /\ Illustrated(p)
  BY DEF LInit, Only, Illustrated, NoJob, Draft, UnderReview, Approved, Active
<1> QED
  BY <1>1, <1>2, AloneInit, UndisturbedInit DEF Serial

(* The overlap is not forgotten.                                           *)
LEMMA OverlapStays ==
  ASSUME LTypeOK, [LNext]_lvars, overlapped
  PROVE  overlapped'
<1>1. ASSUME NEW p \in Web, RequestOf(p) PROVE overlapped'
  BY <1>1 DEF RequestOf, Patch, PatchLoad, PatchSave, PatchReprice, Submit,
       SubmitLoad, SubmitValidate, SubmitSave, Copy, CopyRow, CopyEnd, Media,
       UploadLoad, UploadCount, UploadCreate, DeleteLoad, DeleteImage, Review,
       ChecklistGet, Tick, ReviewLoad, ReviewDecide, ReviewLog, ReviewSave,
       Cancel, CancelLoad, CancelSave, Crash, Begin, Meets, past
<1> QED
  BY <1>1 DEF LNext, Request, SellerPays, Meets, Close, lvars, past

LEMMA SerialNext ==
  ASSUME LTypeOK, Serial, [LNext]_lvars
  PROVE  Serial' /\ [ApproveStep]_lvars /\ [LifeStep]_lvars /\ [ShownStep]_lvars
<1>1. CASE overlapped'
  <2>1. Serial' /\ ApproveStep /\ LifeStep
    BY <1>1 DEF Serial, ApproveStep, LifeStep
  <2>2. ShownStep
    BY <1>1, PagesAgree DEF ShownStep
  <2> QED
    BY <2>1, <2>2
<1>2. CASE ~overlapped'
  <2>1. PICK p \in Web : /\ Only(p) /\ Undisturbed(p) /\ Illustrated(p)
                         /\ deaths = 0 => Alone(p)
    BY <1>2, OverlapStays DEF Serial
  <2>2. PICK r \in Web : Only(r) /\ Only(r)' /\ job[r] = job[p] /\ Acts(r)
    BY <1>2, <2>1, Turn
  <2>3. /\ Undisturbed(r) /\ Illustrated(r)
        /\ deaths = 0 => Alone(r)
    <3>1. Undisturbed(r) /\ Illustrated(r)
      BY <2>1, <2>2 DEF Undisturbed, Illustrated
    <3>2. Alone(p) => Alone(r)
      BY <2>2 DEF Alone
    <3> QED
      BY <2>1, <3>1, <3>2
  <2>4. Undisturbed(r)' /\ [Life!LifeNext]_status
    BY <2>2, <2>3, UndisturbedNext
  <2>5. (deaths = 0 => Alone(r))' /\ [ApproveStep]_lvars
    BY <2>2, <2>3, AloneNext
  <2>6. Illustrated(r)'
    BY <2>2, <2>3, IllustratedNext
  <2>7. [ShownStep]_lvars
    BY <2>2, <2>3, UndisturbedShown
  <2>8. Serial'
    <3>1. Only(r)' /\ Undisturbed(r)' /\ Illustrated(r)'
      BY <2>2, <2>4, <2>6
    <3>2. (deaths = 0 => Alone(r))'
      BY <2>5
    <3> QED
      BY <3>1, <3>2, Zenon DEF Serial
  <2>9. [LifeStep]_lvars
    BY <2>4 DEF LifeStep
  <2> QED
    BY <2>5, <2>7, <2>8, <2>9
<1> QED
  BY <1>1, <1>2

LEMMA AlwaysSerial == LSpec => []Serial
<1>1. LTypeOK /\ Serial /\ [LNext]_lvars => Serial'
  BY SerialNext
<1> QED
  BY <1>1, SerialInit, LTypeCorrect, PTL DEF LSpec

(* As long as requests have come one after the other and no process has    *)
(* died, what is approved has every item ticked that its category asks for.*)
THEOREM SerialApprovesChecked == LSpec => ApprovedIsChecked
<1>1. LTypeOK /\ Serial /\ [LNext]_lvars => [ApproveStep]_lvars
  BY SerialNext
<1> QED
  BY <1>1, AlwaysSerial, LTypeCorrect, PTL DEF LSpec, ApprovedIsChecked

(* As long as requests have come one after the other the status follows    *)
(* the diagram of the documentation, wherever a process dies.              *)
THEOREM SerialFollowsDiagram == LSpec => FollowsDiagram
<1>1. LTypeOK /\ Serial /\ [LNext]_lvars => [LifeStep]_lvars
  BY SerialNext
<1> QED
  BY <1>1, AlwaysSerial, LTypeCorrect, PTL DEF LSpec, FollowsDiagram

(* As long as requests have come one after the other, what the public has  *)
(* been shown stays shown and unchanged, wherever a process dies; and the  *)
(* lists, the pages, the images and the rooms always agree on who may see  *)
(* it.                                                                     *)
THEOREM SerialShowsFinal == LSpec => ShownIsFinal
<1>1. LTypeOK /\ Serial /\ [LNext]_lvars => [ShownStep]_lvars
  BY SerialNext
<1> QED
  BY <1>1, AlwaysSerial, LTypeCorrect, PTL DEF LSpec, ShownIsFinal

(* As long as requests have come one after the other a listing goes to     *)
(* review and goes live with the images its category asks for, whatever    *)
(* category it was illustrated in and wherever a process dies, and with    *)
(* its start price as current price as long as none has died.              *)
THEOREM SerialIsComplete == LSpec => []SubmittedIsComplete
<1>1. LTypeOK /\ Serial => SubmittedIsComplete
  <2> SUFFICES ASSUME LTypeOK, ~overlapped, NEW p \in Web, Undisturbed(p),
                      Illustrated(p), deaths = 0 => Alone(p),
                      status \in {UnderReview, Approved, Active}
               PROVE  images \in Allowed(category) /\ (deaths = 0 => current = start)
    BY DEF Serial, SubmittedIsComplete
  <2>1. images \in Allowed(category)
    BY DEF Illustrated
  <2>2. deaths = 0 => current = start
    BY DEF Alone, Editable, Draft, UnderReview, Returned, Approved, Active
  <2> QED
    BY <2>1, <2>2
<1> QED
  BY <1>1, AlwaysSerial, LTypeCorrect, PTL
=============================================================================
