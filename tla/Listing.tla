------------------------------ MODULE Listing ------------------------------
(***************************************************************************)
(* A listing on its way to going live: the seller edits it, moves it to    *)
(* another category, illustrates, submits and cancels it, the staff tick   *)
(* its checklist and review it.                                            *)
(*                                                                         *)
(* Every request loads the Auction row without a lock, decides on what it  *)
(* has loaded and then saves, each save a transaction of its own: PATCH    *)
(* saves the whole row it loaded and then the current price, submit saves  *)
(* the status and then copies the checklist row by row, a review writes    *)
(* its log and then the status.  A web process serves one request at a     *)
(* time; between two of its statements others run, and it may die.         *)
(***************************************************************************)
EXTENDS Naturals, FiniteSets

CONSTANTS
  Web,          \* web processes
  Categories,   \* product categories, all of them with product settings
  FirstCategory,\* the category the draft was created in
  Items,        \* checklist items
  Assigned,     \* the active items assigned to each category
  MinImages,    \* ProductSettings.min_images_count of each category
  MaxImages,    \* ProductSettings.max_images_count of each category
  Prices,       \* start prices the seller asks for
  FirstPrice,   \* the start price the draft was created with
  KeepPrice,    \* a PATCH without start_price
  MaxCrashes    \* bound of the model: processes that die

ASSUME ListingAssumption ==
  /\ Web # {}
  /\ FirstPrice \in Prices
  /\ KeepPrice \notin Prices
  /\ FirstCategory \in Categories
  /\ Assigned \in [Categories -> SUBSET Items]
  /\ MinImages \in [Categories -> Nat]
  /\ MaxImages \in [Categories -> Nat]
  /\ MaxCrashes \in Nat

VARIABLES
  status,     \* Auction.status
  start,      \* Auction.start_price
  current,    \* Auction.current_price
  category,   \* Auction.product_category
  images,     \* number of AuctionMedia rows of type image
  rows,       \* AuctionReviewChecklist: absent, open or checked
  log,        \* decisions in AuctionReviewLog
  job,        \* the request each web process is serving
  deaths      \* processes that have died

(* What has happened, for the properties to speak of: no request reads it. *)
VARIABLES
  had,        \* the categories the listing has been in
  overlapped  \* two requests about it have been in flight at once

price == <<start, current>>
kind  == <<category, had>>
past  == <<deaths, overlapped>>
lvars == <<status, price, kind, images, rows, log, job, past>>
-----------------------------------------------------------------------------
Draft       == "draft"
UnderReview == "under_review"
Returned    == "returned_for_edit"
Rejected    == "rejected"
Approved    == "approved"
Active      == "active"
Ended       == "ended"
Cancelled   == "cancelled"
AuctionStatus ==
  {Draft, UnderReview, Returned, Rejected, Approved, Active, Ended, Cancelled}

Editable == {Draft, Returned}

(* SELLER_CANCELLABLE_STATUSES.                                            *)
Cancellable == Editable \cup {UnderReview, Approved}

Decision == {"approve", "reject", "return_for_edit"}

(* A definition named ...Mutant is what a plausible mistake would make of  *)
(* the definition that follows it; no other definition uses it.            *)
OutcomeLiveMutant(d) == CASE d = "approve" -> Active    \* nobody has paid
                          [] d = "reject"  -> Rejected
                          [] OTHER         -> Returned

Outcome(d) == CASE d = "approve" -> Approved
                [] d = "reject"  -> Rejected
                [] OTHER         -> Returned

Absent  == "absent"
Open    == "open"
Checked == "checked"

NoJob == [pc |-> "idle"]

Job ==
  [pc: {"editing"}, status: Editable, start: Prices, current: Prices,
   category: Categories, asked: Prices \cup {KeepPrice}]
    \cup [pc: {"repricing"}, asked: Prices]
    \cup [pc: {"submitting", "valid", "uploading", "counted"}, category: Categories]
    \cup [pc: {"deleting", "cancelling"}]
    \cup [pc: {"copying"}, todo: SUBSET Items]
    \cup [pc: {"reviewing", "decided", "logged"}, decision: Decision]

Serving(p, step) == job[p].pc = step

(* The request that p is served meets those of other processes.            *)
Meets(p) == overlapped' = (overlapped \/ \E q \in Web \ {p} : job[q] # NoJob)

Begin(p, request) ==
  /\ job[p] = NoJob
  /\ job' = [job EXCEPT ![p] = request]
  /\ Meets(p)

Goto(p, step)     == job' = [job EXCEPT ![p].pc = step]
End(p)            == job' = [job EXCEPT ![p] = NoJob]
-----------------------------------------------------------------------------
LInit ==
  /\ status = Draft
  /\ start = FirstPrice
  /\ current = FirstPrice
  /\ category = FirstCategory
  /\ had = {FirstCategory}
  /\ images = 0
  /\ rows = [i \in Items |-> Absent]
  /\ log = {}
  /\ job = [p \in Web |-> NoJob]
  /\ deaths = 0
  /\ overlapped = FALSE
-----------------------------------------------------------------------------
(* PATCH /auctions/{id}/: the instance loaded is saved whole, in category  *)
(* c, the one it had or another, whatever images it has; a new start price *)
(* is copied to the current price by a second save.                        *)
PatchLoad(p, asked, c) ==
  /\ status \in Editable
  /\ Begin(p, [pc |-> "editing", status |-> status, start |-> start,
               current |-> current, category |-> c, asked |-> asked])
  /\ UNCHANGED <<status, price, kind, images, rows, log, deaths>>

Move(c) == category' = c /\ had' = had \cup {c}

PatchSaveMutant(p) ==               \* the current price is left behind
  /\ Serving(p, "editing")
  /\ status' = job[p].status
  /\ current' = job[p].current
  /\ Move(job[p].category)
  /\ start' = IF job[p].asked = KeepPrice THEN job[p].start ELSE job[p].asked
  /\ End(p)
  /\ UNCHANGED <<images, rows, log, past>>

PatchSave(p) ==
  /\ Serving(p, "editing")
  /\ status' = job[p].status
  /\ current' = job[p].current
  /\ Move(job[p].category)
  /\ IF job[p].asked = KeepPrice
     THEN start' = job[p].start /\ End(p)
     ELSE /\ start' = job[p].asked
          /\ job' = [job EXCEPT ![p] = [pc |-> "repricing", asked |-> job[p].asked]]
  /\ UNCHANGED <<images, rows, log, past>>

PatchReprice(p) ==
  /\ Serving(p, "repricing")
  /\ current' = job[p].asked
  /\ End(p)
  /\ UNCHANGED <<status, start, kind, images, rows, log, past>>
-----------------------------------------------------------------------------
(* POST .../submit/: only here are the images counted against the category. *)
Allowed(c) == MinImages[c] .. MaxImages[c]

SubmitLoad(p) ==
  /\ status \in Editable
  /\ Begin(p, [pc |-> "submitting", category |-> category])
  /\ UNCHANGED <<status, price, kind, images, rows, log, deaths>>

SubmitValidateMutant(p) ==          \* media not required, as for a PATCH
  /\ Serving(p, "submitting")
  /\ Goto(p, "valid")
  /\ UNCHANGED <<status, price, kind, images, rows, log, past>>

SubmitValidate(p) ==
  /\ Serving(p, "submitting")
  /\ IF images \in Allowed(job[p].category) THEN Goto(p, "valid") ELSE End(p)
  /\ UNCHANGED <<status, price, kind, images, rows, log, past>>

SubmitSave(p) ==
  /\ Serving(p, "valid")
  /\ status' = UnderReview
  /\ job' = [job EXCEPT ![p] = [pc |-> "copying", todo |-> Assigned[job[p].category]]]
  /\ UNCHANGED <<price, kind, images, rows, log, past>>

CopyRowMutant(p, i) ==              \* update_or_create
  /\ Serving(p, "copying")
  /\ i \in job[p].todo
  /\ rows' = [rows EXCEPT ![i] = Open]
  /\ job' = [job EXCEPT ![p].todo = @ \ {i}]
  /\ UNCHANGED <<status, price, kind, images, log, past>>

(* ensure_auction_review_checklist: get_or_create for each item.           *)
CopyRow(p, i) ==
  /\ Serving(p, "copying")
  /\ i \in job[p].todo
  /\ rows' = [rows EXCEPT ![i] = IF @ = Absent THEN Open ELSE @]
  /\ job' = [job EXCEPT ![p].todo = @ \ {i}]
  /\ UNCHANGED <<status, price, kind, images, log, past>>

CopyEnd(p) ==
  /\ Serving(p, "copying")
  /\ job[p].todo = {}
  /\ End(p)
  /\ UNCHANGED <<status, price, kind, images, rows, log, past>>
-----------------------------------------------------------------------------
(* Images are added and removed while the listing is editable.             *)
UploadLoad(p) ==
  /\ status \in Editable
  /\ Begin(p, [pc |-> "uploading", category |-> category])
  /\ UNCHANGED <<status, price, kind, images, rows, log, deaths>>

UploadCountMutant(p) ==             \* one too many
  /\ Serving(p, "uploading")
  /\ IF images <= MaxImages[job[p].category] THEN Goto(p, "counted") ELSE End(p)
  /\ UNCHANGED <<status, price, kind, images, rows, log, past>>

UploadCount(p) ==
  /\ Serving(p, "uploading")
  /\ IF images < MaxImages[job[p].category] THEN Goto(p, "counted") ELSE End(p)
  /\ UNCHANGED <<status, price, kind, images, rows, log, past>>

UploadCreate(p) ==
  /\ Serving(p, "counted")
  /\ images' = images + 1
  /\ End(p)
  /\ UNCHANGED <<status, price, kind, rows, log, past>>

DeleteLoad(p) ==
  /\ status \in Editable
  /\ images > 0
  /\ Begin(p, [pc |-> "deleting"])
  /\ UNCHANGED <<status, price, kind, images, rows, log, deaths>>

DeleteImage(p) ==
  /\ Serving(p, "deleting")
  /\ images' = IF images > 0 THEN images - 1 ELSE 0
  /\ End(p)
  /\ UNCHANGED <<status, price, kind, rows, log, past>>
-----------------------------------------------------------------------------
(* The staff: GET and PATCH .../review-checklist/, POST .../staff/review/. *)
ChecklistGet(p) ==
  /\ status = UnderReview
  /\ Begin(p, [pc |-> "copying", todo |-> Assigned[category]])
  /\ UNCHANGED <<status, price, kind, images, rows, log, deaths>>

(* Whatever the status of the auction.  One UPDATE of one row.             *)
Tick(p, i, mark) ==
  /\ job[p] = NoJob
  /\ rows[i] # Absent
  /\ rows' = [rows EXCEPT ![i] = mark]
  /\ Meets(p)
  /\ UNCHANGED <<status, price, kind, images, log, job, deaths>>

ReviewLoad(p, d) ==
  /\ status = UnderReview
  /\ Begin(p, [pc |-> "reviewing", decision |-> d])
  /\ UNCHANGED <<status, price, kind, images, rows, log, deaths>>

ReviewDecideMutant(p) ==            \* any() for all()
  /\ Serving(p, "reviewing")
  /\ IF job[p].decision = "approve" /\ \A i \in Items : rows[i] = Open
     THEN End(p)
     ELSE Goto(p, "decided")
  /\ UNCHANGED <<status, price, kind, images, rows, log, past>>

(* An approval needs every row there is to be checked.                     *)
ReviewDecide(p) ==
  /\ Serving(p, "reviewing")
  /\ IF job[p].decision = "approve" /\ \E i \in Items : rows[i] = Open
     THEN End(p)
     ELSE Goto(p, "decided")
  /\ UNCHANGED <<status, price, kind, images, rows, log, past>>

ReviewLogMutant(p) ==               \* the log is left for later
  /\ Serving(p, "decided")
  /\ Goto(p, "logged")
  /\ UNCHANGED <<status, price, kind, images, rows, log, past>>

ReviewLog(p) ==
  /\ Serving(p, "decided")
  /\ log' = log \cup {job[p].decision}
  /\ Goto(p, "logged")
  /\ UNCHANGED <<status, price, kind, images, rows, past>>

ReviewSave(p) ==
  /\ Serving(p, "logged")
  /\ status' = Outcome(job[p].decision)
  /\ End(p)
  /\ UNCHANGED <<price, kind, images, rows, log, past>>
-----------------------------------------------------------------------------
(* POST .../cancel/ by the seller.                                         *)
CancelLoadMutant(p) ==              \* whatever the status
  /\ Begin(p, [pc |-> "cancelling"])
  /\ UNCHANGED <<status, price, kind, images, rows, log, deaths>>

CancelLoad(p) ==
  /\ status \in Cancellable
  /\ Begin(p, [pc |-> "cancelling"])
  /\ UNCHANGED <<status, price, kind, images, rows, log, deaths>>

CancelSave(p) ==
  /\ Serving(p, "cancelling")
  /\ status' = Cancelled
  /\ End(p)
  /\ UNCHANGED <<price, kind, images, rows, log, past>>
-----------------------------------------------------------------------------
Crash(p) ==
  /\ job[p] # NoJob
  /\ deaths < MaxCrashes
  /\ deaths' = deaths + 1
  /\ End(p)
  /\ UNCHANGED <<status, price, kind, images, rows, log, overlapped>>

(* mark_paid by the seller, one transaction of a web process that holds    *)
(* the row lock from its check of the status to its commit.                *)
SellerPays(p) ==
  /\ job[p] = NoJob
  /\ status = Approved
  /\ status' = Active
  /\ Meets(p)
  /\ UNCHANGED <<price, kind, images, rows, log, job, deaths>>

(* The sweep, at the end of a live auction.                                *)
Close ==
  /\ status = Active
  /\ status' = Ended
  /\ UNCHANGED <<price, kind, images, rows, log, job, past>>
-----------------------------------------------------------------------------
Patch(p) ==
  \/ \E asked \in Prices \cup {KeepPrice}, c \in Categories : PatchLoad(p, asked, c)
  \/ PatchSave(p)
  \/ PatchReprice(p)

Submit(p) == SubmitLoad(p) \/ SubmitValidate(p) \/ SubmitSave(p)

Copy(p) == (\E i \in Items : CopyRow(p, i)) \/ CopyEnd(p)

Media(p) ==
  \/ UploadLoad(p) \/ UploadCount(p) \/ UploadCreate(p)
  \/ DeleteLoad(p) \/ DeleteImage(p)

Review(p) ==
  \/ ChecklistGet(p)
  \/ \E i \in Items, mark \in {Open, Checked} : Tick(p, i, mark)
  \/ \E d \in Decision : ReviewLoad(p, d)
  \/ ReviewDecide(p) \/ ReviewLog(p) \/ ReviewSave(p)

Cancel(p) == CancelLoad(p) \/ CancelSave(p)

(* The requests about the listing itself.                                  *)
RequestOf(p) ==
  \/ Patch(p) \/ Submit(p) \/ Copy(p) \/ Media(p)
  \/ Review(p) \/ Cancel(p) \/ Crash(p)

Request == \E p \in Web : RequestOf(p)

LNext == Request \/ (\E p \in Web : SellerPays(p)) \/ Close

LSpec == LInit /\ [][LNext]_lvars
-----------------------------------------------------------------------------
(* What is shown to whom.  The seller is one user, every other user who is *)
(* not staff is another.                                                   *)
Viewer == {"guest", "other", "seller", "staff"}

AnyStatus == "any"      \* a list without ?status=

PublicBrowseMutant ==   \* a preview of what is under review
  {Active, Ended, Cancelled, UnderReview}

PublicBrowse == {Active, Ended, Cancelled}

PrePublish == {Draft, UnderReview, Returned, Rejected, Approved}

(* _apply_status_filter.                                                   *)
Matches(wanted, allowAny) ==
  \/ wanted = AnyStatus
  \/ wanted = status /\ (allowAny \/ wanted \in PublicBrowse)

(* The list, with ?mine=1 only one's own.                                  *)
InList(viewer, mine, wanted) ==
  \/ mine /\ viewer = "seller" /\ Matches(wanted, TRUE)
  \/ ~mine /\ viewer = "staff" /\ Matches(wanted, TRUE)
  \/ ~mine /\ viewer # "staff" /\ Matches(wanted, FALSE) /\ status \in PublicBrowse

(* A page of the auction.                                                  *)
InDetail(viewer) == status \in PublicBrowse \/ viewer \in {"seller", "staff"}

(* The bytes of an image.                                                  *)
MediaServed(viewer) ==
  \/ status \in PublicBrowse
  \/ status \in PrePublish /\ viewer \in {"seller", "staff"}

(* The WebSocket on which its bids are announced.                          *)
MayJoin(viewer) == viewer # "guest" /\ status # Cancelled
-----------------------------------------------------------------------------
LTypeOK ==
  /\ status \in AuctionStatus
  /\ start \in Prices
  /\ current \in Prices
  /\ category \in Categories
  /\ had \subseteq Categories
  /\ images \in Nat
  /\ rows \in [Items -> {Absent, Open, Checked}]
  /\ log \subseteq Decision
  /\ job \in [Web -> Job \cup {NoJob}]
  /\ deaths \in 0 .. MaxCrashes
  /\ overlapped \in BOOLEAN
-----------------------------------------------------------------------------
(* However requests interleave.                                            *)

(* What only a reviewer may bring about has been decided by one: whichever *)
(* stale instance is saved last, no listing is for sale, rejected or       *)
(* returned without that decision in the review log.                       *)
DecisionsAreLogged ==
  /\ status \in {Approved, Active, Ended} => "approve" \in log
  /\ status = Rejected => "reject" \in log
  /\ status = Returned => "return_for_edit" \in log

(* Uploads that count at the same time overshoot the category's limit, but *)
(* by no more than one image each; and although a PATCH takes the images   *)
(* into a category that allows fewer, there are never more than one of the *)
(* categories the listing has been in explains.                            *)
ImagesBounded ==
  \E c \in had : images < MaxImages[c] + Cardinality(Web)

(* A copy of the checklist, also one that runs beside the reviewer, does   *)
(* not undo a tick.                                                        *)
TicksStep ==
  \A i \in Items :
    rows[i] # Absent =>
      rows'[i] = rows[i] \/ \E p \in Web : Tick(p, i, rows'[i])

TicksAreKept == [][TicksStep]_lvars
-----------------------------------------------------------------------------
(* As long as requests have come one after the other.                      *)

(* Wherever a process dies, the status changes only as the life of an      *)
(* auction allows.                                                         *)
Life == INSTANCE Lifecycle WITH stage <- status

LifeStep == ~overlapped' => Life!LifeNext \/ UNCHANGED status

FollowsDiagram == [][LifeStep]_lvars

(* If none has died either, an approval is of a complete checklist, every  *)
(* item of the category it is approved in: a submit that dies may leave    *)
(* half of it.                                                             *)
ApproveStep ==
  ~overlapped' /\ deaths = 0 /\ status # Approved /\ status' = Approved =>
    \A i \in Assigned[category] : rows[i] = Checked

ApprovedIsChecked == [][ApproveStep]_lvars

(* A listing goes to review and goes live with the images the category it  *)
(* is then in asks for, whichever it was illustrated for, and, if no       *)
(* process has died, with its start price as current price, although an    *)
(* edit writes them one after the other.                                   *)
SubmittedIsComplete ==
  ~overlapped /\ status \in {UnderReview, Approved, Active} =>
    /\ images \in Allowed(category)
    /\ deaths = 0 => current = start

(* What the public has been shown stays shown, with the category, price    *)
(* and images it was shown with.  And its pages agree, however requests    *)
(* interleave: what a list names can be opened, what can be opened comes   *)
(* with its images, and nobody hears the bids of a live auction who could  *)
(* not open its page.                                                      *)
ShownStep ==
  /\ ~overlapped' /\ InDetail("guest") =>
       InDetail("guest")' /\ UNCHANGED <<start, category, images>>
  /\ \A v \in Viewer :
       /\ MediaServed(v) = InDetail(v)
       /\ status = Active /\ MayJoin(v) => InDetail(v)
       /\ ~InDetail(v) =>
            \A mine \in BOOLEAN, wanted \in {AnyStatus, status} :
              ~InList(v, mine, wanted)

ShownIsFinal == [][ShownStep]_lvars
=============================================================================
