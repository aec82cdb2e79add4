----------------------------- MODULE Lifecycle -----------------------------
(***************************************************************************)
(* The life of an auction as its seller and the staff understand it: one   *)
(* status, and what may follow what.  Requests and races do not appear.    *)
(***************************************************************************)
VARIABLE stage

Draft       == "draft"
UnderReview == "under_review"
Returned    == "returned_for_edit"
Rejected    == "rejected"
Approved    == "approved"
Active      == "active"
Ended       == "ended"
Cancelled   == "cancelled"

Editable    == {Draft, Returned}
Cancellable == Editable \cup {UnderReview, Approved}

Follows ==
  Editable \X {UnderReview}                              \* submit
    \cup {UnderReview} \X {Approved, Rejected, Returned} \* staff review
    \cup Cancellable \X {Cancelled}                      \* seller cancel
    \cup {<<Approved, Active>>}                          \* seller pays
    \cup {<<Active, Ended>>}                             \* close

LifeInit == stage = Draft

LifeNext == \E next \in {Draft, UnderReview, Returned, Rejected, Approved,
                         Active, Ended, Cancelled} :
              /\ <<stage, next>> \in Follows
              /\ stage' = next

LifeSpec == LifeInit /\ [][LifeNext]_stage
=============================================================================
