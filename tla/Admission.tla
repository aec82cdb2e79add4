----------------------------- MODULE Admission -----------------------------
(***************************************************************************)
(* What the payments of one auction promise: who is in has paid and stays  *)
(* in, and the auction goes on sale once its seller is in and it is        *)
(* approved, never otherwise.  Requests, webhooks, workers and rows do not *)
(* appear; what the listing does to the phase is its own affair, but it    *)
(* does not put an auction on sale.                                        *)
(***************************************************************************)
CONSTANTS
  Users,
  Seller

VARIABLES
  phase,   \* of the auction
  in,      \* who may take part: the seller sells, the others bid
  paid     \* whose money has come

advars == <<phase, in, paid>>

UnderReview == "under_review"
Approved    == "approved"
OnSale      == "active"
Over        == "ended"
Cancelled   == "cancelled"

AdInit ==
  /\ phase = UnderReview
  /\ in = {}
  /\ paid = {}

Pay(u) ==
  /\ paid' = paid \cup {u}
  /\ UNCHANGED <<phase, in>>

(* With the payment or after it.                                           *)
Admit(u) ==
  /\ paid' = paid \cup {u}
  /\ in' = in \cup {u}
  /\ \/ UNCHANGED phase
     \/ u = Seller /\ phase = Approved /\ phase' = OnSale

Decide ==
  /\ phase' \in {UnderReview, Approved, Cancelled, Over}
  /\ phase' = Over => phase = OnSale
  /\ UNCHANGED <<in, paid>>

AdNext == Decide \/ \E u \in Users : Pay(u) \/ Admit(u)

AdSpec == AdInit /\ [][AdNext]_advars
=============================================================================
