--------------------------- MODULE EnglishAuction ---------------------------
(***************************************************************************)
(* What a live auction promises to those who watch it: while it is open,   *)
(* calls are made one after the other, each at least MinIncrement above    *)
(* the price and strictly above it; once the hammer has fallen nothing is  *)
(* called any more.  Workers, locks, clocks and shadow bids do not appear. *)
(***************************************************************************)
EXTENDS Integers, Sequences

CONSTANTS
  Bidders,        \* who may call
  Amounts,        \* what may be called
  StartPrice,
  MinIncrement

VARIABLES
  open,           \* the hammer has not fallen
  calls           \* the public calls, oldest first

avars == <<open, calls>>

CallPrice == IF calls = <<>> THEN StartPrice ELSE calls[Len(calls)].amount

AInit ==
  /\ open = TRUE
  /\ calls = <<>>

Raise(b, a) ==
  /\ open
  /\ a > CallPrice
  /\ a - CallPrice >= MinIncrement
  /\ calls' = Append(calls, [bidder |-> b, amount |-> a])
  /\ UNCHANGED open

Hammer ==
  /\ open
  /\ open' = FALSE
  /\ UNCHANGED calls

ANext == Hammer \/ \E b \in Bidders, a \in Amounts : Raise(b, a)

ASpec == AInit /\ [][ANext]_avars
=============================================================================
