---------------------------- MODULE Registration ----------------------------
(***************************************************************************)
(* One-time codes and what they are good for: to register with a phone or  *)
(* an e-mail address, to mark the address of an account as verified, and   *)
(* to set a new password.                                                  *)
(*                                                                         *)
(*   request    checks the rate, queues a Celery task                      *)
(*   delivery   inserts the row of the code, then sends it; retried        *)
(*   verify     loads the newest open code, saves verified_at, then a flag *)
(*   register   checks the verifications, checks them again, inserts the   *)
(*              user, then consumes one verification of each address       *)
(*   reset      loads the newest open code, saves it, saves the password   *)
(*   edits      of staff or of the user: load a user, save all columns     *)
(*   cleanup    deletes the rows whose code has expired                    *)
(*                                                                         *)
(* No request runs in a transaction: each write is an action, and so is    *)
(* each check, whose reads are taken together.  Addresses are taken as     *)
(* normalized, no two codes are equal, and users are not deleted.          *)
(***************************************************************************)
EXTENDS Naturals, Sequences, FiniteSets

CONSTANTS
  Users,       \* accounts that may come to exist
  NoUser,      \* NULL in the column user of a code
  Phones, Emails,
  Web,         \* web processes
  Deliveries,  \* tasks in the broker or at a worker, at one time
  Ttl,         \* OTP_TTL_MINUTES
  MaxAge,      \* REGISTRATION_OTP_MAX_AGE_MINUTES
  Window,      \* OTP_RATE_LIMIT_WINDOW_MINUTES
  Limit,       \* OTP_RATE_LIMIT_MAX
  Retries,     \* max_retries of the delivery
  MaxRows,     \* bound of the model: codes that are asked for and made
  MaxTime      \* bound of the model

ASSUME RegistrationAssumption ==
  /\ NoUser \notin Users
  /\ Phones \cap Emails = {}
  /\ {Ttl, MaxAge, Window, Limit, Retries, MaxRows, MaxTime} \subseteq Nat

VARIABLES
  clock,
  otp,       \* the table otp_verifications, in the order of created_at
  account,   \* the table users
  web,       \* the request each web process is serving
  job        \* dispatch_otp_delivery

rvars == <<clock, otp, account, web, job>>
-----------------------------------------------------------------------------
Dests == Phones \cup Emails

ToRegister == "register"
ToReset    == "login_reset"
ToVerify   == "verify"       \* verify_phone and verify_email are treated alike
Purposes   == {ToRegister, ToReset, ToVerify}

Kinds   == {"phone", "email"}
Kind(d) == IF d \in Phones THEN "phone" ELSE "email"

(* The addresses of an account: at most one of each kind.                  *)
Addresses == {a \in SUBSET Dests : \A d, e \in a : Kind(d) = Kind(e) => d = e}

NotYet == 0
Row == [dest: Dests, purpose: Purposes, user: Users \cup {NoUser}, made: Nat,
        verified: Nat, sent: BOOLEAN, gone: BOOLEAN]

(* born: the addresses given at registration.  password: the code it was   *)
(* last reset with, 0 if never.                                            *)
NoAccount == [blocked |-> TRUE]
Account == [owns: Addresses, born: Addresses, flags: SUBSET Kinds,
            blocked: BOOLEAN, password: Nat]

Idle == [pc |-> "idle"]
Request ==
       [pc: {"ask"}, user: Users \cup {NoUser}, dest: Dests, purpose: Purposes]
  \cup [pc: {"entered", "flag", "confirmed", "resetting"}, row: Nat]
  \cup [pc: {"valid"}, gives: Addresses]
  \cup [pc: {"flagged"}, gives: Addresses, flags: SUBSET Kinds]
  \cup [pc: {"consume"}, user: Users, left: Addresses]
  \cup [pc: {"consuming"}, user: Users, left: Addresses, row: Nat]
  \cup [pc: {"edit"}, user: Users, copy: Account]

Job == [pc: {"queued", "made"}, user: Users \cup {NoUser}, dest: Dests,
        purpose: Purposes, row: Nat, tries: Nat]

At(p, step) == web[p].pc = step
Goto(p, r)  == web' = [web EXCEPT ![p] = r]
Finish(p)   == Goto(p, Idle)
-----------------------------------------------------------------------------
Exists(u)    == account[u] # NoAccount
Usable(u)    == Exists(u) /\ ~account[u].blocked
Owner(u, d)  == Exists(u) /\ d \in account[u].owns
Registered(d) == \E u \in Users : Owner(u, d)

InTable(i) == i \in DOMAIN otp /\ ~otp[i].gone

(* The verifications that allow to register with an address.               *)
ValidMutant(d) ==                   \* the age of the code, not of its proof
  {i \in DOMAIN otp :
     /\ InTable(i) /\ otp[i].dest = d /\ otp[i].purpose = ToRegister
     /\ otp[i].user = NoUser
     /\ otp[i].made + MaxAge >= clock}

Valid(d) ==
  {i \in DOMAIN otp :
     /\ InTable(i) /\ otp[i].dest = d /\ otp[i].purpose = ToRegister
     /\ otp[i].user = NoUser
     /\ otp[i].verified # NotYet /\ otp[i].verified + MaxAge >= clock}

Requested(d, purpose) ==
  {i \in DOMAIN otp : InTable(i) /\ otp[i].dest = d /\ otp[i].purpose = purpose}

RateAllows(d, purpose) ==
  Cardinality({i \in Requested(d, purpose) : otp[i].made + Window >= clock}) < Limit

(* Only the newest code that is still open is compared with what was       *)
(* entered.  It is right if it has arrived, and must be in time.           *)
Newest(i, d, purpose) ==
  /\ i \in Requested(d, purpose)
  /\ otp[i].verified = NotYet
  /\ \A j \in Requested(d, purpose) : otp[j].verified = NotYet => j <= i

Opens(i, d, purpose) ==
  /\ Newest(i, d, purpose)
  /\ otp[i].sent
  /\ otp[i].made + Ttl >= clock
-----------------------------------------------------------------------------
(* Some accounts were made in Django's admin or at the command line.       *)
MadeByStaff == {[owns |-> a, born |-> {}, flags |-> {}, blocked |-> FALSE,
                 password |-> 0] : a \in Addresses}

RInit ==
  /\ clock = 1
  /\ otp = << >>
  /\ account \in [Users -> MadeByStaff \cup {NoAccount}]
  /\ web = [p \in Web |-> Idle]
  /\ job = [j \in Deliveries |-> Idle]

Tick ==
  /\ clock < MaxTime
  /\ clock' = clock + 1
  /\ UNCHANGED <<otp, account, web, job>>
-----------------------------------------------------------------------------
(* Requests for a code, without a token only to register.  A request to    *)
(* reset a password finds the user by the address, instead of by a token.  *)
Asker(who, purpose) ==
  \/ who \in Users /\ Usable(who)
  \/ who = NoUser /\ purpose = ToRegister

AskCheck(p, who, d, purpose) ==
  /\ web[p] = Idle
  /\ Len(otp) < MaxRows
  /\ Asker(who, purpose)
  /\ purpose = ToRegister => ~Registered(d)
  /\ RateAllows(d, purpose)
  /\ Goto(p, [pc |-> "ask", user |-> who, dest |-> d, purpose |-> purpose])
  /\ UNCHANGED <<clock, otp, account, job>>

AskQueue(p, j) ==
  /\ At(p, "ask")
  /\ job[j] = Idle
  /\ job' = [job EXCEPT ![j] =
       [pc |-> "queued", user |-> web[p].user, dest |-> web[p].dest,
        purpose |-> web[p].purpose, row |-> 0, tries |-> Retries]]
  /\ Finish(p)
  /\ UNCHANGED <<clock, otp, account>>

(* dispatch_otp_delivery.  A code may get lost or arrive; an SMS gateway   *)
(* that fails, or only seems to, makes Celery run the task again.          *)
DeliveryMake(j) ==
  /\ job[j].pc = "queued"
  /\ Len(otp) < MaxRows
  /\ otp' = Append(otp,
       [dest |-> job[j].dest, purpose |-> job[j].purpose, user |-> job[j].user,
        made |-> clock, verified |-> NotYet, sent |-> FALSE, gone |-> FALSE])
  /\ job' = [job EXCEPT ![j].pc = "made", ![j].row = Len(otp) + 1]
  /\ UNCHANGED <<clock, account, web>>

DeliverySend(j) ==
  /\ job[j].pc = "made"
  /\ \E arrives \in BOOLEAN :
       otp' = [otp EXCEPT ![job[j].row].sent = @ \/ arrives]
  /\ \/ job' = [job EXCEPT ![j] = Idle]
     \/ /\ job[j].dest \in Phones
        /\ job[j].tries > 0
        /\ job' = [job EXCEPT ![j].pc = "queued", ![j].row = 0, ![j].tries = @ - 1]
  /\ UNCHANGED <<clock, account, web>>

DeliveryDies(j) ==
  /\ job[j] # Idle
  /\ job' = [job EXCEPT ![j] = Idle]
  /\ UNCHANGED <<clock, otp, account, web>>

Delivery(j) == DeliveryMake(j) \/ DeliverySend(j) \/ DeliveryDies(j)

(* cleanup_expired_otps, every five minutes.                               *)
Cleanup ==
  /\ \E i \in DOMAIN otp : InTable(i) /\ otp[i].made + Ttl < clock
  /\ otp' = [i \in DOMAIN otp |->
       [otp[i] EXCEPT !.gone = @ \/ otp[i].made + Ttl < clock]]
  /\ UNCHANGED <<clock, account, web, job>>
-----------------------------------------------------------------------------
(* POST /auth/otp/verify/.  The save of a row that is gone raises.         *)
VerifyEnter(p, i) ==
  /\ web[p] = Idle
  /\ \E d \in Dests, purpose \in Purposes : Opens(i, d, purpose)
  /\ Goto(p, [pc |-> "entered", row |-> i])
  /\ UNCHANGED <<clock, otp, account, job>>

VerifySaveMutant(p) ==              \* save() of the row as it was loaded
  /\ At(p, "entered")
  /\ LET i == web[p].row IN
     /\ otp' = [otp EXCEPT ![i].verified = clock, ![i].gone = FALSE,
                           ![i].user = IF otp[i].purpose = ToRegister THEN NoUser ELSE @]
     /\ IF otp[i].purpose = ToVerify
        THEN Goto(p, [pc |-> "flag", row |-> i])
        ELSE Finish(p)
  /\ UNCHANGED <<clock, account, job>>

VerifySave(p) ==
  /\ At(p, "entered")
  /\ LET i == web[p].row IN
     IF InTable(i)
     THEN /\ otp' = [otp EXCEPT ![i].verified = clock]
          /\ IF otp[i].purpose = ToVerify
             THEN Goto(p, [pc |-> "flag", row |-> i])
             ELSE Finish(p)
     ELSE UNCHANGED otp /\ Finish(p)
  /\ UNCHANGED <<clock, account, job>>

VerifyFlagMutant(p) ==              \* both flags
  /\ At(p, "flag")
  /\ account' = [account EXCEPT ![otp[web[p].row].user].flags = Kinds]
  /\ Finish(p)
  /\ UNCHANGED <<clock, otp, job>>

VerifyFlag(p) ==
  /\ At(p, "flag")
  /\ LET row == otp[web[p].row] IN
     account' = [account EXCEPT ![row.user].flags = @ \cup {Kind(row.dest)}]
  /\ Finish(p)
  /\ UNCHANGED <<clock, otp, job>>

Verify(p) == (\E i \in DOMAIN otp : VerifyEnter(p, i)) \/ VerifySave(p) \/ VerifyFlag(p)
-----------------------------------------------------------------------------
(* POST /auth/register/.                                                   *)
RegisterCheck(p, gives) ==
  /\ web[p] = Idle
  /\ \A d \in gives : ~Registered(d) /\ Valid(d) # {}
  /\ Goto(p, [pc |-> "valid", gives |-> gives])
  /\ UNCHANGED <<clock, otp, account, job>>

RegisterFlags(p) ==
  /\ At(p, "valid")
  /\ Goto(p, [pc |-> "flagged", gives |-> web[p].gives,
              flags |-> {Kind(d) : d \in {e \in web[p].gives : Valid(e) # {}}}])
  /\ UNCHANGED <<clock, otp, account, job>>

RegisterInsert(p, u) ==
  /\ At(p, "flagged")
  /\ ~Exists(u)
  /\ account' = [account EXCEPT ![u] =
       [owns |-> web[p].gives, born |-> web[p].gives, flags |-> web[p].flags,
        blocked |-> FALSE, password |-> 0]]
  /\ Goto(p, [pc |-> "consume", user |-> u, left |-> web[p].gives])
  /\ UNCHANGED <<clock, otp, job>>

(* consume_registration_verification: the phone first, then the e-mail.    *)
Turn(left, d) == d \in left /\ (d \in Phones \/ left \cap Phones = {})

RegisterLatest(p) ==
  /\ At(p, "consume")
  /\ \/ web[p].left = {} /\ Finish(p)
     \/ \E d \in Dests :
          /\ Turn(web[p].left, d)
          /\ \/ /\ Valid(d) = {}
                /\ Goto(p, [pc |-> "consume", user |-> web[p].user,
                              left |-> web[p].left \ {d}])
             \/ \E i \in Valid(d) :
                  /\ \A k \in Valid(d) : otp[k].verified <= otp[i].verified
                  /\ Goto(p, [pc |-> "consuming", user |-> web[p].user,
                              left |-> web[p].left \ {d}, row |-> i])
  /\ UNCHANGED <<clock, otp, account, job>>

RegisterConsume(p) ==
  /\ At(p, "consuming")
  /\ IF InTable(web[p].row)
     THEN /\ otp' = [otp EXCEPT ![web[p].row].user = web[p].user]
          /\ Goto(p, [pc |-> "consume", user |-> web[p].user, left |-> web[p].left])
     ELSE UNCHANGED otp /\ Finish(p)
  /\ UNCHANGED <<clock, account, job>>

Register(p) ==
  \/ \E gives \in Addresses : RegisterCheck(p, gives)
  \/ RegisterFlags(p)
  \/ \E u \in Users : RegisterInsert(p, u)
  \/ RegisterLatest(p)
  \/ RegisterConsume(p)
-----------------------------------------------------------------------------
(* POST /auth/password/reset/confirm/.                                     *)
ResetEnterMutant(p, i) ==           \* the code of any purpose
  /\ web[p] = Idle
  /\ \E d \in Dests, purpose \in Purposes : Opens(i, d, purpose)
  /\ otp[i].user # NoUser /\ Usable(otp[i].user)
  /\ Goto(p, [pc |-> "confirmed", row |-> i])
  /\ UNCHANGED <<clock, otp, account, job>>

ResetEnter(p, i) ==
  /\ web[p] = Idle
  /\ \E d \in Dests : Opens(i, d, ToReset)
  /\ Usable(otp[i].user)
  /\ Goto(p, [pc |-> "confirmed", row |-> i])
  /\ UNCHANGED <<clock, otp, account, job>>

ResetSpend(p) ==
  /\ At(p, "confirmed")
  /\ IF InTable(web[p].row)
     THEN /\ otp' = [otp EXCEPT ![web[p].row].verified = clock]
          /\ Goto(p, [pc |-> "resetting", row |-> web[p].row])
     ELSE UNCHANGED otp /\ Finish(p)
  /\ UNCHANGED <<clock, account, job>>

ResetSetMutant(p) ==                \* save() of the user as it was loaded
  /\ At(p, "resetting")
  /\ account' = [account EXCEPT ![otp[web[p].row].user].password = web[p].row,
                                ![otp[web[p].row].user].blocked = FALSE]
  /\ Finish(p)
  /\ UNCHANGED <<clock, otp, job>>

ResetSet(p) ==
  /\ At(p, "resetting")
  /\ account' = [account EXCEPT ![otp[web[p].row].user].password = web[p].row]
  /\ Finish(p)
  /\ UNCHANGED <<clock, otp, job>>

Reset(p) == (\E i \in DOMAIN otp : ResetEnter(p, i)) \/ ResetSpend(p) \/ ResetSet(p)
-----------------------------------------------------------------------------
(* PATCH of a user, by staff or by the user: all columns are written back. *)
EditLoad(p, u) ==
  /\ web[p] = Idle
  /\ Exists(u)
  /\ Goto(p, [pc |-> "edit", user |-> u, copy |-> account[u]])
  /\ UNCHANGED <<clock, otp, account, job>>

EditSave(p, owns, blocked) ==
  /\ At(p, "edit")
  /\ account' = [account EXCEPT ![web[p].user] =
       [web[p].copy EXCEPT !.owns = owns, !.blocked = blocked]]
  /\ Finish(p)
  /\ UNCHANGED <<clock, otp, job>>

Edit(p) ==
  \/ \E u \in Users : EditLoad(p, u)
  \/ \E owns \in Addresses, blocked \in BOOLEAN : EditSave(p, owns, blocked)

WebDies(p) ==
  /\ web[p] # Idle
  /\ Finish(p)
  /\ UNCHANGED <<clock, otp, account, job>>

Ask(p) ==
  \/ \E who \in Users \cup {NoUser}, d \in Dests, purpose \in Purposes :
       AskCheck(p, who, d, purpose)
  \/ \E j \in Deliveries : AskQueue(p, j)

RNext ==
  \/ Tick \/ Cleanup
  \/ \E j \in Deliveries : Delivery(j)
  \/ \E p \in Web :
       Ask(p) \/ Verify(p) \/ Register(p) \/ Reset(p) \/ Edit(p) \/ WebDies(p)

RSpec == RInit /\ [][RNext]_rvars
-----------------------------------------------------------------------------
(* Rows, users, requests and deliveries keep their types.                  *)
RTypeOK ==
  /\ clock \in Nat \ {0}
  /\ otp \in Seq(Row)
  /\ account \in [Users -> Account \cup {NoAccount}]
  /\ web \in [Web -> Request \cup {Idle}]
  /\ job \in [Deliveries -> Job \cup {Idle}]

(* A right code was entered: the row was verified, and its code had been   *)
(* delivered to the address.                                               *)
Proven(i) == otp[i].verified # NotYet /\ otp[i].sent

(* Each address a user registered with was proven by a code of its own,    *)
(* made to register, however registrations, clean-up, retries and crashes  *)
(* interleave (RegisterSerializer.validate, OtpVerifyView).                *)
AccountsAreProven ==
  \A u \in Users : Exists(u) =>
    \A d \in account[u].born : \E i \in DOMAIN otp :
      otp[i].dest = d /\ otp[i].purpose = ToRegister /\ Proven(i)

(* is_phone_verified and is_email_verified are never set without a proof   *)
(* of an address of that kind: one this user asked to verify, or one the   *)
(* user registered with.  A stale save of the user cannot set them either. *)
FlagsAreProven ==
  \A u \in Users : Exists(u) =>
    \A k \in account[u].flags : \E i \in DOMAIN otp :
      /\ Kind(otp[i].dest) = k
      /\ Proven(i)
      /\ \/ otp[i].purpose = ToVerify /\ otp[i].user = u
         \/ otp[i].purpose = ToRegister /\ otp[i].dest \in account[u].born

(* A password comes from a code for a reset that was made for this user    *)
(* and spent, also when users are edited between the steps of the reset or *)
(* their address has passed to somebody else meanwhile.                    *)
PasswordsComeByReset ==
  \A u \in Users : Exists(u) /\ account[u].password # 0 =>
    LET i == account[u].password IN
    /\ i \in DOMAIN otp
    /\ otp[i].user = u /\ otp[i].purpose = ToReset /\ Proven(i)

(* What happens to a row only adds to it: a spent code is never open       *)
(* again, a consumed verification never free, a deleted row never back,    *)
(* whatever other request saves a copy it loaded before                    *)
(* (save(update_fields=...) in verify, consume and reset).                 *)
RowsMoveForward ==
  [][\A i \in DOMAIN otp :
       /\ i \in DOMAIN otp'
       /\ otp'[i].verified >= otp[i].verified
       /\ otp[i].user # NoUser => otp'[i].user # NoUser
       /\ otp[i].gone => otp'[i].gone]_rvars

(* Verifying and resetting undo nothing: only the save of an edit changes  *)
(* the addresses of a user, blocks or unblocks it, or takes a flag away.   *)
EditsOnly(u) ==
  \E p \in Web : At(p, "edit") /\ web[p].user = u /\ web'[p] = Idle

CodesUndoNothing ==
  [][\A u \in Users : Exists(u) =>
       \/ EditsOnly(u)
       \/ /\ account'[u].owns = account[u].owns
          /\ account'[u].blocked = account[u].blocked
          /\ account[u].flags \subseteq account'[u].flags]_rvars
=============================================================================
