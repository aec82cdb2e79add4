------------------------ MODULE RegistrationTheorems ------------------------
(***************************************************************************)
(* What holds of Registration for any users, addresses, processes and      *)
(* deliveries, and for any lifetimes of codes and verifications.           *)
(*                                                                         *)
(* The argument: the rows of codes only ever gain facts (RowsGrow), so a   *)
(* proof that was once given is still there when it is used.  What remains *)
(* is that each request in flight carries only what it has seen proven,    *)
(* and that a copy of a user that an edit is about to write back is        *)
(* vouched for by the rows as the user itself is.                          *)
(***************************************************************************)
EXTENDS Registration, TLAPS

OwnedBy(u, purpose) ==
  (u = NoUser /\ purpose = ToRegister) \/ (u \in Users /\ Exists(u))

(* What a request in flight relies on.                                     *)
Relies(p) ==
  /\ At(p, "ask") => OwnedBy(web[p].user, web[p].purpose)
  /\ web[p].pc \in {"entered", "flag", "confirmed", "resetting", "consuming"} =>
       web[p].row \in DOMAIN otp
  /\ web[p].pc \in {"entered", "confirmed"} => otp[web[p].row].sent
  /\ web[p].pc \in {"flag", "resetting"} => Proven(web[p].row)
  /\ At(p, "flag") => otp[web[p].row].purpose = ToVerify
  /\ web[p].pc \in {"confirmed", "resetting"} => otp[web[p].row].purpose = ToReset
  /\ At(p, "consuming") => otp[web[p].row].purpose = ToRegister
  /\ web[p].pc \in {"consume", "consuming", "edit"} => Exists(web[p].user)

RowsWell ==
  \A i \in DOMAIN otp :
    /\ OwnedBy(otp[i].user, otp[i].purpose)
    /\ otp[i].verified <= clock

JobWell(j) ==
  /\ job[j] # Idle => OwnedBy(job[j].user, job[j].purpose)
  /\ job[j].pc = "made" => job[j].row \in DOMAIN otp

RefersWell ==
  /\ RowsWell
  /\ \A j \in Deliveries : JobWell(j)
  /\ \A p \in Web : Relies(p)

Sound == RTypeOK /\ RefersWell

(* Rows only gain facts, accounts stay.                                    *)
RowsGrow ==
  \A i \in DOMAIN otp :
    /\ i \in DOMAIN otp'
    /\ otp'[i].dest = otp[i].dest
    /\ otp'[i].purpose = otp[i].purpose
    /\ otp[i].sent => otp'[i].sent
    /\ otp'[i].verified >= otp[i].verified
    /\ otp'[i].user = otp[i].user \/ (otp[i].purpose = ToRegister /\ otp'[i].user \in Users)
    /\ otp[i].gone => otp'[i].gone

AccountsStay ==
  \A u \in Users : Exists(u) => Exists(u)'
-----------------------------------------------------------------------------
LEMMA AccountExists ==
  ASSUME NEW a \in Account PROVE a # NoAccount
BY DEF Account, NoAccount

LEMMA AccountType ==
  ASSUME RTypeOK, NEW u \in Users, Exists(u)
  PROVE  account[u] \in Account
BY DEF RTypeOK, Exists

LEMMA RequestType ==
  ASSUME RTypeOK, NEW p \in Web
  PROVE  /\ At(p, "ask") => /\ web[p].user \in Users \cup {NoUser}
                            /\ web[p].dest \in Dests
                            /\ web[p].purpose \in Purposes
         /\ web[p].pc \in {"entered", "flag", "confirmed", "resetting", "consuming"}
              => web[p].row \in Nat
         /\ web[p].pc \in {"valid", "flagged"} => web[p].gives \in Addresses
         /\ At(p, "flagged") => web[p].flags \in SUBSET Kinds
         /\ web[p].pc \in {"consume", "consuming"} => /\ web[p].user \in Users
                                                      /\ web[p].left \in Addresses
         /\ At(p, "edit") => web[p].user \in Users /\ web[p].copy \in Account
<1>1. web[p] \in Request \cup {Idle}
  BY DEF RTypeOK
<1>2. QED
  BY <1>1 DEF Request, Idle, At

LEMMA JobType ==
  ASSUME RTypeOK, NEW j \in Deliveries, job[j] # Idle
  PROVE  job[j] \in Job
BY DEF RTypeOK

LEMMA RowType ==
  ASSUME RTypeOK, NEW i \in DOMAIN otp
  PROVE  otp[i] \in Row /\ i \in Nat \ {0}
BY DEF RTypeOK

LEMMA FewerAddresses ==
  ASSUME NEW a \in Addresses, NEW d PROVE a \ {d} \in Addresses
BY DEF Addresses

LEMMA KindType == \A d \in Dests : Kind(d) \in Kinds
BY DEF Kind, Kinds

LEMMA InitSound == RInit => Sound
<1> SUFFICES ASSUME RInit PROVE Sound
  OBVIOUS
<1>1. MadeByStaff \subseteq Account
  <2>1. {} \in Addresses
    BY DEF Addresses
  <2>2. ASSUME NEW a \in Addresses
        PROVE  [owns |-> a, born |-> {}, flags |-> {}, blocked |-> FALSE,
                password |-> 0] \in Account
    BY <2>1 DEF Account
  <2>3. QED
    BY <2>2 DEF MadeByStaff
<1>2. RTypeOK
  BY <1>1 DEF RInit, RTypeOK
<1>3. RefersWell
  BY DEF RInit, RefersWell, RowsWell, JobWell, Relies, At, Idle
<1> QED
  BY <1>2, <1>3 DEF Sound
-----------------------------------------------------------------------------
(* Each action grows the rows and keeps the accounts.                      *)
LEMMA Growth ==
  ASSUME Sound, RNext
  PROVE  RowsGrow /\ AccountsStay
<1> USE DEF Sound
<1>0. clock \in Nat \ {0} /\ otp \in Seq(Row)
  BY DEF RTypeOK
<1>0a. UNCHANGED otp => RowsGrow
  BY <1>0, RowType DEF RowsGrow, Row
<1>0b. UNCHANGED account => AccountsStay
  BY DEF AccountsStay, Exists
<1>1. CASE Tick
  BY <1>1, <1>0a, <1>0b DEF Tick
<1>2. CASE Cleanup
  <2>1. RowsGrow
    <3>1. DOMAIN otp' = DOMAIN otp
      BY <1>2 DEF Cleanup
    <3>2. ASSUME NEW i \in DOMAIN otp
          PROVE  otp'[i] = [otp[i] EXCEPT !.gone = @ \/ otp[i].made + Ttl < clock]
      BY <1>2 DEF Cleanup
    <3>3. QED
      BY <3>1, <3>2, RowType DEF RowsGrow, Row
  <2>2. QED
    BY <1>2, <2>1, <1>0b DEF Cleanup
<1>3. ASSUME NEW j \in Deliveries, Delivery(j) PROVE RowsGrow /\ AccountsStay
  <2>1. CASE DeliveryMake(j)
    <3>1. RowsGrow
      BY <2>1, <1>0, RowType DEF DeliveryMake, RowsGrow, Row
    <3>2. QED
      BY <2>1, <3>1, <1>0b DEF DeliveryMake
  <2>2. CASE DeliverySend(j)
    <3>1. job[j].row \in DOMAIN otp
      BY <2>2 DEF DeliverySend, RefersWell, JobWell
    <3>2. RowsGrow
      BY <2>2, <3>1, <1>0, RowType DEF DeliverySend, RowsGrow, Row
    <3>3. QED
      BY <2>2, <3>2, <1>0b DEF DeliverySend
  <2>3. CASE DeliveryDies(j)
    BY <2>3, <1>0a, <1>0b DEF DeliveryDies
  <2>4. QED
    BY <1>3, <2>1, <2>2, <2>3 DEF Delivery
<1>4. ASSUME NEW p \in Web, Ask(p) PROVE RowsGrow /\ AccountsStay
  BY <1>4, <1>0a, <1>0b DEF Ask, AskCheck, AskQueue
<1>5. ASSUME NEW p \in Web, Verify(p) PROVE RowsGrow /\ AccountsStay
  <2>1. ASSUME NEW i \in DOMAIN otp, VerifyEnter(p, i) PROVE RowsGrow /\ AccountsStay
    BY <2>1, <1>0a, <1>0b DEF VerifyEnter
  <2>2. CASE VerifySave(p)
    <3>1. web[p].row \in DOMAIN otp
      BY <2>2 DEF VerifySave, RefersWell, Relies, At
    <3>2. RowsGrow
      <4>1. CASE UNCHANGED otp
        BY <4>1, <1>0a
      <4>2. CASE otp' = [otp EXCEPT ![web[p].row].verified = clock]
        BY <4>2, <3>1, <1>0, RowType DEF RowsGrow, Row, RefersWell, RowsWell
      <4>3. QED
        BY <2>2, <4>1, <4>2 DEF VerifySave
    <3>3. QED
      BY <2>2, <3>2, <1>0b DEF VerifySave
  <2>3. CASE VerifyFlag(p)
    <3>1. RowsGrow
      BY <2>3, <1>0a DEF VerifyFlag
    <3>2. ASSUME NEW u \in Users, Exists(u) PROVE account'[u] # NoAccount
      <4>1. \/ account'[u] = account[u]
            \/ account'[u] = [account[u] EXCEPT !.flags = @ \cup {Kind(otp[web[p].row].dest)}]
        BY <2>3 DEF VerifyFlag, RTypeOK
      <4>2. web[p].row \in DOMAIN otp
        BY <2>3 DEF VerifyFlag, RefersWell, Relies, At
      <4>3. Kind(otp[web[p].row].dest) \in Kinds
        BY <4>2, RowType, KindType DEF Row
      <4>4. account'[u] \in Account
        BY <4>1, <4>3, <3>2, AccountType DEF Account
      <4>5. QED
        BY <4>4, AccountExists
    <3>3. QED
      BY <3>1, <3>2 DEF AccountsStay, Exists
  <2>4. QED
    BY <1>5, <2>1, <2>2, <2>3 DEF Verify
<1>6. ASSUME NEW p \in Web, Register(p) PROVE RowsGrow /\ AccountsStay
  <2>1. ASSUME NEW gives \in Addresses, RegisterCheck(p, gives)
        PROVE  RowsGrow /\ AccountsStay
    BY <2>1, <1>0a, <1>0b DEF RegisterCheck
  <2>2. CASE RegisterFlags(p)
    BY <2>2, <1>0a, <1>0b DEF RegisterFlags
  <2>3. ASSUME NEW u \in Users, RegisterInsert(p, u) PROVE RowsGrow /\ AccountsStay
    <3>1. AccountsStay
      BY <2>3 DEF RegisterInsert, AccountsStay, Exists, RTypeOK
    <3>2. QED
      BY <2>3, <3>1, <1>0a DEF RegisterInsert
  <2>4. CASE RegisterLatest(p)
    BY <2>4, <1>0a, <1>0b DEF RegisterLatest
  <2>5. CASE RegisterConsume(p)
    <3>1. web[p].row \in DOMAIN otp /\ otp[web[p].row].purpose = ToRegister
      BY <2>5 DEF RegisterConsume, RefersWell, Relies, At
    <3>2. web[p].user \in Users
      BY <2>5, RequestType DEF RegisterConsume, At
    <3>3. RowsGrow
      <4>1. CASE UNCHANGED otp
        BY <4>1, <1>0a
      <4>2. CASE otp' = [otp EXCEPT ![web[p].row].user = web[p].user]
        BY <4>2, <3>1, <3>2, <1>0, RowType DEF RowsGrow, Row
      <4>3. QED
        BY <2>5, <4>1, <4>2 DEF RegisterConsume
    <3>4. QED
      BY <2>5, <3>3, <1>0b DEF RegisterConsume
  <2>6. QED
    BY <1>6, <2>1, <2>2, <2>3, <2>4, <2>5 DEF Register
<1>7. ASSUME NEW p \in Web, Reset(p) PROVE RowsGrow /\ AccountsStay
  <2>1. ASSUME NEW i \in DOMAIN otp, ResetEnter(p, i) PROVE RowsGrow /\ AccountsStay
    BY <2>1, <1>0a, <1>0b DEF ResetEnter
  <2>2. CASE ResetSpend(p)
    <3>1. web[p].row \in DOMAIN otp
      BY <2>2 DEF ResetSpend, RefersWell, Relies, At
    <3>2. RowsGrow
      <4>1. CASE UNCHANGED otp
        BY <4>1, <1>0a
      <4>2. CASE otp' = [otp EXCEPT ![web[p].row].verified = clock]
        BY <4>2, <3>1, <1>0, RowType DEF RowsGrow, Row, RefersWell, RowsWell
      <4>3. QED
        BY <2>2, <4>1, <4>2 DEF ResetSpend
    <3>3. QED
      BY <2>2, <3>2, <1>0b DEF ResetSpend
  <2>3. CASE ResetSet(p)
    <3>1. RowsGrow
      BY <2>3, <1>0a DEF ResetSet
    <3>2. ASSUME NEW u \in Users, Exists(u) PROVE account'[u] # NoAccount
      <4>1. \/ account'[u] = account[u]
            \/ account'[u] = [account[u] EXCEPT !.password = web[p].row]
        BY <2>3 DEF ResetSet, RTypeOK
      <4>2. web[p].row \in Nat
        BY <2>3, RequestType DEF ResetSet, At
      <4>3. account'[u] \in Account
        BY <4>1, <4>2, <3>2, AccountType DEF Account
      <4>4. QED
        BY <4>3, AccountExists
    <3>3. QED
      BY <3>1, <3>2 DEF AccountsStay, Exists
  <2>4. QED
    BY <1>7, <2>1, <2>2, <2>3 DEF Reset
<1>8. ASSUME NEW p \in Web, Edit(p) PROVE RowsGrow /\ AccountsStay
  <2>1. ASSUME NEW u \in Users, EditLoad(p, u) PROVE RowsGrow /\ AccountsStay
    BY <2>1, <1>0a, <1>0b DEF EditLoad
  <2>2. ASSUME NEW owns \in Addresses, NEW blocked \in BOOLEAN, EditSave(p, owns, blocked)
        PROVE  RowsGrow /\ AccountsStay
    <3>1. web[p].user \in Users /\ web[p].copy \in Account
      BY <2>2, RequestType DEF EditSave
    <3>2. [web[p].copy EXCEPT !.owns = owns, !.blocked = blocked] \in Account
      BY <3>1 DEF Account
    <3>3. AccountsStay
      BY <2>2, <3>2, AccountExists DEF EditSave, AccountsStay, Exists, RTypeOK
    <3>4. QED
      BY <2>2, <3>3, <1>0a DEF EditSave
  <2>3. QED
    BY <1>8, <2>1, <2>2 DEF Edit
<1>9. ASSUME NEW p \in Web, WebDies(p) PROVE RowsGrow /\ AccountsStay
  BY <1>9, <1>0a, <1>0b DEF WebDies
<1> QED
  BY <1>1, <1>2, <1>3, <1>4, <1>5, <1>6, <1>7, <1>8, <1>9 DEF RNext
-----------------------------------------------------------------------------
(* Types.                                                                  *)
LEMMA DeliveryType ==
  ASSUME Sound, NEW j \in Deliveries, Delivery(j)
  PROVE  RTypeOK'
<1> USE DEF Sound
<1>1. CASE DeliveryMake(j)
  <2>1. job[j] \in Job
    BY <1>1, JobType DEF DeliveryMake, Idle
  <2>2. [dest |-> job[j].dest, purpose |-> job[j].purpose, user |-> job[j].user,
         made |-> clock, verified |-> NotYet, sent |-> FALSE, gone |-> FALSE] \in Row
    BY <2>1 DEF Job, Row, RTypeOK, NotYet
  <2>3. otp' \in Seq(Row)
    BY <1>1, <2>2 DEF DeliveryMake, RTypeOK
  <2>4. job' \in [Deliveries -> Job \cup {Idle}]
    <3>1. Len(otp) + 1 \in Nat
      BY DEF RTypeOK
    <3>2. [job[j] EXCEPT !.pc = "made", !.row = Len(otp) + 1] \in Job
      BY <2>1, <3>1 DEF Job
    <3>3. job' = [job EXCEPT ![j] = [job[j] EXCEPT !.pc = "made", !.row = Len(otp) + 1]]
      BY <1>1 DEF DeliveryMake, RTypeOK
    <3>4. QED
      BY <3>2, <3>3 DEF RTypeOK
  <2>5. QED
    BY <1>1, <2>3, <2>4 DEF DeliveryMake, RTypeOK
<1>2. CASE DeliverySend(j)
  <2>1. job[j] \in Job
    BY <1>2, JobType DEF DeliverySend, Idle
  <2>2. PICK arrives \in BOOLEAN : otp' = [otp EXCEPT ![job[j].row].sent = @ \/ arrives]
    BY <1>2 DEF DeliverySend
  <2>3. otp' \in Seq(Row)
    <3>1. job[j].row \in DOMAIN otp
      BY <1>2 DEF DeliverySend, RefersWell, JobWell
    <3>2. [otp[job[j].row] EXCEPT !.sent = @ \/ arrives] \in Row
      BY <3>1, RowType DEF Row
    <3>3. QED
      BY <2>2, <3>1, <3>2 DEF RTypeOK
  <2>4. job' \in [Deliveries -> Job \cup {Idle}]
    BY <1>2, <2>1 DEF DeliverySend, RTypeOK, Job
  <2>5. QED
    BY <1>2, <2>3, <2>4 DEF DeliverySend, RTypeOK
<1>3. CASE DeliveryDies(j)
  BY <1>3 DEF DeliveryDies, RTypeOK
<1> QED
  BY <1>1, <1>2, <1>3 DEF Delivery

(* Overwriting one column of a row.                                        *)
LEMMA RowUpdates ==
  ASSUME RTypeOK, NEW i \in DOMAIN otp
  PROVE  /\ [otp EXCEPT ![i].verified = clock] \in Seq(Row)
         /\ \A u \in Users : [otp EXCEPT ![i].user = u] \in Seq(Row)
<1>1. otp[i] \in Row /\ clock \in Nat /\ otp \in Seq(Row)
  BY RowType DEF RTypeOK
<1>2. [otp[i] EXCEPT !.verified = clock] \in Row
  BY <1>1 DEF Row
<1>3. \A u \in Users : [otp[i] EXCEPT !.user = u] \in Row
  BY <1>1 DEF Row
<1> QED
  BY <1>1, <1>2, <1>3

LEMMA VerifyType ==
  ASSUME Sound, NEW p \in Web, Verify(p)
  PROVE  RTypeOK'
<1> USE DEF Sound, Goto, Finish
<1>1. ASSUME NEW i \in DOMAIN otp, VerifyEnter(p, i) PROVE RTypeOK'
  BY <1>1, RowType DEF VerifyEnter, RTypeOK, Request
<1>2. CASE VerifySave(p)
  <2>1. web[p].row \in DOMAIN otp /\ web[p].row \in Nat
    BY <1>2, RequestType DEF VerifySave, RefersWell, Relies, At
  <2>2. otp' \in Seq(Row)
    BY <1>2, <2>1, RowUpdates DEF VerifySave, RTypeOK
  <2>3. web' \in [Web -> Request \cup {Idle}]
    BY <1>2, <2>1 DEF VerifySave, RTypeOK, Request
  <2>4. QED
    BY <1>2, <2>2, <2>3 DEF VerifySave, RTypeOK
<1>3. CASE VerifyFlag(p)
  <2> DEFINE row == otp[web[p].row]
  <2>1. web[p].row \in DOMAIN otp /\ Proven(web[p].row) /\ row.purpose = ToVerify
    BY <1>3 DEF VerifyFlag, RefersWell, Relies, At
  <2>2. row.user \in Users /\ Exists(row.user)
    BY <2>1 DEF RefersWell, RowsWell, OwnedBy, ToVerify, ToRegister
  <2>3. Kind(row.dest) \in Kinds
    BY <2>1, RowType, KindType DEF Row
  <2>4. [account[row.user] EXCEPT !.flags = @ \cup {Kind(row.dest)}] \in Account
    BY <2>2, <2>3, AccountType DEF Account
  <2>5. account' \in [Users -> Account \cup {NoAccount}]
    BY <1>3, <2>2, <2>4 DEF VerifyFlag, RTypeOK
  <2>6. QED
    BY <1>3, <2>5 DEF VerifyFlag, RTypeOK
<1> QED
  BY <1>1, <1>2, <1>3 DEF Verify

LEMMA ResetType ==
  ASSUME Sound, NEW p \in Web, Reset(p)
  PROVE  RTypeOK'
<1> USE DEF Sound, Goto, Finish
<1>1. ASSUME NEW i \in DOMAIN otp, ResetEnter(p, i) PROVE RTypeOK'
  BY <1>1, RowType DEF ResetEnter, RTypeOK, Request
<1>2. CASE ResetSpend(p)
  <2>1. web[p].row \in DOMAIN otp /\ web[p].row \in Nat
    BY <1>2, RequestType DEF ResetSpend, RefersWell, Relies, At
  <2>2. otp' \in Seq(Row)
    BY <1>2, <2>1, RowUpdates DEF ResetSpend, RTypeOK
  <2>3. web' \in [Web -> Request \cup {Idle}]
    BY <1>2, <2>1 DEF ResetSpend, RTypeOK, Request
  <2>4. QED
    BY <1>2, <2>2, <2>3 DEF ResetSpend, RTypeOK
<1>3. CASE ResetSet(p)
  <2> DEFINE u == otp[web[p].row].user
  <2>1. web[p].row \in DOMAIN otp /\ otp[web[p].row].purpose = ToReset
    BY <1>3 DEF ResetSet, RefersWell, Relies, At
  <2>2. u \in Users /\ Exists(u)
    BY <2>1 DEF RefersWell, RowsWell, OwnedBy, ToReset, ToRegister
  <2>3. [account[u] EXCEPT !.password = web[p].row] \in Account
    BY <2>1, <2>2, RowType, AccountType DEF Account
  <2>4. account' \in [Users -> Account \cup {NoAccount}]
    BY <1>3, <2>2, <2>3 DEF ResetSet, RTypeOK
  <2>5. QED
    BY <1>3, <2>4 DEF ResetSet, RTypeOK
<1> QED
  BY <1>1, <1>2, <1>3 DEF Reset

LEMMA RegisterType ==
  ASSUME Sound, NEW p \in Web, Register(p)
  PROVE  RTypeOK'
<1> USE DEF Sound, Goto, Finish
<1>1. ASSUME NEW gives \in Addresses, RegisterCheck(p, gives) PROVE RTypeOK'
  BY <1>1 DEF RegisterCheck, RTypeOK, Request
<1>2. CASE RegisterFlags(p)
  <2>1. web[p].gives \in Addresses
    BY <1>2, RequestType DEF RegisterFlags, At
  <2>2. {Kind(d) : d \in {e \in web[p].gives : Valid(e) # {}}} \in SUBSET Kinds
    BY <2>1, KindType DEF Addresses
  <2>3. QED
    BY <1>2, <2>1, <2>2 DEF RegisterFlags, RTypeOK, Request
<1>3. ASSUME NEW u \in Users, RegisterInsert(p, u) PROVE RTypeOK'
  <2>1. web[p].gives \in Addresses /\ web[p].flags \in SUBSET Kinds
    BY <1>3, RequestType DEF RegisterInsert, At
  <2>2. account' \in [Users -> Account \cup {NoAccount}]
    BY <1>3, <2>1 DEF RegisterInsert, RTypeOK, Account
  <2>3. QED
    BY <1>3, <2>1, <2>2 DEF RegisterInsert, RTypeOK, Request
<1>4. CASE RegisterLatest(p)
  <2>1. web[p].user \in Users /\ web[p].left \in Addresses
    BY <1>4, RequestType DEF RegisterLatest, At
  <2>2. ASSUME NEW d \in Dests, NEW r,
               r = [pc |-> "consume", user |-> web[p].user, left |-> web[p].left \ {d}],
               web' = [web EXCEPT ![p] = r]
        PROVE  web' \in [Web -> Request \cup {Idle}]
    <3>1. web[p].left \ {d} \in Addresses
      BY <2>1, FewerAddresses
    <3>2. r \in Request
      BY <2>1, <2>2, <3>1 DEF Request
    <3>3. QED
      BY <2>2, <3>2 DEF RTypeOK
  <2>3. ASSUME NEW d \in Dests, NEW i \in Valid(d), NEW r,
               r = [pc |-> "consuming", user |-> web[p].user,
                    left |-> web[p].left \ {d}, row |-> i],
               web' = [web EXCEPT ![p] = r]
        PROVE  web' \in [Web -> Request \cup {Idle}]
    <3>1. web[p].left \ {d} \in Addresses
      BY <2>1, FewerAddresses
    <3>2. i \in DOMAIN otp
      BY DEF Valid
    <3>3. r \in Request
      BY <2>1, <2>3, <3>1, <3>2, RowType DEF Request
    <3>4. QED
      BY <2>3, <3>3 DEF RTypeOK
  <2>4. web' \in [Web -> Request \cup {Idle}]
    <3>1. CASE Finish(p)
      BY <3>1 DEF RTypeOK
    <3>2. ASSUME NEW d \in Dests,
                 \/ Goto(p, [pc |-> "consume", user |-> web[p].user,
                             left |-> web[p].left \ {d}])
                 \/ \E i \in Valid(d) :
                      Goto(p, [pc |-> "consuming", user |-> web[p].user,
                               left |-> web[p].left \ {d}, row |-> i])
          PROVE  web' \in [Web -> Request \cup {Idle}]
      BY <3>2, <2>2, <2>3
    <3>3. Finish(p) \/ \E d \in Dests :
             \/ Goto(p, [pc |-> "consume", user |-> web[p].user,
                         left |-> web[p].left \ {d}])
             \/ \E i \in Valid(d) :
                  Goto(p, [pc |-> "consuming", user |-> web[p].user,
                           left |-> web[p].left \ {d}, row |-> i])
      BY <1>4, Zenon DEF RegisterLatest
    <3>4. QED
      BY <3>1, <3>2, <3>3, Zenon
  <2>5. QED
    BY <1>4, <2>4 DEF RegisterLatest, RTypeOK
<1>5. CASE RegisterConsume(p)
  <2>1. web[p].row \in DOMAIN otp /\ web[p].user \in Users /\ web[p].left \in Addresses
    BY <1>5, RequestType DEF RegisterConsume, RefersWell, Relies, At
  <2>2. otp' \in Seq(Row)
    <3>1. [otp EXCEPT ![web[p].row].user = web[p].user] \in Seq(Row)
      BY <2>1, RowUpdates
    <3>2. QED
      BY <1>5, <3>1 DEF RegisterConsume, RTypeOK
  <2>3. web' \in [Web -> Request \cup {Idle}]
    BY <1>5, <2>1 DEF RegisterConsume, RTypeOK, Request
  <2>4. QED
    BY <1>5, <2>2, <2>3 DEF RegisterConsume, RTypeOK
<1> QED
  BY <1>1, <1>2, <1>3, <1>4, <1>5 DEF Register

LEMMA TypeStep ==
  ASSUME Sound, RNext
  PROVE  RTypeOK'
<1> USE DEF Sound
<1>1. CASE Tick
  BY <1>1 DEF Tick, RTypeOK
<1>2. CASE Cleanup
  <2>1. ASSUME NEW i \in DOMAIN otp
        PROVE  [otp[i] EXCEPT !.gone = @ \/ otp[i].made + Ttl < clock] \in Row
    BY RowType DEF Row
  <2>2. otp' \in Seq(Row)
    BY <1>2, <2>1 DEF Cleanup, RTypeOK
  <2>3. QED
    BY <1>2, <2>2 DEF Cleanup, RTypeOK
<1>3. ASSUME NEW p \in Web, Ask(p) PROVE RTypeOK'
  <2>1. ASSUME NEW who \in Users \cup {NoUser}, NEW d \in Dests, NEW purpose \in Purposes,
               AskCheck(p, who, d, purpose)
        PROVE  RTypeOK'
    BY <2>1 DEF AskCheck, Goto, RTypeOK, Request
  <2>2. ASSUME NEW j \in Deliveries, AskQueue(p, j) PROVE RTypeOK'
    <3>1. /\ web[p].user \in Users \cup {NoUser}
          /\ web[p].dest \in Dests
          /\ web[p].purpose \in Purposes
      BY <2>2, RequestType DEF AskQueue
    <3>2. job' \in [Deliveries -> Job \cup {Idle}]
      BY <2>2, <3>1, RegistrationAssumption DEF AskQueue, RTypeOK, Job
    <3>3. QED
      BY <2>2, <3>2 DEF AskQueue, Finish, Goto, RTypeOK
  <2>3. QED
    BY <1>3, <2>1, <2>2 DEF Ask
<1>4. ASSUME NEW p \in Web, Edit(p) PROVE RTypeOK'
  <2>1. ASSUME NEW u \in Users, EditLoad(p, u) PROVE RTypeOK'
    BY <2>1, AccountType DEF EditLoad, Goto, RTypeOK, Request
  <2>2. ASSUME NEW owns \in Addresses, NEW blocked \in BOOLEAN, EditSave(p, owns, blocked)
        PROVE  RTypeOK'
    <3>1. web[p].user \in Users /\ web[p].copy \in Account
      BY <2>2, RequestType DEF EditSave
    <3>2. [web[p].copy EXCEPT !.owns = owns, !.blocked = blocked] \in Account
      BY <3>1 DEF Account
    <3>3. QED
      BY <2>2, <3>2 DEF EditSave, Finish, Goto, RTypeOK
  <2>3. QED
    BY <1>4, <2>1, <2>2 DEF Edit
<1>5. ASSUME NEW p \in Web, WebDies(p) PROVE RTypeOK'
  BY <1>5 DEF WebDies, Finish, Goto, RTypeOK
<1> QED
  BY <1>1, <1>2, <1>3, <1>4, <1>5, DeliveryType, VerifyType, RegisterType, ResetType
     DEF RNext
-----------------------------------------------------------------------------
(* What requests in flight rely on stays true.                             *)
LEMMA OwnedStays ==
  ASSUME AccountsStay, NEW u, NEW purpose, OwnedBy(u, purpose)
  PROVE  OwnedBy(u, purpose)'
BY DEF AccountsStay, OwnedBy

LEMMA ProvenStays ==
  ASSUME Sound, RTypeOK', RowsGrow, NEW i \in DOMAIN otp, Proven(i)
  PROVE  Proven(i)'
<1>1. /\ otp[i].verified \in Nat /\ i \in DOMAIN otp' /\ otp'[i].verified >= otp[i].verified
      /\ otp'[i].sent
  BY RowType DEF Sound, RowsGrow, Row, Proven
<1>2. otp'[i].verified \in Nat
  <2>1. otp' \in Seq(Row)
    BY DEF RTypeOK
  <2>2. otp'[i] \in Row
    BY <1>1, <2>1
  <2>3. QED
    BY <2>2 DEF Row
<1> QED
  BY <1>1, <1>2 DEF Proven, NotYet

LEMMA Kept ==
  ASSUME Sound, RTypeOK', RowsGrow, AccountsStay, NEW p \in Web, web'[p] = web[p]
  PROVE  Relies(p)'
<1>1. Relies(p)
  BY DEF Sound, RefersWell
<1>2. At(p, "ask") => OwnedBy(web[p].user, web[p].purpose)'
  BY <1>1, OwnedStays DEF Relies
<1>3. web[p].pc \in {"consume", "consuming", "edit"} => Exists(web[p].user)'
  BY <1>1, RequestType DEF Relies, AccountsStay, Sound, At
<1>4. web[p].pc \in {"flag", "resetting"} => Proven(web[p].row)'
  BY <1>1, ProvenStays DEF Relies
<1>5. QED
  BY <1>1, <1>2, <1>3, <1>4 DEF Relies, RowsGrow, At, Exists, OwnedBy, Proven

LEMMA JobKept ==
  ASSUME RowsGrow, AccountsStay, NEW j \in Deliveries, JobWell(j), job'[j] = job[j]
  PROVE  JobWell(j)'
BY OwnedStays DEF JobWell, RowsGrow, OwnedBy, Exists

(* A step of one request disturbs no other.                                *)
LEMMA WebStep ==
  ASSUME Sound, RTypeOK', RowsGrow, AccountsStay,
         NEW p \in Web, NEW r, Goto(p, r), Relies(p)', UNCHANGED job, RowsWell'
  PROVE  RefersWell'
<1>1. ASSUME NEW q \in Web PROVE Relies(q)'
  BY Kept DEF Goto, Sound, RTypeOK
<1>2. ASSUME NEW j \in Deliveries PROVE JobWell(j)'
  BY JobKept DEF Sound, RefersWell
<1> QED
  BY <1>1, <1>2 DEF RefersWell

LEMMA RowsKept ==
  ASSUME Sound, AccountsStay, UNCHANGED otp, clock' \in Nat, clock' >= clock
  PROVE  RowsWell'
<1> SUFFICES ASSUME NEW i \in DOMAIN otp
             PROVE  OwnedBy(otp[i].user, otp[i].purpose)' /\ otp[i].verified <= clock'
  BY DEF RowsWell, OwnedBy, Exists
<1>1. OwnedBy(otp[i].user, otp[i].purpose) /\ otp[i].verified <= clock
  BY DEF Sound, RefersWell, RowsWell
<1>2. clock \in Nat /\ otp[i].verified \in Nat
  BY RowType DEF Sound, RTypeOK, Row
<1>3. QED
  BY <1>1, <1>2, OwnedStays DEF OwnedBy, Exists

LEMMA SpendKept ==
  ASSUME Sound, AccountsStay, NEW k \in DOMAIN otp, UNCHANGED clock,
         otp' = [otp EXCEPT ![k].verified = clock]
  PROVE  RowsWell'
<1> SUFFICES ASSUME NEW i \in DOMAIN otp
             PROVE  OwnedBy(otp[i].user, otp[i].purpose)' /\ otp'[i].verified <= clock'
  BY DEF RowsWell, Sound, RTypeOK, OwnedBy, Exists
<1>1. OwnedBy(otp[i].user, otp[i].purpose) /\ otp[i].verified <= clock
  BY DEF Sound, RefersWell, RowsWell
<1>2. otp[i] \in Row /\ clock \in Nat
  BY RowType DEF Sound, RTypeOK
<1>3. otp'[i].user = otp[i].user /\ otp'[i].purpose = otp[i].purpose
  BY <1>2 DEF Sound, RTypeOK, Row
<1>4. otp'[i].verified = otp[i].verified \/ otp'[i].verified = clock
  BY <1>2 DEF Sound, RTypeOK, Row
<1>5. QED
  BY <1>1, <1>2, <1>3, <1>4, OwnedStays DEF OwnedBy, Exists

LEMMA SoundStep ==
  ASSUME Sound, RNext
  PROVE  Sound'
<1>0. RowsGrow /\ AccountsStay /\ RTypeOK'
  BY Growth, TypeStep
<1>0a. clock \in Nat /\ otp \in Seq(Row)
  BY DEF Sound, RTypeOK
<1>0b. RowsWell /\ \A p \in Web : Relies(p)
  BY DEF Sound, RefersWell
<1>0c. UNCHANGED <<otp, clock>> => RowsWell'
  BY <1>0, <1>0a, RowsKept
<1>0d. (\A q \in Web : web'[q] = web[q]) => \A q \in Web : Relies(q)'
  BY <1>0, Kept
<1>0e. UNCHANGED job => \A j \in Deliveries : JobWell(j)'
  BY <1>0, JobKept DEF Sound, RefersWell
<1> SUFFICES RefersWell'
  BY <1>0 DEF Sound
<1>1. CASE Tick
  <2>1. RowsWell'
    BY <1>1, <1>0, <1>0a, RowsKept DEF Tick
  <2>2. QED
    BY <1>1, <2>1, <1>0d, <1>0e DEF Tick, RefersWell
<1>2. CASE Cleanup
  <2>1. ASSUME NEW i \in DOMAIN otp' PROVE OwnedBy(otp[i].user, otp[i].purpose)' /\ otp'[i].verified <= clock'
    <3>1. i \in DOMAIN otp /\ otp[i] \in Row
      BY <1>2, RowType DEF Cleanup, Sound
    <3>2. otp'[i] = [otp[i] EXCEPT !.gone = @ \/ otp[i].made + Ttl < clock]
      BY <1>2, <3>1 DEF Cleanup
    <3>3. /\ otp'[i].user = otp[i].user
          /\ otp'[i].purpose = otp[i].purpose
          /\ otp'[i].verified = otp[i].verified
          /\ UNCHANGED clock
      BY <1>2, <3>1, <3>2 DEF Cleanup, Row
    <3>4. QED
      BY <3>1, <3>3, <1>0, <1>0b, OwnedStays DEF RowsWell, OwnedBy, Exists
  <2>2. RowsWell'
    BY <2>1 DEF RowsWell, OwnedBy, Exists
  <2>3. QED
    BY <1>2, <2>2, <1>0d, <1>0e DEF Cleanup, RefersWell
<1>3. ASSUME NEW j \in Deliveries, Delivery(j) PROVE RefersWell'
  <2>1. \A q \in Web : Relies(q)'
    BY <1>3, <1>0d DEF Delivery, DeliveryMake, DeliverySend, DeliveryDies
  <2>2. ASSUME NEW k \in Deliveries, k # j PROVE JobWell(k)'
    <3>1. job'[k] = job[k]
      BY <1>3, <2>2 DEF Delivery, DeliveryMake, DeliverySend, DeliveryDies, Sound, RTypeOK
    <3>2. QED
      BY <3>1, <1>0, JobKept DEF Sound, RefersWell
  <2>3. JobWell(j)
    BY DEF Sound, RefersWell
  <2>4. CASE DeliveryMake(j)
    <3>1. job[j] \in Job /\ OwnedBy(job[j].user, job[j].purpose)
      BY <2>4, <2>3, JobType DEF DeliveryMake, JobWell, Idle, Sound
    <3>2. OwnedBy(job[j].user, job[j].purpose)'
      <4>1. /\ job'[j].user = job[j].user
            /\ job'[j].purpose = job[j].purpose
        BY <2>4, <3>1 DEF DeliveryMake, Sound, RTypeOK, Job
      <4>2. QED
        BY <3>1, <4>1, <1>0, OwnedStays DEF OwnedBy, Exists
    <3>3. job'[j].row = Len(otp) + 1 /\ Len(otp) + 1 \in DOMAIN otp'
      BY <2>4, <3>1, <1>0a DEF DeliveryMake, Sound, RTypeOK, Job
    <3>4. JobWell(j)'
      BY <3>2, <3>3 DEF JobWell, OwnedBy, Exists
    <3>5. ASSUME NEW i \in DOMAIN otp' PROVE OwnedBy(otp[i].user, otp[i].purpose)' /\ otp'[i].verified <= clock'
      <4>1. CASE i \in DOMAIN otp
        <5>1. otp'[i] = otp[i] /\ UNCHANGED clock
          BY <2>4, <4>1, <1>0a DEF DeliveryMake
        <5>2. QED
          BY <4>1, <5>1, <1>0, <1>0b, OwnedStays DEF RowsWell, OwnedBy, Exists
      <4>2. CASE i = Len(otp) + 1
        <5>1. /\ otp'[i].user = job[j].user
              /\ otp'[i].purpose = job[j].purpose
              /\ otp'[i].verified = 0
              /\ UNCHANGED clock
          BY <2>4, <4>2, <1>0a DEF DeliveryMake, NotYet
        <5>2. \/ otp'[i].user = NoUser /\ otp'[i].purpose = ToRegister
              \/ otp'[i].user \in Users /\ account'[otp'[i].user] # NoAccount
          BY <3>1, <5>1, <1>0 DEF OwnedBy, Exists, AccountsStay
        <5>3. otp'[i].verified <= clock'
          BY <5>1, <1>0a
        <5>4. QED
          BY <5>2, <5>3 DEF OwnedBy, Exists
      <4>3. QED
        BY <2>4, <4>1, <4>2, <1>0a DEF DeliveryMake
    <3>6. RowsWell'
      BY <3>5 DEF RowsWell, OwnedBy, Exists
    <3>7. QED
      BY <2>1, <2>2, <3>4, <3>6 DEF RefersWell
  <2>5. CASE DeliverySend(j)
    <3>1. job[j] \in Job /\ OwnedBy(job[j].user, job[j].purpose) /\ job[j].row \in DOMAIN otp
      BY <2>5, <2>3, JobType DEF DeliverySend, JobWell, Idle, Sound
    <3>2. JobWell(j)'
      <4>1. CASE job'[j] = Idle
        BY <4>1 DEF JobWell, Idle
      <4>2. CASE job' = [job EXCEPT ![j].pc = "queued", ![j].row = 0, ![j].tries = @ - 1]
        <5>1. /\ job'[j].user = job[j].user
              /\ job'[j].purpose = job[j].purpose
              /\ job'[j].pc = "queued"
          BY <4>2, <3>1 DEF Sound, RTypeOK, Job
        <5>2. QED
          BY <3>1, <5>1, <1>0, OwnedStays DEF JobWell, OwnedBy, Exists
      <4>3. QED
        BY <2>5, <4>1, <4>2 DEF DeliverySend, Sound, RTypeOK
    <3>3. ASSUME NEW i \in DOMAIN otp' PROVE OwnedBy(otp[i].user, otp[i].purpose)' /\ otp'[i].verified <= clock'
      <4>1. i \in DOMAIN otp /\ otp[i] \in Row /\ otp[job[j].row] \in Row
        BY <2>5, <3>1, RowType DEF DeliverySend, Sound
      <4>2. /\ otp'[i].user = otp[i].user
            /\ otp'[i].purpose = otp[i].purpose
            /\ otp'[i].verified = otp[i].verified
            /\ UNCHANGED clock
        BY <2>5, <3>1, <4>1 DEF DeliverySend, Row
      <4>3. QED
        BY <4>1, <4>2, <1>0, <1>0b, OwnedStays DEF RowsWell, OwnedBy, Exists
    <3>4. RowsWell'
      BY <3>3 DEF RowsWell, OwnedBy, Exists
    <3>5. QED
      BY <2>1, <2>2, <3>2, <3>4 DEF RefersWell
  <2>6. CASE DeliveryDies(j)
    <3>1. JobWell(j)'
      BY <2>6 DEF DeliveryDies, JobWell, Idle, Sound, RTypeOK
    <3>2. QED
      BY <2>6, <2>1, <2>2, <3>1, <1>0c DEF DeliveryDies, RefersWell
  <2>7. QED
    BY <1>3, <2>4, <2>5, <2>6 DEF Delivery
<1>4. ASSUME NEW p \in Web, Ask(p) PROVE RefersWell'
  <2>1. ASSUME NEW who \in Users \cup {NoUser}, NEW d \in Dests, NEW purpose \in Purposes,
               AskCheck(p, who, d, purpose)
        PROVE  RefersWell'
    <3>1. OwnedBy(who, purpose)'
      BY <2>1, <1>0, OwnedStays DEF AskCheck, Asker, Usable, OwnedBy
    <3>2. web'[p] = [pc |-> "ask", user |-> who, dest |-> d, purpose |-> purpose]
      BY <2>1 DEF AskCheck, Goto, Sound, RTypeOK
    <3>3. Relies(p)'
      BY <3>1, <3>2 DEF Relies, At, OwnedBy, Exists
    <3>4. QED
      BY <2>1, <3>3, <1>0, <1>0c, WebStep DEF AskCheck
  <2>2. ASSUME NEW j \in Deliveries, AskQueue(p, j) PROVE RefersWell'
    <3>1. OwnedBy(web[p].user, web[p].purpose)
      BY <2>2, <1>0b DEF AskQueue, Relies
    <3>2. /\ job'[j].user = web[p].user
          /\ job'[j].purpose = web[p].purpose
          /\ job'[j].pc = "queued"
      BY <2>2 DEF AskQueue, Sound, RTypeOK
    <3>3. JobWell(j)'
      BY <3>1, <3>2, <1>0, OwnedStays DEF JobWell, OwnedBy, Exists
    <3>4. ASSUME NEW k \in Deliveries, k # j PROVE JobWell(k)'
      BY <2>2, <3>4, <1>0, JobKept DEF AskQueue, Sound, RTypeOK, RefersWell
    <3>5. Relies(p)'
      BY <2>2 DEF AskQueue, Finish, Goto, Relies, At, Idle, Sound, RTypeOK
    <3>6. ASSUME NEW q \in Web, q # p PROVE Relies(q)'
      BY <2>2, <3>6, <1>0, Kept DEF AskQueue, Finish, Goto, Sound, RTypeOK
    <3>7. QED
      BY <2>2, <3>3, <3>4, <3>5, <3>6, <1>0c DEF AskQueue, RefersWell
  <2>3. QED
    BY <1>4, <2>1, <2>2 DEF Ask
<1>5. ASSUME NEW p \in Web, web'[p] = Idle, Finish(p), UNCHANGED job, RowsWell' PROVE RefersWell'
  <2>1. Relies(p)'
    BY <1>5 DEF Relies, At, Idle
  <2>2. QED
    BY <1>5, <2>1, <1>0, WebStep DEF Finish
<1>5a. ASSUME NEW p \in Web, Finish(p) PROVE web'[p] = Idle
  BY <1>5a DEF Finish, Goto, Sound, RTypeOK
<1>6. ASSUME NEW p \in Web, Verify(p) PROVE RefersWell'
  <2>1. ASSUME NEW i \in DOMAIN otp, VerifyEnter(p, i) PROVE RefersWell'
    <3>1. web'[p] = [pc |-> "entered", row |-> i]
      BY <2>1 DEF VerifyEnter, Goto, Sound, RTypeOK
    <3>2. otp[i].sent /\ UNCHANGED otp
      BY <2>1 DEF VerifyEnter, Opens
    <3>3. Relies(p)'
      BY <3>1, <3>2 DEF Relies, At
    <3>4. QED
      BY <2>1, <3>3, <1>0, <1>0c, WebStep DEF VerifyEnter
  <2>2. CASE VerifySave(p)
    <3> DEFINE i == web[p].row
    <3>1. i \in DOMAIN otp /\ otp[i].sent
      BY <2>2, <1>0b DEF VerifySave, Relies, At
    <3>2. CASE UNCHANGED otp /\ Finish(p)
      BY <2>2, <3>2, <1>0c, <1>5, <1>5a DEF VerifySave
    <3>3. CASE otp' = [otp EXCEPT ![i].verified = clock]
      <4>1. RowsWell'
        BY <2>2, <3>1, <3>3, <1>0, SpendKept DEF VerifySave
      <4>2. CASE Finish(p)
        BY <2>2, <4>1, <4>2, <1>5, <1>5a DEF VerifySave
      <4>3. CASE otp[i].purpose = ToVerify /\ Goto(p, [pc |-> "flag", row |-> i])
        <5>1. web'[p] = [pc |-> "flag", row |-> i]
          BY <4>3 DEF Goto, Sound, RTypeOK
        <5>2. otp[i] \in Row /\ clock \in Nat \ {0}
          BY <3>1, RowType DEF Sound, RTypeOK
        <5>3. /\ i \in DOMAIN otp'
              /\ otp'[i].verified # 0 /\ otp'[i].sent /\ otp'[i].purpose = ToVerify
          <6>1. otp'[i] = [otp[i] EXCEPT !.verified = clock] /\ DOMAIN otp' = DOMAIN otp
            BY <3>1, <3>3, <1>0a
          <6>2. otp'[i].verified = clock /\ otp'[i].sent /\ otp'[i].purpose = ToVerify
            BY <3>1, <4>3, <5>2, <6>1 DEF Row
          <6>3. QED
            BY <3>1, <5>2, <6>1, <6>2
        <5>4. web'[p].pc = "flag" /\ web'[p].row = i
          BY <5>1
        <5>5. Relies(p)'
          BY <5>4, <5>3 DEF Relies, At, Proven, NotYet
        <5>6. QED
          BY <2>2, <4>1, <4>3, <5>5, <1>0, WebStep DEF VerifySave
      <4>4. QED
        BY <2>2, <3>3, <3>2, <4>2, <4>3 DEF VerifySave
    <3>4. QED
      BY <2>2, <3>2, <3>3 DEF VerifySave
  <2>3. CASE VerifyFlag(p)
    BY <2>3, <1>0c, <1>5, <1>5a DEF VerifyFlag
  <2>4. QED
    BY <1>6, <2>1, <2>2, <2>3 DEF Verify
<1>7. ASSUME NEW p \in Web, Register(p) PROVE RefersWell'
  <2>1. ASSUME NEW gives \in Addresses, RegisterCheck(p, gives) PROVE RefersWell'
    <3>1. web'[p] = [pc |-> "valid", gives |-> gives]
      BY <2>1 DEF RegisterCheck, Goto, Sound, RTypeOK
    <3>2. Relies(p)'
      BY <3>1 DEF Relies, At
    <3>3. QED
      BY <2>1, <3>2, <1>0, <1>0c, WebStep DEF RegisterCheck
  <2>2. CASE RegisterFlags(p)
    <3> DEFINE r == [pc |-> "flagged", gives |-> web[p].gives,
                     flags |-> {Kind(d) : d \in {e \in web[p].gives : Valid(e) # {}}}]
    <3>1. Goto(p, r)
      BY <2>2 DEF RegisterFlags
    <3>2. web'[p] = r
      BY <3>1 DEF Goto, Sound, RTypeOK
    <3>3. web'[p].pc = "flagged"
      BY <3>2
    <3>4. Relies(p)'
      BY <3>3 DEF Relies, At
    <3>5. QED
      BY <2>2, <3>1, <3>4, <1>0, <1>0c, WebStep DEF RegisterFlags
  <2>3. ASSUME NEW u \in Users, RegisterInsert(p, u) PROVE RefersWell'
    <3> DEFINE r == [pc |-> "consume", user |-> u, left |-> web[p].gives]
    <3>1. Goto(p, r) /\ web'[p] = r
      BY <2>3 DEF RegisterInsert, Goto, Sound, RTypeOK
    <3>2. account'[u] = [owns |-> web[p].gives, born |-> web[p].gives,
                         flags |-> web[p].flags, blocked |-> FALSE, password |-> 0]
      BY <2>3 DEF RegisterInsert, Sound, RTypeOK
    <3>3. Exists(u)'
      BY <3>2 DEF Exists, NoAccount
    <3>4. Relies(p)'
      BY <3>1, <3>3 DEF Relies, At, Exists
    <3>5. QED
      BY <2>3, <3>1, <3>4, <1>0, <1>0c, WebStep DEF RegisterInsert
  <2>4. CASE RegisterLatest(p)
    <3>1. web[p].user \in Users /\ account'[web[p].user] # NoAccount
      <4>1. web[p].user \in Users
        BY <2>4, RequestType DEF RegisterLatest, At, Sound
      <4>2. Exists(web[p].user)
        BY <2>4, <1>0b DEF RegisterLatest, Relies, At
      <4>3. QED
        BY <4>1, <4>2, <1>0 DEF AccountsStay, Exists
    <3>2. CASE Finish(p)
      BY <2>4, <3>2, <1>0c, <1>5, <1>5a DEF RegisterLatest
    <3>3. ASSUME NEW d \in Dests, NEW r,
                 r = [pc |-> "consume", user |-> web[p].user, left |-> web[p].left \ {d}],
                 Goto(p, r)
          PROVE  RefersWell'
      <4>1. web'[p] = r
        BY <3>3 DEF Goto, Sound, RTypeOK
      <4>2. Relies(p)'
        BY <3>1, <3>3, <4>1 DEF Relies, At, Exists
      <4>3. QED
        BY <2>4, <3>3, <4>2, <1>0, <1>0c, WebStep DEF RegisterLatest
    <3>4. ASSUME NEW d \in Dests, NEW i \in Valid(d), NEW r,
                 r = [pc |-> "consuming", user |-> web[p].user,
                      left |-> web[p].left \ {d}, row |-> i],
                 Goto(p, r)
          PROVE  RefersWell'
      <4>1. web'[p] = r
        BY <3>4 DEF Goto, Sound, RTypeOK
      <4>2. i \in DOMAIN otp /\ otp[i].purpose = ToRegister /\ UNCHANGED otp
        BY <2>4 DEF RegisterLatest, Valid
      <4>3. Relies(p)'
        BY <3>1, <3>4, <4>1, <4>2 DEF Relies, At, Exists
      <4>4. QED
        BY <2>4, <3>4, <4>3, <1>0, <1>0c, WebStep DEF RegisterLatest
    <3>5. ASSUME NEW d \in Dests,
                 \/ Goto(p, [pc |-> "consume", user |-> web[p].user,
                             left |-> web[p].left \ {d}])
                 \/ \E i \in Valid(d) :
                      Goto(p, [pc |-> "consuming", user |-> web[p].user,
                               left |-> web[p].left \ {d}, row |-> i])
          PROVE  RefersWell'
      BY <3>5, <3>3, <3>4
    <3>6. Finish(p) \/ \E d \in Dests :
             \/ Goto(p, [pc |-> "consume", user |-> web[p].user,
                         left |-> web[p].left \ {d}])
             \/ \E i \in Valid(d) :
                  Goto(p, [pc |-> "consuming", user |-> web[p].user,
                           left |-> web[p].left \ {d}, row |-> i])
      BY <2>4, Zenon DEF RegisterLatest
    <3>7. QED
      BY <3>2, <3>5, <3>6, Zenon
  <2>5. CASE RegisterConsume(p)
    <3> DEFINE i == web[p].row
               u == web[p].user
    <3>1. i \in DOMAIN otp /\ otp[i].purpose = ToRegister /\ u \in Users
          /\ account'[u] # NoAccount
      <4>1. u \in Users
        BY <2>5, RequestType DEF RegisterConsume, At, Sound
      <4>2. i \in DOMAIN otp /\ otp[i].purpose = ToRegister /\ Exists(u)
        BY <2>5, <1>0b DEF RegisterConsume, Relies, At
      <4>3. QED
        BY <4>1, <4>2, <1>0 DEF AccountsStay, Exists
    <3>2. CASE UNCHANGED otp /\ Finish(p)
      BY <2>5, <3>2, <1>0c, <1>5, <1>5a DEF RegisterConsume
    <3>3. CASE otp' = [otp EXCEPT ![i].user = u]
               /\ Goto(p, [pc |-> "consume", user |-> u, left |-> web[p].left])
      <4>1. ASSUME NEW k \in DOMAIN otp' PROVE OwnedBy(otp[k].user, otp[k].purpose)' /\ otp'[k].verified <= clock'
        <5>1. k \in DOMAIN otp /\ otp[k] \in Row
          BY <3>3, RowType DEF Sound
        <5>2. /\ otp'[k].purpose = otp[k].purpose
              /\ otp'[k].verified = otp[k].verified
              /\ otp'[k].user = otp[k].user \/ otp'[k].user = u
              /\ UNCHANGED clock
          <6>1. UNCHANGED clock
            BY <2>5 DEF RegisterConsume
          <6>2. CASE k = i
            <7>1. otp'[k] = [otp[k] EXCEPT !.user = u]
              BY <3>1, <3>3, <6>2, <1>0a
            <7>2. QED
              BY <5>1, <6>1, <7>1 DEF Row
          <6>3. CASE k # i
            BY <3>3, <5>1, <6>1, <6>3, <1>0a
          <6>4. QED
            BY <6>2, <6>3
        <5>3. CASE otp'[k].user = u
          BY <3>1, <5>1, <5>2, <5>3, <1>0b DEF OwnedBy, Exists, RowsWell
        <5>4. CASE otp'[k].user = otp[k].user
          BY <5>1, <5>2, <5>4, <1>0, <1>0b, OwnedStays DEF RowsWell, OwnedBy, Exists
        <5>5. QED
          BY <5>2, <5>3, <5>4
      <4>2. RowsWell'
        BY <4>1 DEF RowsWell, OwnedBy, Exists
      <4>3. web'[p] = [pc |-> "consume", user |-> u, left |-> web[p].left]
        BY <3>3 DEF Goto, Sound, RTypeOK
      <4>4. Relies(p)'
        BY <3>1, <4>3 DEF Relies, At, Exists
      <4>5. QED
        BY <2>5, <3>3, <4>2, <4>4, <1>0, WebStep DEF RegisterConsume
    <3>4. QED
      BY <2>5, <3>2, <3>3 DEF RegisterConsume
  <2>6. QED
    BY <1>7, <2>1, <2>2, <2>3, <2>4, <2>5 DEF Register
<1>8. ASSUME NEW p \in Web, Reset(p) PROVE RefersWell'
  <2>1. ASSUME NEW i \in DOMAIN otp, ResetEnter(p, i) PROVE RefersWell'
    <3>1. web'[p] = [pc |-> "confirmed", row |-> i]
      BY <2>1 DEF ResetEnter, Goto, Sound, RTypeOK
    <3>2. otp[i].sent /\ otp[i].purpose = ToReset /\ UNCHANGED otp
      BY <2>1 DEF ResetEnter, Opens, Newest, Requested
    <3>3. Relies(p)'
      BY <3>1, <3>2 DEF Relies, At
    <3>4. QED
      BY <2>1, <3>3, <1>0, <1>0c, WebStep DEF ResetEnter
  <2>2. CASE ResetSpend(p)
    <3> DEFINE i == web[p].row
    <3>1. i \in DOMAIN otp /\ otp[i].sent /\ otp[i].purpose = ToReset
      BY <2>2, <1>0b DEF ResetSpend, Relies, At
    <3>2. CASE UNCHANGED otp /\ Finish(p)
      BY <2>2, <3>2, <1>0c, <1>5, <1>5a DEF ResetSpend
    <3>3. CASE otp' = [otp EXCEPT ![i].verified = clock]
               /\ Goto(p, [pc |-> "resetting", row |-> i])
      <4>1. RowsWell'
        BY <2>2, <3>1, <3>3, <1>0, SpendKept DEF ResetSpend
      <4>2. web'[p] = [pc |-> "resetting", row |-> i]
        BY <3>3 DEF Goto, Sound, RTypeOK
      <4>3. otp[i] \in Row /\ clock \in Nat \ {0}
        BY <3>1, RowType DEF Sound, RTypeOK
      <4>4. /\ i \in DOMAIN otp'
            /\ otp'[i].verified # 0 /\ otp'[i].sent /\ otp'[i].purpose = ToReset
        <5>1. otp'[i] = [otp[i] EXCEPT !.verified = clock] /\ DOMAIN otp' = DOMAIN otp
          BY <3>1, <3>3, <1>0a
        <5>2. otp'[i].verified = clock /\ otp'[i].sent /\ otp'[i].purpose = ToReset
          BY <3>1, <4>3, <5>1 DEF Row
        <5>3. QED
          BY <3>1, <4>3, <5>1, <5>2
      <4>5. web'[p].pc = "resetting" /\ web'[p].row = i
        BY <4>2
      <4>6. Relies(p)'
        BY <4>5, <4>4 DEF Relies, At, Proven, NotYet
      <4>7. QED
        BY <2>2, <3>3, <4>1, <4>6, <1>0, WebStep DEF ResetSpend
    <3>4. QED
      BY <2>2, <3>2, <3>3 DEF ResetSpend
  <2>3. CASE ResetSet(p)
    BY <2>3, <1>0c, <1>5, <1>5a DEF ResetSet
  <2>4. QED
    BY <1>8, <2>1, <2>2, <2>3 DEF Reset
<1>9. ASSUME NEW p \in Web, Edit(p) PROVE RefersWell'
  <2>1. ASSUME NEW u \in Users, EditLoad(p, u) PROVE RefersWell'
    <3>1. web'[p] = [pc |-> "edit", user |-> u, copy |-> account[u]]
      BY <2>1 DEF EditLoad, Goto, Sound, RTypeOK
    <3>2. Relies(p)'
      BY <2>1, <3>1 DEF Relies, At, EditLoad, Exists
    <3>3. QED
      BY <2>1, <3>2, <1>0, <1>0c, WebStep DEF EditLoad
  <2>2. ASSUME NEW owns \in Addresses, NEW blocked \in BOOLEAN, EditSave(p, owns, blocked)
        PROVE  RefersWell'
    BY <2>2, <1>0c, <1>5, <1>5a DEF EditSave
  <2>3. QED
    BY <1>9, <2>1, <2>2 DEF Edit
<1>10. ASSUME NEW p \in Web, WebDies(p) PROVE RefersWell'
  BY <1>10, <1>0c, <1>5, <1>5a DEF WebDies
<1> QED
  BY <1>1, <1>2, <1>3, <1>4, <1>6, <1>7, <1>8, <1>9, <1>10 DEF RNext
-----------------------------------------------------------------------------
LEMMA SoundAlways == RSpec => []Sound
<1>1. Sound /\ UNCHANGED rvars => Sound'
  <2> SUFFICES ASSUME Sound, UNCHANGED rvars PROVE Sound'
    OBVIOUS
  <2>1. RTypeOK'
    BY DEF Sound, RTypeOK, rvars
  <2>2. RefersWell'
    BY DEF Sound, RefersWell, RowsWell, JobWell, Relies, OwnedBy, Exists, Proven,
           At, rvars
  <2>3. QED
    BY <2>1, <2>2 DEF Sound
<1>2. Sound /\ [RNext]_rvars => Sound'
  BY <1>1, SoundStep
<1> QED
  BY InitSound, <1>2, PTL DEF RSpec

(* Rows, users, requests and deliveries keep their types, for any number   *)
(* of processes and any limits.                                            *)
THEOREM RegistrationTypes == RSpec => []RTypeOK
<1>1. Sound => RTypeOK
  BY DEF Sound
<1> QED
  BY <1>1, SoundAlways, PTL

(* No step of a request, of the worker or of the clean-up takes back what  *)
(* the row of a code says: spent, consumed and deleted rows stay so.       *)
THEOREM RowsForward == RSpec => RowsMoveForward
<1> DEFINE Forward ==
      \A i \in DOMAIN otp :
        /\ i \in DOMAIN otp'
        /\ otp'[i].verified >= otp[i].verified
        /\ otp[i].user # NoUser => otp'[i].user # NoUser
        /\ otp[i].gone => otp'[i].gone
<1>1. ASSUME Sound, RNext PROVE Forward
  BY <1>1, Growth, RegistrationAssumption DEF RowsGrow
<1>2. Sound /\ [RNext]_rvars => [Forward]_rvars
  BY <1>1
<1> QED
  BY <1>2, SoundAlways, PTL DEF RSpec, RowsMoveForward

(* Whatever codes are entered, an account keeps its addresses, its block   *)
(* and its flags unless an edit of that account is being saved.            *)
THEOREM CodesAddOnly == RSpec => CodesUndoNothing
<1> DEFINE Unharmed(u) ==
      \/ EditsOnly(u)
      \/ /\ account'[u].owns = account[u].owns
         /\ account'[u].blocked = account[u].blocked
         /\ account[u].flags \subseteq account'[u].flags
<1>1. ASSUME Sound, RNext, NEW u \in Users, Exists(u) PROVE Unharmed(u)
  <2>1. account[u] \in Account /\ account \in [Users -> Account \cup {NoAccount}]
    BY <1>1, AccountType DEF Sound, RTypeOK
  <2>2. CASE UNCHANGED account
    BY <2>2
  <2>3. ASSUME NEW p \in Web, VerifyFlag(p) PROVE Unharmed(u)
    BY <2>1, <2>3 DEF VerifyFlag, Account
  <2>4. ASSUME NEW p \in Web, NEW v \in Users, RegisterInsert(p, v) PROVE Unharmed(u)
    <3>1. account'[u] = account[u]
      BY <1>1, <2>1, <2>4 DEF RegisterInsert
    <3>2. QED
      BY <3>1
  <2>5. ASSUME NEW p \in Web, ResetSet(p) PROVE Unharmed(u)
    BY <2>1, <2>5 DEF ResetSet, Account
  <2>6. ASSUME NEW p \in Web, NEW owns \in Addresses, NEW blocked \in BOOLEAN,
               EditSave(p, owns, blocked)
        PROVE  Unharmed(u)
    <3>1. CASE web[p].user = u
      BY <1>1, <2>6, <3>1 DEF EditSave, EditsOnly, Finish, Goto, Sound, RTypeOK
    <3>2. CASE web[p].user # u
      <4>1. account'[u] = account[u]
        BY <2>1, <2>6, <3>2 DEF EditSave
      <4>2. QED
        BY <4>1
    <3>3. QED
      BY <3>1, <3>2
  <2>7. CASE Tick \/ Cleanup \/ \E j \in Deliveries : Delivery(j)
    BY <2>2, <2>7 DEF Tick, Cleanup, Delivery, DeliveryMake, DeliverySend, DeliveryDies
  <2>8. ASSUME NEW p \in Web, Ask(p) \/ WebDies(p) PROVE Unharmed(u)
    BY <2>2, <2>8 DEF Ask, AskCheck, AskQueue, WebDies
  <2>9. ASSUME NEW p \in Web, Verify(p) PROVE Unharmed(u)
    BY <2>2, <2>3, <2>9 DEF Verify, VerifyEnter, VerifySave
  <2>10. ASSUME NEW p \in Web, Register(p) PROVE Unharmed(u)
    BY <2>2, <2>4, <2>10 DEF Register, RegisterCheck, RegisterFlags, RegisterLatest,
                             RegisterConsume
  <2>11. ASSUME NEW p \in Web, Reset(p) PROVE Unharmed(u)
    BY <2>2, <2>5, <2>11 DEF Reset, ResetEnter, ResetSpend
  <2>12. ASSUME NEW p \in Web, Edit(p) PROVE Unharmed(u)
    BY <2>2, <2>6, <2>12 DEF Edit, EditLoad
  <2>13. QED
    BY <1>1, <2>7, <2>8, <2>9, <2>10, <2>11, <2>12 DEF RNext
<1>2. Sound /\ [RNext]_rvars => [\A u \in Users : Exists(u) => Unharmed(u)]_rvars
  BY <1>1
<1> QED
  BY <1>2, SoundAlways, PTL DEF RSpec, CodesUndoNothing
-----------------------------------------------------------------------------
(* What the rows t vouch for.                                              *)
ProvenIn(t, i) == t[i].verified # NotYet /\ t[i].sent

GaveProof(t, d) ==
  \E i \in DOMAIN t : t[i].dest = d /\ t[i].purpose = ToRegister /\ ProvenIn(t, i)

FlagProven(t, u, born, k) ==
  \E i \in DOMAIN t :
    /\ Kind(t[i].dest) = k
    /\ ProvenIn(t, i)
    /\ \/ t[i].purpose = ToVerify /\ t[i].user = u
       \/ t[i].purpose = ToRegister /\ t[i].dest \in born

PasswordProven(t, u, i) ==
  /\ i \in DOMAIN t
  /\ t[i].user = u /\ t[i].purpose = ToReset /\ ProvenIn(t, i)

Vouches(t, u, a) ==
  /\ \A d \in a.born : GaveProof(t, d)
  /\ \A k \in a.flags : FlagProven(t, u, a.born, k)
  /\ a.password # 0 => PasswordProven(t, u, a.password)

(* What a request carries has been proven before.                          *)
Carries(t, r) ==
  /\ r.pc = "edit" => Vouches(t, r.user, r.copy)
  /\ r.pc \in {"valid", "flagged"} => \A d \in r.gives : GaveProof(t, d)
  /\ r.pc = "flagged" => \A k \in r.flags : \E d \in r.gives : Kind(d) = k

SentFirst(t) == \A i \in DOMAIN t : t[i].verified # NotYet => t[i].sent

Vouched ==
  /\ SentFirst(otp)
  /\ \A u \in Users : Exists(u) => Vouches(otp, u, account[u])
  /\ \A p \in Web : Carries(otp, web[p])

LEMMA ProofStays ==
  ASSUME RTypeOK, RTypeOK', RowsGrow, NEW i \in DOMAIN otp, ProvenIn(otp, i)
  PROVE  ProvenIn(otp', i)
<1>1. otp[i] \in Row /\ otp'[i] \in Row
  BY RowType DEF RTypeOK, RowsGrow
<1>2. QED
  BY <1>1 DEF ProvenIn, RowsGrow, Row, NotYet

LEMMA VouchesStays ==
  ASSUME RTypeOK, RTypeOK', RowsGrow, NEW u, NEW a, Vouches(otp, u, a)
  PROVE  Vouches(otp', u, a)
<1>1. ASSUME NEW d, GaveProof(otp, d) PROVE GaveProof(otp', d)
  BY <1>1, ProofStays DEF GaveProof, RowsGrow
<1>2. ASSUME NEW k, FlagProven(otp, u, a.born, k) PROVE FlagProven(otp', u, a.born, k)
  <2>1. PICK i \in DOMAIN otp :
          /\ Kind(otp[i].dest) = k
          /\ ProvenIn(otp, i)
          /\ \/ otp[i].purpose = ToVerify /\ otp[i].user = u
             \/ otp[i].purpose = ToRegister /\ otp[i].dest \in a.born
    BY <1>2 DEF FlagProven
  <2>2. i \in DOMAIN otp' /\ ProvenIn(otp', i)
        /\ otp'[i].dest = otp[i].dest /\ otp'[i].purpose = otp[i].purpose
    BY <2>1, ProofStays DEF RowsGrow
  <2>3. otp[i].purpose = ToVerify => otp'[i].user = otp[i].user
    BY DEF RowsGrow, ToVerify, ToRegister
  <2>4. QED
    BY <2>1, <2>2, <2>3 DEF FlagProven
<1>3. ASSUME NEW i, PasswordProven(otp, u, i) PROVE PasswordProven(otp', u, i)
  BY <1>3, ProofStays DEF PasswordProven, RowsGrow, ToReset, ToRegister
<1>4. QED
  BY <1>1, <1>2, <1>3 DEF Vouches

LEMMA CarriesStays ==
  ASSUME RTypeOK, RTypeOK', RowsGrow, NEW r, Carries(otp, r)
  PROVE  Carries(otp', r)
<1>1. ASSUME NEW d, GaveProof(otp, d) PROVE GaveProof(otp', d)
  BY <1>1, ProofStays DEF GaveProof, RowsGrow
<1>2. QED
  BY <1>1, VouchesStays DEF Carries

(* A row is marked verified only by who entered its code after it arrived. *)
LEMMA SentFirstStep ==
  ASSUME Sound, RNext, SentFirst(otp)
  PROVE  SentFirst(otp')
<1>0. RowsGrow /\ otp \in Seq(Row)
  BY Growth DEF Sound, RTypeOK
<1>0a. \A p \in Web : Relies(p)
  BY DEF Sound, RefersWell
<1>1. CASE \A i \in DOMAIN otp' : i \in DOMAIN otp /\ otp'[i].verified = otp[i].verified
  BY <1>0, <1>1 DEF SentFirst, RowsGrow
<1>2. CASE Cleanup
  <2>1. ASSUME NEW i \in DOMAIN otp'
        PROVE  i \in DOMAIN otp /\ otp'[i].verified = otp[i].verified
    <3>1. i \in DOMAIN otp /\ otp[i] \in Row
      BY <1>2, RowType DEF Cleanup, Sound
    <3>2. otp'[i] = [otp[i] EXCEPT !.gone = @ \/ otp[i].made + Ttl < clock]
      BY <1>2, <3>1 DEF Cleanup
    <3>3. QED
      BY <3>1, <3>2 DEF Row
  <2>2. QED
    BY <1>1, <2>1
<1>3. ASSUME NEW j \in Deliveries, DeliveryMake(j) PROVE SentFirst(otp')
  <2>1. ASSUME NEW i \in DOMAIN otp', otp'[i].verified # NotYet PROVE otp'[i].sent
    <3>1. CASE i \in DOMAIN otp
      BY <1>0, <1>3, <2>1, <3>1 DEF DeliveryMake, SentFirst
    <3>2. CASE i = Len(otp) + 1
      BY <1>0, <1>3, <2>1, <3>2 DEF DeliveryMake
    <3>3. QED
      BY <1>0, <1>3, <3>1, <3>2 DEF DeliveryMake
  <2>2. QED
    BY <2>1 DEF SentFirst
<1>4. ASSUME NEW j \in Deliveries, DeliverySend(j) PROVE SentFirst(otp')
  <2>1. ASSUME NEW i \in DOMAIN otp'
        PROVE  i \in DOMAIN otp /\ otp'[i].verified = otp[i].verified
    <3>1. i \in DOMAIN otp
      BY <1>4 DEF DeliverySend
    <3>2. otp[i] \in Row
      BY <3>1, RowType DEF Sound
    <3>3. QED
      BY <1>0, <1>4, <3>1, <3>2 DEF DeliverySend, Row
  <2>2. QED
    BY <1>1, <2>1
<1>5. ASSUME NEW k \in DOMAIN otp, otp[k].sent, otp' = [otp EXCEPT ![k].verified = clock]
      PROVE  SentFirst(otp')
  <2>1. ASSUME NEW i \in DOMAIN otp', otp'[i].verified # NotYet PROVE otp'[i].sent
    <3>1. i \in DOMAIN otp /\ otp[i] \in Row
      BY <1>5, RowType DEF Sound
    <3>2. CASE i = k
      BY <1>0, <1>5, <3>1, <3>2 DEF RowsGrow
    <3>3. CASE i # k
      BY <1>5, <2>1, <3>1, <3>3 DEF SentFirst
    <3>4. QED
      BY <3>2, <3>3
  <2>2. QED
    BY <2>1 DEF SentFirst
<1>6. ASSUME NEW p \in Web, Register(p) PROVE SentFirst(otp')
  <2>1. CASE RegisterConsume(p)
    <3> DEFINE k == web[p].row
    <3>1. CASE otp' = [otp EXCEPT ![k].user = web[p].user]
      <4>1. ASSUME NEW i \in DOMAIN otp'
            PROVE  i \in DOMAIN otp /\ otp'[i].verified = otp[i].verified
        <5>1. i \in DOMAIN otp /\ otp[i] \in Row
          BY <3>1, RowType DEF Sound
        <5>2. QED
          BY <1>0, <3>1, <5>1 DEF Row
      <4>2. QED
        BY <1>1, <4>1
    <3>2. CASE UNCHANGED otp
      BY <1>1, <3>2
    <3>3. QED
      BY <2>1, <3>1, <3>2 DEF RegisterConsume
  <2>2. CASE UNCHANGED otp
    BY <1>1, <2>2
  <2>3. QED
    BY <1>6, <2>1, <2>2 DEF Register, RegisterCheck, RegisterFlags, RegisterInsert,
                            RegisterLatest
<1>7. ASSUME NEW p \in Web, Verify(p) \/ Reset(p) PROVE SentFirst(otp')
  <2>1. CASE UNCHANGED otp
    BY <1>1, <2>1
  <2>2. CASE VerifySave(p) \/ ResetSpend(p)
    <3>1. web[p].row \in DOMAIN otp /\ otp[web[p].row].sent
      BY <1>0a, <2>2 DEF Relies, VerifySave, ResetSpend, At
    <3>2. UNCHANGED otp \/ otp' = [otp EXCEPT ![web[p].row].verified = clock]
      BY <2>2 DEF VerifySave, ResetSpend
    <3>3. QED
      BY <1>5, <2>1, <3>1, <3>2
  <2>3. QED
    BY <1>7, <2>1, <2>2 DEF Verify, VerifyEnter, VerifyFlag, Reset, ResetEnter, ResetSet
<1>8. CASE UNCHANGED otp
  BY <1>1, <1>8
<1> QED
  BY <1>2, <1>3, <1>4, <1>6, <1>7, <1>8
     DEF RNext, Tick, Delivery, DeliveryDies, Ask, AskCheck, AskQueue,
         Edit, EditLoad, EditSave, WebDies
-----------------------------------------------------------------------------
LEMMA VouchFrame ==
  ASSUME Sound, RNext, Vouched,
         \A u \in Users : \/ account'[u] = account[u]
                         \/ Vouches(otp', u, account'[u]),
         \A q \in Web : web'[q] = web[q] \/ Carries(otp', web'[q])
  PROVE  Vouched'
<1>0. RowsGrow /\ RTypeOK /\ RTypeOK'
  BY Growth, TypeStep DEF Sound
<1>1. SentFirst(otp')
  BY SentFirstStep DEF Vouched
<1>2. ASSUME NEW u \in Users, account'[u] # NoAccount PROVE Vouches(otp', u, account'[u])
  BY <1>0, <1>2, VouchesStays DEF Vouched, Exists
<1>3. ASSUME NEW q \in Web PROVE Carries(otp', web'[q])
  BY <1>0, CarriesStays DEF Vouched
<1>4. QED
  BY <1>1, <1>2, <1>3 DEF Vouched, Exists

LEMMA LittleCarried ==
  ASSUME NEW t, NEW r, r.pc \notin {"edit", "valid", "flagged"}
  PROVE  Carries(t, r)
BY DEF Carries

LEMMA VouchStep ==
  ASSUME Sound, RNext, Vouched
  PROVE  Vouched'
<1>0. /\ RowsGrow /\ otp \in Seq(Row) /\ RTypeOK
      /\ account \in [Users -> Account \cup {NoAccount}]
      /\ web \in [Web -> Request \cup {Idle}]
  BY Growth DEF Sound, RTypeOK
<1>0a. /\ SentFirst(otp)
       /\ \A u \in Users : Exists(u) => Vouches(otp, u, account[u])
       /\ \A p \in Web : Carries(otp, web[p]) /\ Relies(p)
  BY DEF Vouched, Sound, RefersWell
<1>1. ASSUME UNCHANGED <<account, web>> PROVE Vouched'
  BY <1>1, VouchFrame
<1>2. ASSUME NEW p \in Web, NEW r, Goto(p, r), Carries(otp', r), UNCHANGED account
      PROVE  Vouched'
  <2>1. \A q \in Web : web'[q] = web[q] \/ Carries(otp', web'[q])
    BY <1>0, <1>2 DEF Goto
  <2>2. QED
    BY <1>2, <2>1, VouchFrame
<1>3. ASSUME NEW p \in Web, NEW r, Goto(p, r), UNCHANGED account,
             r.pc \notin {"edit", "valid", "flagged"}
      PROVE  Vouched'
  BY <1>2, <1>3, LittleCarried
<1>4. ASSUME NEW p \in Web, Finish(p), UNCHANGED account PROVE Vouched'
  BY <1>3, <1>4 DEF Finish, Idle
<1>5. ASSUME NEW p \in Web, NEW r, Goto(p, r), r.pc \notin {"edit", "valid", "flagged"},
             NEW u \in Users, NEW a, account' = [account EXCEPT ![u] = a],
             Vouches(otp', u, a)
      PROVE  Vouched'
  <2>1. \A q \in Web : web'[q] = web[q] \/ Carries(otp', web'[q])
    BY <1>0, <1>5, LittleCarried DEF Goto
  <2>2. \A v \in Users : account'[v] = account[v] \/ Vouches(otp', v, account'[v])
    BY <1>0, <1>5
  <2>3. QED
    BY <2>1, <2>2, VouchFrame
<1>6. ASSUME NEW d \in Dests, Valid(d) # {} PROVE GaveProof(otp, d)
  BY <1>0a, <1>6 DEF Valid, GaveProof, ProvenIn, SentFirst
<1>7. CASE Tick \/ Cleanup \/ \E j \in Deliveries : Delivery(j)
  BY <1>1, <1>7 DEF Tick, Cleanup, Delivery, DeliveryMake, DeliverySend, DeliveryDies
<1>8. ASSUME NEW p \in Web, Ask(p) PROVE Vouched'
  <2>1. CASE \E j \in Deliveries : AskQueue(p, j)
    BY <1>4, <2>1 DEF AskQueue
  <2>2. ASSUME NEW who \in Users \cup {NoUser}, NEW d \in Dests, NEW purpose \in Purposes,
               AskCheck(p, who, d, purpose)
        PROVE  Vouched'
    BY <1>3, <2>2 DEF AskCheck
  <2>3. QED
    BY <1>8, <2>1, <2>2 DEF Ask
<1>9. ASSUME NEW p \in Web, Verify(p) PROVE Vouched'
  <2>1. ASSUME NEW i \in DOMAIN otp, VerifyEnter(p, i) PROVE Vouched'
    BY <1>3, <2>1 DEF VerifyEnter
  <2>2. CASE VerifySave(p)
    BY <1>3, <1>4, <2>2 DEF VerifySave
  <2>3. CASE VerifyFlag(p)
    <3> DEFINE i == web[p].row
               u == otp[i].user
               a == [account[u] EXCEPT !.flags = @ \cup {Kind(otp[i].dest)}]
    <3>1. i \in DOMAIN otp /\ Proven(i) /\ otp[i].purpose = ToVerify
      BY <1>0a, <2>3 DEF VerifyFlag, Relies, At
    <3>2. u \in Users /\ Exists(u)
      BY <3>1 DEF Sound, RefersWell, RowsWell, OwnedBy, ToVerify, ToRegister
    <3>3. account[u] \in Account /\ Vouches(otp, u, account[u])
      BY <1>0, <1>0a, <3>2, AccountType
    <3>4. /\ a.flags = account[u].flags \cup {Kind(otp[i].dest)}
          /\ a.born = account[u].born
          /\ a.password = account[u].password
      BY <3>3 DEF Account
    <3>5. FlagProven(otp, u, a.born, Kind(otp[i].dest))
      BY <3>1 DEF FlagProven, ProvenIn, Proven
    <3>6. Vouches(otp, u, a)
      BY <3>3, <3>4, <3>5 DEF Vouches
    <3>7. UNCHANGED otp /\ Finish(p) /\ account' = [account EXCEPT ![u] = a]
      BY <1>0, <2>3, <3>2 DEF VerifyFlag
    <3>8. QED
      BY <1>5, <3>2, <3>6, <3>7 DEF Finish, Idle
  <2>4. QED
    BY <1>9, <2>1, <2>2, <2>3 DEF Verify
<1>10. ASSUME NEW p \in Web, Register(p) PROVE Vouched'
  <2>1. ASSUME NEW gives \in Addresses, RegisterCheck(p, gives) PROVE Vouched'
    <3>1. \A d \in gives : GaveProof(otp, d)
      BY <1>6, <2>1 DEF RegisterCheck, Addresses
    <3>2. Carries(otp', [pc |-> "valid", gives |-> gives])
      BY <2>1, <3>1 DEF RegisterCheck, Carries
    <3>3. QED
      BY <1>2, <2>1, <3>2 DEF RegisterCheck
  <2>2. CASE RegisterFlags(p)
    <3> DEFINE r == [pc |-> "flagged", gives |-> web[p].gives,
                     flags |-> {Kind(d) : d \in {e \in web[p].gives : Valid(e) # {}}}]
    <3>1. \A d \in web[p].gives : GaveProof(otp, d)
      BY <1>0a, <2>2 DEF RegisterFlags, Carries, At
    <3>2. \A k \in r.flags : \E d \in r.gives : Kind(d) = k
      OBVIOUS
    <3>3. Carries(otp', r)
      BY <2>2, <3>1, <3>2 DEF RegisterFlags, Carries
    <3>4. QED
      BY <1>2, <2>2, <3>3 DEF RegisterFlags
  <2>3. ASSUME NEW u \in Users, RegisterInsert(p, u) PROVE Vouched'
    <3> DEFINE a == [owns |-> web[p].gives, born |-> web[p].gives,
                     flags |-> web[p].flags, blocked |-> FALSE, password |-> 0]
    <3>1. /\ \A d \in web[p].gives : GaveProof(otp, d)
          /\ \A k \in web[p].flags : \E d \in web[p].gives : Kind(d) = k
      BY <1>0a, <2>3 DEF RegisterInsert, Carries, At
    <3>2. \A k \in web[p].flags : FlagProven(otp, u, web[p].gives, k)
      BY <3>1 DEF GaveProof, FlagProven
    <3>3. Vouches(otp, u, a)
      BY <3>1, <3>2 DEF Vouches
    <3>4. QED
      BY <1>5, <2>3, <3>3 DEF RegisterInsert
  <2>4. CASE RegisterLatest(p)
    BY <1>3, <1>4, <2>4 DEF RegisterLatest
  <2>5. CASE RegisterConsume(p)
    BY <1>3, <1>4, <2>5 DEF RegisterConsume
  <2>6. QED
    BY <1>10, <2>1, <2>2, <2>3, <2>4, <2>5 DEF Register
<1>11. ASSUME NEW p \in Web, Reset(p) PROVE Vouched'
  <2>1. ASSUME NEW i \in DOMAIN otp, ResetEnter(p, i) PROVE Vouched'
    BY <1>3, <2>1 DEF ResetEnter
  <2>2. CASE ResetSpend(p)
    BY <1>3, <1>4, <2>2 DEF ResetSpend
  <2>3. CASE ResetSet(p)
    <3> DEFINE i == web[p].row
               u == otp[i].user
               a == [account[u] EXCEPT !.password = i]
    <3>1. i \in DOMAIN otp /\ Proven(i) /\ otp[i].purpose = ToReset
      BY <1>0a, <2>3 DEF ResetSet, Relies, At
    <3>2. u \in Users /\ Exists(u)
      BY <3>1 DEF Sound, RefersWell, RowsWell, OwnedBy, ToReset, ToRegister
    <3>3. account[u] \in Account /\ Vouches(otp, u, account[u])
      BY <1>0, <1>0a, <3>2, AccountType
    <3>4. /\ a.flags = account[u].flags
          /\ a.born = account[u].born
          /\ a.password = i
      BY <3>3 DEF Account
    <3>5. PasswordProven(otp, u, i)
      BY <3>1 DEF PasswordProven, ProvenIn, Proven
    <3>6. Vouches(otp, u, a)
      BY <3>3, <3>4, <3>5 DEF Vouches
    <3>7. UNCHANGED otp /\ Finish(p) /\ account' = [account EXCEPT ![u] = a]
      BY <1>0, <2>3, <3>2 DEF ResetSet
    <3>8. QED
      BY <1>5, <3>2, <3>6, <3>7 DEF Finish, Idle
  <2>4. QED
    BY <1>11, <2>1, <2>2, <2>3 DEF Reset
<1>12. ASSUME NEW p \in Web, Edit(p) PROVE Vouched'
  <2>1. ASSUME NEW u \in Users, EditLoad(p, u) PROVE Vouched'
    <3>1. Carries(otp', [pc |-> "edit", user |-> u, copy |-> account[u]])
      BY <1>0a, <2>1 DEF EditLoad, Carries
    <3>2. QED
      BY <1>2, <2>1, <3>1 DEF EditLoad
  <2>2. ASSUME NEW owns \in Addresses, NEW blocked \in BOOLEAN, EditSave(p, owns, blocked)
        PROVE  Vouched'
    <3> DEFINE u == web[p].user
               c == web[p].copy
               a == [c EXCEPT !.owns = owns, !.blocked = blocked]
    <3>1. u \in Users /\ c \in Account /\ Vouches(otp, u, c)
      BY <1>0, <1>0a, <2>2, RequestType DEF EditSave, Carries, At
    <3>2. a.flags = c.flags /\ a.born = c.born /\ a.password = c.password
      BY <3>1 DEF Account
    <3>3. Vouches(otp, u, a)
      BY <3>1, <3>2 DEF Vouches
    <3>4. QED
      BY <1>5, <2>2, <3>1, <3>3 DEF EditSave, Finish, Idle
  <2>3. QED
    BY <1>12, <2>1, <2>2 DEF Edit
<1>13. ASSUME NEW p \in Web, WebDies(p) PROVE Vouched'
  BY <1>4, <1>13 DEF WebDies
<1> QED
  BY <1>7, <1>8, <1>9, <1>10, <1>11, <1>12, <1>13 DEF RNext

LEMMA InitVouched == RInit => Vouched
BY DEF RInit, Vouched, SentFirst, Vouches, Carries, Exists, MadeByStaff, NoAccount, Idle

LEMMA VouchedAlways == RSpec => []Vouched
<1>1. Vouched /\ UNCHANGED rvars => Vouched'
  BY DEF Vouched, Exists, rvars
<1>2. Sound /\ Vouched /\ [RNext]_rvars => Vouched'
  BY <1>1, VouchStep
<1> QED
  BY InitVouched, SoundAlways, <1>2, PTL DEF RSpec

(* Each address an account was registered with was proven by a code made   *)
(* to register with it, for any number of processes, codes and accounts.   *)
THEOREM AccountsProven == RSpec => []AccountsAreProven
<1>1. Vouched => AccountsAreProven
  BY DEF Vouched, Vouches, GaveProof, ProvenIn, AccountsAreProven, Proven
<1> QED
  BY <1>1, VouchedAlways, PTL

(* A flag is_..._verified has a proof of an address of its kind behind it. *)
THEOREM FlagsProven == RSpec => []FlagsAreProven
<1>1. Vouched => FlagsAreProven
  BY DEF Vouched, Vouches, FlagProven, ProvenIn, FlagsAreProven, Proven
<1> QED
  BY <1>1, VouchedAlways, PTL

(* A password that was reset was reset by a code made for that user.       *)
THEOREM PasswordsByReset == RSpec => []PasswordsComeByReset
<1>1. Vouched => PasswordsComeByReset
  BY DEF Vouched, Vouches, PasswordProven, ProvenIn, PasswordsComeByReset, Proven
<1> QED
  BY <1>1, VouchedAlways, PTL
=============================================================================
