----------------------- MODULE ConfigurationTheorems -----------------------
(***************************************************************************)
(* What holds of Configuration for any versions, items, processes and      *)
(* number of crashes.                                                      *)
(*                                                                         *)
(* For the terms, a request that takes others out of force means to put    *)
(* its own version in force (Deactivators).  For the checklist, a PUT that *)
(* has been alone since it began is the only one at work (AloneIsAlone),   *)
(* and what it still has to link was asked for (TodoIsKept).               *)
(***************************************************************************)
EXTENDS Configuration, TLAPS

Deactivators == \A p \in Web : At(p, "deactivating") => job[p].active

AloneIsAlone ==
  \A p, q \in Web : Assigning(p) /\ job[p].alone /\ Assigning(q) => p = q

TodoIsKept ==
  \A p \in Web :
    /\ Assigning(p) => job[p].todo \subseteq job[p].kept
    /\ At(p, "clearing") => job[p].todo = job[p].kept

AssignInv == AloneIsAlone /\ TodoIsKept /\ AssignedAloneIsExact
-----------------------------------------------------------------------------
TermsJob  == [pc: {"deactivating", "saving"}, version: Versions, active: BOOLEAN,
              fresh: BOOLEAN]
AssignJob == [pc: {"clearing", "linking"}, todo: SUBSET Items, kept: SUBSET Items,
              alone: BOOLEAN]

LEMMA JobKinds ==
  ASSUME CTypeOK, NEW p \in Web
  PROVE  /\ job[p] = Idle \/ job[p] \in TermsJob \/ job[p] \in AssignJob
         /\ At(p, "deactivating") \/ At(p, "saving") => job[p] \in TermsJob
         /\ Assigning(p) => job[p] \in AssignJob
         /\ job[p] = Idle => ~Assigning(p) /\ ~At(p, "deactivating") /\ ~At(p, "saving")
         /\ Assigning(p) => ~At(p, "deactivating") /\ ~At(p, "saving")
BY DEF CTypeOK, Job, TermsJob, AssignJob, At, Assigning, Idle

LEMMA JobsTyped ==
  ASSUME NEW f, NEW p \in Web, job' = [job EXCEPT ![p] = f], CTypeOK,
         f \in TermsJob \/ f \in AssignJob \/ f = Idle
  PROVE  job' \in [Web -> Job \cup {Idle}]
BY DEF CTypeOK, Job, TermsJob, AssignJob
-----------------------------------------------------------------------------
(* Rows, links and requests have their types.                              *)
LEMMA TermsTypes ==
  ASSUME CTypeOK, NEW p \in Web, SaveTerms(p) PROVE CTypeOK'
<1> USE DEF CTypeOK
<1>1. ASSUME NEW v \in Versions, NEW active \in BOOLEAN, TermsLoad(p, v, active)
      PROVE  CTypeOK'
  <2>1. [pc |-> IF active THEN "deactivating" ELSE "saving", version |-> v,
         active |-> active, fresh |-> terms[v] = Absent] \in TermsJob
    BY DEF TermsJob
  <2>2. job' \in [Web -> Job \cup {Idle}]
    BY <1>1, <2>1, JobsTyped DEF TermsLoad
  <2>3. QED
    BY <1>1, <2>2 DEF TermsLoad
<1>2. CASE TermsDeactivate(p)
  <2>1. [job[p] EXCEPT !.pc = "saving"] \in TermsJob
    BY <1>2, JobKinds DEF TermsDeactivate, TermsJob
  <2>2. job' = [job EXCEPT ![p] = [job[p] EXCEPT !.pc = "saving"]]
    BY <1>2 DEF TermsDeactivate, Goto
  <2>3. job' \in [Web -> Job \cup {Idle}]
    BY <2>1, <2>2, JobsTyped
  <2>4. terms' \in [Versions -> MaybeRow]
    BY <1>2 DEF TermsDeactivate, MaybeRow, Row
  <2>5. QED
    BY <1>2, <2>3, <2>4 DEF TermsDeactivate
<1>3. CASE TermsSave(p)
  <2>1. job[p].version \in Versions /\ job[p].active \in BOOLEAN
    BY <1>3, JobKinds DEF TermsSave, TermsJob
  <2>2. job' \in [Web -> Job \cup {Idle}]
    BY <1>3, JobsTyped DEF TermsSave, End
  <2>3. terms' \in [Versions -> MaybeRow]
    BY <1>3, <2>1 DEF TermsSave, MaybeRow, Row, Flag
  <2>4. withdrawn' \in BOOLEAN
    BY <1>3, <2>1 DEF TermsSave
  <2>5. QED
    BY <1>3, <2>2, <2>3, <2>4 DEF TermsSave
<1>4. CASE TermsRefused(p)
  <2>1. job' \in [Web -> Job \cup {Idle}]
    BY <1>4, JobsTyped DEF TermsRefused, End
  <2>2. withdrawn' \in BOOLEAN
    BY <1>4 DEF TermsRefused
  <2>3. QED
    BY <1>4, <2>1, <2>2 DEF TermsRefused
<1>5. QED
  BY <1>1, <1>2, <1>3, <1>4 DEF SaveTerms

LEMMA AssignTypes ==
  ASSUME CTypeOK, NEW p \in Web, Assign(p) PROVE CTypeOK'
<1> USE DEF CTypeOK
<1>1. ASSUME NEW want \in SUBSET Items, AssignLoad(p, want) PROVE CTypeOK'
  <2>1. ASSUME NEW q \in Web PROVE job'[q] \in Job \cup {Idle}
    <3>1. CASE q = p
      BY <1>1, <3>1 DEF AssignLoad, Job
    <3>2. CASE q # p /\ Assigning(q)
      <4>1. [job[q] EXCEPT !.alone = FALSE] \in AssignJob
        BY <3>2, JobKinds DEF AssignJob
      <4>2. job'[q] = [job[q] EXCEPT !.alone = FALSE]
        BY <1>1, <3>2 DEF AssignLoad
      <4>3. QED
        BY <4>1, <4>2 DEF Job, AssignJob
    <3>3. CASE q # p /\ ~Assigning(q)
      BY <1>1, <3>3 DEF AssignLoad
    <3>4. QED
      BY <3>1, <3>2, <3>3
  <2>2. job' \in [Web -> Job \cup {Idle}]
    <3>1. DOMAIN job' = Web /\ job' = [q \in Web |-> job'[q]]
      BY <1>1 DEF AssignLoad
    <3>2. QED
      BY <2>1, <3>1
  <2>3. QED
    BY <1>1, <2>2 DEF AssignLoad
<1>2. CASE AssignClear(p)
  <2>1. [job[p] EXCEPT !.pc = "linking"] \in AssignJob
    BY <1>2, JobKinds DEF AssignClear, AssignJob, Assigning
  <2>2. job' = [job EXCEPT ![p] = [job[p] EXCEPT !.pc = "linking"]]
    BY <1>2 DEF AssignClear, Goto
  <2>3. QED
    BY <1>2, <2>1, <2>2, JobsTyped DEF AssignClear
<1>3. ASSUME NEW i \in Items, AssignLink(p, i) PROVE CTypeOK'
  <2>1. [job[p] EXCEPT !.todo = @ \ {i}] \in AssignJob
    BY <1>3, JobKinds DEF AssignLink, Turn, AssignJob, Assigning
  <2>2. job' = [job EXCEPT ![p] = [job[p] EXCEPT !.todo = @ \ {i}]]
    BY <1>3 DEF AssignLink
  <2>3. QED
    BY <1>3, <2>1, <2>2, JobsTyped DEF AssignLink
<1>4. ASSUME NEW i \in Items, AssignRefused(p, i) PROVE CTypeOK'
  BY <1>4, JobsTyped DEF AssignRefused, End
<1>5. CASE AssignEnd(p)
  BY <1>5, JobsTyped DEF AssignEnd, End
<1>6. QED
  BY <1>1, <1>2, <1>3, <1>4, <1>5 DEF Assign

LEMMA CTypeStep ==
  ASSUME CTypeOK, CNext PROVE CTypeOK'
<1>1. ASSUME NEW p \in Web, Crash(p) PROVE CTypeOK'
  <2>1. job' \in [Web -> Job \cup {Idle}]
    BY <1>1, JobsTyped DEF Crash, End
  <2>2. crashes' \in 0 .. MaxCrashes
    BY <1>1, ConfigurationAssumption DEF Crash, CTypeOK
  <2>3. withdrawn' \in BOOLEAN
    BY <1>1 DEF Crash
  <2>4. QED
    BY <1>1, <2>1, <2>2, <2>3 DEF Crash, CTypeOK
<1>2. ASSUME NEW v \in Versions, TermsDelete(v) PROVE CTypeOK'
  BY <1>2 DEF TermsDelete, CTypeOK, MaybeRow
<1>3. ASSUME NEW i \in Items, ItemDelete(i) PROVE CTypeOK'
  <2>1. ASSUME NEW p \in Web PROVE job'[p] \in Job \cup {Idle}
    <3>1. CASE Assigning(p) /\ i \notin job[p].todo
      <4>1. [job[p] EXCEPT !.kept = @ \ {i}] \in AssignJob
        BY <3>1, JobKinds DEF AssignJob
      <4>2. job'[p] = [job[p] EXCEPT !.kept = @ \ {i}]
        BY <1>3, <3>1 DEF ItemDelete
      <4>3. QED
        BY <4>1, <4>2 DEF Job, AssignJob
    <3>2. CASE ~(Assigning(p) /\ i \notin job[p].todo)
      BY <1>3, <3>2 DEF ItemDelete, CTypeOK
    <3>3. QED
      BY <3>1, <3>2
  <2>2. job' \in [Web -> Job \cup {Idle}]
    <3>1. DOMAIN job' = Web /\ job' = [p \in Web |-> job'[p]]
      BY <1>3 DEF ItemDelete
    <3>2. QED
      BY <2>1, <3>1
  <2>3. QED
    BY <1>3, <2>2 DEF ItemDelete, CTypeOK, MaybeRow
<1>4. ASSUME NEW i \in Items, NEW on \in BOOLEAN, ItemSave(i, on) PROVE CTypeOK'
  BY <1>4 DEF ItemSave, CTypeOK, MaybeRow, Row, Flag
<1>5. QED
  BY <1>1, <1>2, <1>3, <1>4, TermsTypes, AssignTypes DEF CNext

(* Type correctness of the terms, the checklist and the requests.          *)
THEOREM CTypeCorrect == CSpec => []CTypeOK
<1>1. CInit => CTypeOK
  BY ConfigurationAssumption DEF CInit, CTypeOK, MaybeRow
<1>2. CTypeOK /\ [CNext]_cvars => CTypeOK'
  <2>1. CTypeOK /\ UNCHANGED cvars => CTypeOK'
    BY DEF CTypeOK, cvars
  <2>2. QED
    BY <2>1, CTypeStep
<1>3. QED
  BY <1>1, <1>2, PTL DEF CSpec
-----------------------------------------------------------------------------
(* The terms: who is about to put a version in force stays so, whatever    *)
(* the others do, until that request ends.                                 *)
LEMMA TermsOnly ==
  ASSUME CTypeOK, OneTermsInForce, Deactivators, UNCHANGED <<terms, withdrawn>>,
         \A p \in Web : Replacing(p) => Replacing(p)',
         \A p \in Web : At(p, "deactivating")' => At(p, "deactivating") /\ job'[p] = job[p]
  PROVE  OneTermsInForce' /\ Deactivators'
<1>1. InForce' = InForce
  BY DEF InForce
<1>2. QED
  BY <1>1 DEF OneTermsInForce, Deactivators

LEMMA SaveTermsStep ==
  ASSUME CTypeOK, OneTermsInForce, Deactivators, NEW p \in Web, SaveTerms(p)
  PROVE  OneTermsInForce' /\ Deactivators'
<1>1. ASSUME NEW v \in Versions, NEW active \in BOOLEAN, TermsLoad(p, v, active)
      PROVE  OneTermsInForce' /\ Deactivators'
  <2>1. job'[p] = [pc |-> IF active THEN "deactivating" ELSE "saving", version |-> v,
                   active |-> active, fresh |-> terms[v] = Absent]
    BY <1>1 DEF TermsLoad, CTypeOK
  <2>2. \A q \in Web : q # p => job'[q] = job[q]
    BY <1>1 DEF TermsLoad, CTypeOK
  <2>3. ~Replacing(p)
    BY <1>1, JobKinds DEF TermsLoad, Replacing
  <2>4. InForce' = InForce /\ withdrawn' = withdrawn
    BY <1>1 DEF TermsLoad, InForce
  <2>5. OneTermsInForce'
    BY <2>2, <2>3, <2>4 DEF OneTermsInForce, Replacing, At
  <2>6. Deactivators'
    <3>1. At(p, "deactivating")' => job'[p].active
      BY <2>1 DEF At
    <3>2. QED
      BY <2>2, <3>1 DEF Deactivators, At
  <2>7. QED
    BY <2>5, <2>6
<1>2. CASE TermsDeactivate(p)
  <2>1. job' = [job EXCEPT ![p] = [job[p] EXCEPT !.pc = "saving"]]
    BY <1>2 DEF TermsDeactivate, Goto
  <2>2. job[p] \in TermsJob /\ job[p].active
    BY <1>2, JobKinds DEF TermsDeactivate, Deactivators
  <2>3. Replacing(p)'
    BY <2>1, <2>2 DEF CTypeOK, Replacing, At, TermsJob
  <2>4. InForce' \subseteq InForce
    BY <1>2 DEF TermsDeactivate, InForce, Active, Inactive
  <2>5. Deactivators'
    BY <2>1 DEF Deactivators, At, CTypeOK
  <2>6. QED
    BY <2>3, <2>4, <2>5 DEF OneTermsInForce
<1>3. CASE TermsSave(p)
  <2> DEFINE v == job[p].version
  <2>1. v \in Versions /\ job[p].active \in BOOLEAN
    BY <1>3, JobKinds DEF TermsSave, TermsJob
  <2>2. terms' = [terms EXCEPT ![v] = Flag(job[p].active)]
    BY <1>3 DEF TermsSave
  <2>3. job' = [job EXCEPT ![p] = Idle]
    BY <1>3 DEF TermsSave, End
  <2>4. Deactivators'
    BY <2>3 DEF Deactivators, At, CTypeOK, Idle
  <2>5. CASE job[p].active
    <3>1. InForce \ {v} = {}
      BY <1>3, <2>5 DEF TermsSave, SecondActive
    <3>2. InForce' = {v}
      BY <2>1, <2>2, <2>5, <3>1 DEF InForce, Flag, CTypeOK
    <3>3. QED
      BY <2>4, <3>2 DEF OneTermsInForce
  <2>6. CASE ~job[p].active
    <3>1. InForce' = InForce \ {v}
      BY <2>1, <2>2, <2>6 DEF InForce, Flag, CTypeOK, Active, Inactive
    <3>2. withdrawn' = (withdrawn \/ terms[v] = Active)
      BY <1>3, <2>6 DEF TermsSave
    <3>3. \A q \in Web : Replacing(q) => Replacing(q)'
      BY <2>3, <2>6 DEF Replacing, At, CTypeOK
    <3>4. v \in InForce => terms[v] = Active
      BY DEF InForce
    <3>5. QED
      BY <2>4, <3>1, <3>2, <3>3, <3>4 DEF OneTermsInForce
  <2>7. QED
    BY <2>5, <2>6
<1>4. CASE TermsRefused(p)
  <2>1. job' = [job EXCEPT ![p] = Idle]
    BY <1>4 DEF TermsRefused, End
  <2>2. InForce' = InForce
    BY <1>4 DEF TermsRefused, InForce
  <2>3. Deactivators'
    BY <2>1 DEF Deactivators, At, CTypeOK, Idle
  <2>4. InForce = {} => withdrawn'
    BY <1>4 DEF TermsRefused, SecondActive
  <2>5. QED
    BY <2>2, <2>3, <2>4 DEF OneTermsInForce
<1>5. QED
  BY <1>1, <1>2, <1>3, <1>4 DEF SaveTerms

LEMMA AssignKeepsTerms ==
  ASSUME CTypeOK, NEW p \in Web, Assign(p)
  PROVE  /\ UNCHANGED <<terms, withdrawn>>
         /\ \A q \in Web : Replacing(q) => Replacing(q)'
         /\ \A q \in Web : At(q, "deactivating")' => At(q, "deactivating") /\ job'[q] = job[q]
<1> SUFFICES ASSUME NEW q \in Web
             PROVE  /\ UNCHANGED <<terms, withdrawn>>
                    /\ Replacing(q) => Replacing(q)'
                    /\ At(q, "deactivating")' => At(q, "deactivating") /\ job'[q] = job[q]
  OBVIOUS
<1>1. ASSUME NEW want \in SUBSET Items, AssignLoad(p, want)
      PROVE  /\ UNCHANGED <<terms, withdrawn>>
             /\ Replacing(q) => Replacing(q)'
             /\ At(q, "deactivating")' => At(q, "deactivating") /\ job'[q] = job[q]
  <2>1. q = p => job'[q].pc = "clearing" /\ job[q] = Idle
    BY <1>1 DEF AssignLoad
  <2>2. q # p /\ ~Assigning(q) => job'[q] = job[q]
    BY <1>1 DEF AssignLoad
  <2>3. q # p /\ Assigning(q) => job'[q].pc = job[q].pc
    BY <1>1, JobKinds DEF AssignLoad, AssignJob
  <2>4. UNCHANGED <<terms, withdrawn>>
    BY <1>1 DEF AssignLoad
  <2>5. QED
    BY <2>1, <2>2, <2>3, <2>4, JobKinds DEF Replacing, At, Assigning
<1>2. CASE AssignClear(p)
  <2>1. job[p] \in AssignJob /\ job' = [job EXCEPT ![p] = [job[p] EXCEPT !.pc = "linking"]]
    BY <1>2, JobKinds DEF AssignClear, Goto, Assigning
  <2>2. job'[p].pc = "linking" /\ job[p].pc = "clearing"
    BY <1>2, <2>1 DEF AssignClear, At, AssignJob, CTypeOK
  <2>3. UNCHANGED <<terms, withdrawn>>
    BY <1>2 DEF AssignClear
  <2>4. QED
    BY <2>1, <2>2, <2>3 DEF Replacing, At, CTypeOK
<1>3. ASSUME NEW i \in Items, AssignLink(p, i)
      PROVE  /\ UNCHANGED <<terms, withdrawn>>
             /\ Replacing(q) => Replacing(q)'
             /\ At(q, "deactivating")' => At(q, "deactivating") /\ job'[q] = job[q]
  <2>1. job[p] \in AssignJob /\ job' = [job EXCEPT ![p] = [job[p] EXCEPT !.todo = @ \ {i}]]
    BY <1>3, JobKinds DEF AssignLink, Turn, Assigning
  <2>2. job'[p].pc = "linking" /\ job[p].pc = "linking"
    BY <1>3, <2>1 DEF AssignLink, Turn, At, AssignJob, CTypeOK
  <2>3. UNCHANGED <<terms, withdrawn>>
    BY <1>3 DEF AssignLink
  <2>4. QED
    BY <2>1, <2>2, <2>3 DEF Replacing, At, CTypeOK
<1>4. CASE AssignEnd(p) \/ \E i \in Items : AssignRefused(p, i)
  <2>1. At(p, "linking") /\ job' = [job EXCEPT ![p] = Idle] /\ UNCHANGED <<terms, withdrawn>>
    BY <1>4 DEF AssignEnd, AssignRefused, Turn, End
  <2>2. QED
    BY <2>1 DEF Replacing, At, CTypeOK, Idle
<1>5. QED
  BY <1>1, <1>2, <1>3, <1>4 DEF Assign

LEMMA TermsStep ==
  ASSUME CTypeOK, OneTermsInForce, Deactivators, CNext
  PROVE  OneTermsInForce' /\ Deactivators'
<1>1. ASSUME NEW p \in Web, Assign(p) PROVE OneTermsInForce' /\ Deactivators'
  BY <1>1, AssignKeepsTerms, TermsOnly
<1>2. ASSUME NEW p \in Web, Crash(p) PROVE OneTermsInForce' /\ Deactivators'
  <2>1. job' = [job EXCEPT ![p] = Idle]
    BY <1>2 DEF Crash, End
  <2>2. InForce' = InForce /\ withdrawn' = (withdrawn \/ Replacing(p))
    BY <1>2 DEF Crash, InForce
  <2>3. \A q \in Web : q # p /\ Replacing(q) => Replacing(q)'
    BY <2>1 DEF Replacing, At, CTypeOK
  <2>4. OneTermsInForce'
    BY <2>2, <2>3 DEF OneTermsInForce
  <2>5. Deactivators'
    BY <2>1 DEF Deactivators, At, CTypeOK, Idle
  <2>6. QED
    BY <2>4, <2>5
<1>3. ASSUME NEW v \in Versions, TermsDelete(v) PROVE OneTermsInForce' /\ Deactivators'
  <2>1. InForce' = InForce \ {v} /\ withdrawn' = (withdrawn \/ v \in InForce)
    BY <1>3 DEF TermsDelete, InForce, CTypeOK, Active, Gone
  <2>2. \A q \in Web : Replacing(q) => Replacing(q)'
    BY <1>3 DEF TermsDelete, Replacing, At
  <2>3. Deactivators'
    BY <1>3 DEF TermsDelete, Deactivators, At
  <2>4. QED
    BY <2>1, <2>2, <2>3 DEF OneTermsInForce
<1>4. ASSUME NEW i \in Items, ItemDelete(i) PROVE OneTermsInForce' /\ Deactivators'
  <2>1. ASSUME NEW q \in Web
        PROVE  /\ Replacing(q) => Replacing(q)'
               /\ At(q, "deactivating")' => At(q, "deactivating") /\ job'[q] = job[q]
    <3>1. CASE Assigning(q) /\ i \notin job[q].todo
      <4>1. job'[q].pc = job[q].pc
        BY <1>4, <3>1, JobKinds DEF ItemDelete, AssignJob
      <4>2. QED
        BY <3>1, <4>1, JobKinds DEF Replacing, At, Assigning
    <3>2. CASE ~(Assigning(q) /\ i \notin job[q].todo)
      BY <1>4, <3>2 DEF ItemDelete, Replacing, At
    <3>3. QED
      BY <3>1, <3>2
  <2>2. QED
    BY <1>4, <2>1, TermsOnly DEF ItemDelete
<1>5. ASSUME NEW i \in Items, NEW on \in BOOLEAN, ItemSave(i, on)
      PROVE  OneTermsInForce' /\ Deactivators'
  BY <1>5, TermsOnly DEF ItemSave, Replacing, At
<1>6. QED
  BY <1>1, <1>2, <1>3, <1>4, <1>5, SaveTermsStep DEF CNext

(* One version of the terms is in force at most, and none only between two *)
(* statements of a request, or when somebody took it back or failed.       *)
THEOREM TermsInForce == CSpec => []OneTermsInForce
<1> DEFINE Inv == CTypeOK /\ OneTermsInForce /\ Deactivators
<1>1. CInit => Inv
  <2>1. CInit => CTypeOK
    BY ConfigurationAssumption DEF CInit, CTypeOK, MaybeRow
  <2>2. CInit => OneTermsInForce /\ Deactivators
    BY DEF CInit, OneTermsInForce, Deactivators, InForce, At, Idle, Absent, Active
  <2>3. QED
    BY <2>1, <2>2
<1>2. Inv /\ [CNext]_cvars => Inv'
  <2>1. Inv /\ CNext => Inv'
    BY CTypeStep, TermsStep
  <2>2. Inv /\ UNCHANGED cvars => Inv'
    BY DEF CTypeOK, OneTermsInForce, Deactivators, InForce, Replacing, At, cvars
  <2>3. QED
    BY <2>1, <2>2
<1>3. Inv => OneTermsInForce
  OBVIOUS
<1>4. QED
  BY <1>1, <1>2, <1>3, PTL DEF CSpec
-----------------------------------------------------------------------------
(* The checklist: steps of others leave a lone PUT, its items and the      *)
(* links as they are.                                                      *)
LEMMA QuietAssign ==
  ASSUME CTypeOK, AssignInv, links' = links,
         \A p \in Web : Assigning(p)' => Assigning(p) /\ job'[p] = job[p]
  PROVE  AssignInv'
BY DEF AssignInv, AloneIsAlone, TodoIsKept, AssignedAloneIsExact, At, Assigning

LEMMA AssignStep ==
  ASSUME CTypeOK, AssignInv, NEW p \in Web, Assign(p)
  PROVE  AssignInv'
<1> USE DEF AssignInv
<1>1. ASSUME NEW want \in SUBSET Items, AssignLoad(p, want) PROVE AssignInv'
  <2>1. job'[p] = [pc |-> "clearing", todo |-> want, kept |-> want,
                   alone |-> \A r \in Web : ~Assigning(r)]
    BY <1>1 DEF AssignLoad
  <2>2. ASSUME NEW q \in Web, q # p, Assigning(q)
        PROVE  /\ job'[q].pc = job[q].pc /\ job'[q].todo = job[q].todo
               /\ job'[q].kept = job[q].kept /\ ~job'[q].alone
    BY <1>1, <2>2, JobKinds DEF AssignLoad, AssignJob
  <2>3. ASSUME NEW q \in Web, q # p, Assigning(q)' PROVE Assigning(q)
    <3>1. CASE ~Assigning(q)
      BY <1>1, <2>3, <3>1 DEF AssignLoad, Assigning, At
    <3>2. QED
      BY <3>1
  <2>4. AloneIsAlone'
    <3> SUFFICES ASSUME NEW q \in Web, NEW r \in Web,
                        Assigning(q)', job'[q].alone, Assigning(r)'
                 PROVE  q = r
      BY DEF AloneIsAlone
    <3>1. q = p
      BY <2>2, <2>3
    <3>2. \A u \in Web : ~Assigning(u)
      BY <2>1, <3>1
    <3>3. QED
      BY <2>3, <3>1, <3>2
  <2>5. TodoIsKept'
    <3> SUFFICES ASSUME NEW q \in Web
                 PROVE  /\ Assigning(q)' => job'[q].todo \subseteq job'[q].kept
                        /\ At(q, "clearing")' => job'[q].todo = job'[q].kept
      BY DEF TodoIsKept
    <3>1. CASE q = p
      BY <2>1, <3>1
    <3>2. CASE q # p
      BY <2>2, <2>3, <3>2 DEF TodoIsKept, Assigning, At
    <3>3. QED
      BY <3>1, <3>2
  <2>6. AssignedAloneIsExact'
    <3> SUFFICES ASSUME NEW q \in Web, At(q, "linking")', job'[q].alone PROVE FALSE
      BY DEF AssignedAloneIsExact
    <3>1. q # p
      BY <2>1 DEF At
    <3>2. QED
      BY <2>2, <2>3, <3>1 DEF Assigning
  <2>7. QED
    BY <2>4, <2>5, <2>6
<1>2. CASE AssignClear(p)
  <2>1. /\ job[p] \in AssignJob /\ Assigning(p)
        /\ job' = [job EXCEPT ![p] = [job[p] EXCEPT !.pc = "linking"]]
    BY <1>2, JobKinds DEF AssignClear, Goto, Assigning
  <2>2. /\ job'[p].pc = "linking" /\ job'[p].todo = job[p].todo
        /\ job'[p].kept = job[p].kept /\ job'[p].alone = job[p].alone
        /\ \A q \in Web : q # p => job'[q] = job[q]
    BY <2>1 DEF CTypeOK, AssignJob
  <2>3. \A q \in Web : Assigning(q)' = Assigning(q) /\ job'[q].alone = job[q].alone
    BY <2>1, <2>2 DEF Assigning, At
  <2>4. AloneIsAlone'
    BY <2>3 DEF AloneIsAlone
  <2>5. TodoIsKept'
    BY <2>1, <2>2, <2>3 DEF TodoIsKept, At
  <2>6. AssignedAloneIsExact'
    <3> SUFFICES ASSUME NEW q \in Web, At(q, "linking")', job'[q].alone
                 PROVE  links' = job'[q].kept \ job'[q].todo
      BY DEF AssignedAloneIsExact
    <3>1. q = p
      BY <2>1, <2>3 DEF AloneIsAlone, Assigning
    <3>2. job[p].todo = job[p].kept /\ links' = {}
      BY <1>2 DEF AssignClear, TodoIsKept
    <3>3. QED
      BY <2>2, <3>1, <3>2
  <2>7. QED
    BY <2>4, <2>5, <2>6
<1>3. ASSUME NEW i \in Items, AssignLink(p, i) PROVE AssignInv'
  <2>1. /\ job[p] \in AssignJob /\ Assigning(p) /\ At(p, "linking")
        /\ job' = [job EXCEPT ![p] = [job[p] EXCEPT !.todo = @ \ {i}]]
    BY <1>3, JobKinds DEF AssignLink, Turn, Assigning
  <2>2. /\ job'[p].pc = job[p].pc /\ job'[p].todo = job[p].todo \ {i}
        /\ job'[p].kept = job[p].kept /\ job'[p].alone = job[p].alone
        /\ \A q \in Web : q # p => job'[q] = job[q]
    BY <2>1 DEF CTypeOK, AssignJob
  <2>3. \A q \in Web : Assigning(q)' = Assigning(q) /\ job'[q].alone = job[q].alone
    BY <2>2 DEF Assigning, At
  <2>4. AloneIsAlone'
    BY <2>3 DEF AloneIsAlone
  <2>5. TodoIsKept'
    BY <2>1, <2>2, <2>3 DEF TodoIsKept, At
  <2>6. AssignedAloneIsExact'
    <3> SUFFICES ASSUME NEW q \in Web, At(q, "linking")', job'[q].alone
                 PROVE  links' = job'[q].kept \ job'[q].todo
      BY DEF AssignedAloneIsExact
    <3>1. q = p
      BY <2>1, <2>2, <2>3 DEF AloneIsAlone, Assigning, At
    <3>2. /\ links = job[p].kept \ job[p].todo
          /\ links' = links \cup {i}
          /\ i \in job[p].kept /\ i \in job[p].todo
      BY <1>3, <2>1, <2>2, <3>1 DEF AssignLink, Turn, AssignedAloneIsExact, TodoIsKept
    <3>3. QED
      BY <2>2, <3>1, <3>2
  <2>7. QED
    BY <2>4, <2>5, <2>6
<1>4. CASE AssignEnd(p) \/ \E i \in Items : AssignRefused(p, i)
  <2>1. job' = [job EXCEPT ![p] = Idle] /\ links' = links
    BY <1>4 DEF AssignEnd, AssignRefused, End
  <2>2. \A q \in Web : Assigning(q)' => Assigning(q) /\ job'[q] = job[q]
    BY <2>1 DEF Assigning, At, CTypeOK, Idle
  <2>3. QED
    BY <2>1, <2>2, QuietAssign
<1>5. QED
  BY <1>1, <1>2, <1>3, <1>4 DEF Assign

LEMMA DeleteStep ==
  ASSUME CTypeOK, AssignInv, NEW i \in Items, ItemDelete(i)
  PROVE  AssignInv'
<1>1. ASSUME NEW q \in Web
      PROVE  /\ job'[q].pc = job[q].pc /\ (Assigning(q)' = Assigning(q))
             /\ Assigning(q) =>
                  /\ job'[q].todo = job[q].todo /\ job'[q].alone = job[q].alone
                  /\ job'[q].kept = job[q].kept \ ({i} \ job[q].todo)
  <2>1. CASE Assigning(q) /\ i \notin job[q].todo
    <3>1. job[q] \in AssignJob /\ job'[q] = [job[q] EXCEPT !.kept = @ \ {i}]
      BY <2>1, JobKinds DEF ItemDelete
    <3>2. QED
      BY <2>1, <3>1 DEF AssignJob, Assigning, At
  <2>2. CASE ~(Assigning(q) /\ i \notin job[q].todo)
    <3>1. job'[q] = job[q]
      BY <2>2 DEF ItemDelete
    <3>2. Assigning(q)' = Assigning(q)
      BY <3>1 DEF Assigning, At
    <3>3. Assigning(q) => job[q].kept = job[q].kept \ ({i} \ job[q].todo)
      BY <2>2
    <3>4. QED
      BY <3>1, <3>2, <3>3
  <2>3. QED
    BY <2>1, <2>2
<1>2. AloneIsAlone'
  BY <1>1 DEF AssignInv, AloneIsAlone
<1>3. TodoIsKept'
  <2> SUFFICES ASSUME NEW q \in Web
               PROVE  /\ Assigning(q)' => job'[q].todo \subseteq job'[q].kept
                      /\ At(q, "clearing")' => job'[q].todo = job'[q].kept
    BY DEF TodoIsKept
  <2>1. At(q, "clearing")' => At(q, "clearing") /\ Assigning(q)
    BY <1>1 DEF At, Assigning
  <2>2. Assigning(q) => job[q].todo \subseteq job[q].kept
    BY DEF AssignInv, TodoIsKept
  <2>3. At(q, "clearing") => job[q].todo = job[q].kept
    BY DEF AssignInv, TodoIsKept
  <2>4. QED
    BY <1>1, <2>1, <2>2, <2>3
<1>4. AssignedAloneIsExact'
  <2> SUFFICES ASSUME NEW q \in Web, At(q, "linking")', job'[q].alone
               PROVE  links' = job'[q].kept \ job'[q].todo
    BY DEF AssignedAloneIsExact
  <2>1. At(q, "linking") /\ Assigning(q)
    BY <1>1 DEF At, Assigning
  <2>2. links = job[q].kept \ job[q].todo
    BY <1>1, <2>1 DEF AssignInv, AssignedAloneIsExact
  <2>3. links' = links \ {i}
    BY DEF ItemDelete
  <2>4. QED
    BY <1>1, <2>1, <2>2, <2>3
<1>5. QED
  BY <1>2, <1>3, <1>4 DEF AssignInv

LEMMA ChecklistStep ==
  ASSUME CTypeOK, AssignInv, CNext
  PROVE  AssignInv'
<1>1. ASSUME NEW p \in Web, SaveTerms(p) PROVE AssignInv'
  <2>1. /\ links' = links
        /\ \A q \in Web : q # p => job'[q] = job[q]
        /\ ~Assigning(p)'
    <3>1. ASSUME NEW v \in Versions, NEW active \in BOOLEAN, TermsLoad(p, v, active)
          PROVE  /\ links' = links
                 /\ \A q \in Web : q # p => job'[q] = job[q]
                 /\ ~Assigning(p)'
      <4>1. job'[p].pc \in {"deactivating", "saving"}
        BY <3>1 DEF TermsLoad, CTypeOK
      <4>2. QED
        BY <3>1, <4>1 DEF TermsLoad, CTypeOK, Assigning, At
    <3>2. CASE TermsDeactivate(p)
      <4>1. job[p] \in TermsJob /\ job' = [job EXCEPT ![p] = [job[p] EXCEPT !.pc = "saving"]]
        BY <3>2, JobKinds DEF TermsDeactivate, Goto
      <4>2. job'[p].pc = "saving"
        BY <4>1 DEF CTypeOK, TermsJob
      <4>3. QED
        BY <3>2, <4>1, <4>2 DEF TermsDeactivate, CTypeOK, Assigning, At
    <3>3. CASE TermsSave(p) \/ TermsRefused(p)
      BY <3>3 DEF TermsSave, TermsRefused, End, CTypeOK, Assigning, At, Idle
    <3>4. QED
      BY <1>1, <3>1, <3>2, <3>3 DEF SaveTerms
  <2>2. \A q \in Web : Assigning(q)' => Assigning(q) /\ job'[q] = job[q]
    BY <2>1 DEF Assigning, At
  <2>3. QED
    BY <2>1, <2>2, QuietAssign
<1>2. ASSUME NEW p \in Web, Crash(p) PROVE AssignInv'
  <2>1. \A q \in Web : Assigning(q)' => Assigning(q) /\ job'[q] = job[q]
    BY <1>2 DEF Crash, End, Assigning, At, CTypeOK, Idle
  <2>2. QED
    BY <1>2, <2>1, QuietAssign DEF Crash
<1>3. CASE \E v \in Versions : TermsDelete(v)
  BY <1>3, QuietAssign DEF TermsDelete, Assigning, At
<1>4. CASE \E i \in Items, on \in BOOLEAN : ItemSave(i, on)
  BY <1>4, QuietAssign DEF ItemSave, Assigning, At
<1>5. QED
  BY <1>1, <1>2, <1>3, <1>4, AssignStep, DeleteStep DEF CNext

(* A PUT of the checklist that runs alone leaves what it was asked for,    *)
(* whatever half-done assignment it finds.                                 *)
THEOREM ChecklistIsExact == CSpec => []AssignedAloneIsExact
<1> DEFINE Inv == CTypeOK /\ AssignInv
<1>1. CInit => Inv
  <2>1. CInit => CTypeOK
    BY ConfigurationAssumption DEF CInit, CTypeOK, MaybeRow
  <2>2. CInit => AssignInv
    BY DEF CInit, AssignInv, AloneIsAlone, TodoIsKept, AssignedAloneIsExact,
           Assigning, At, Idle
  <2>3. QED
    BY <2>1, <2>2
<1>2. Inv /\ [CNext]_cvars => Inv'
  <2>1. Inv /\ CNext => Inv'
    BY CTypeStep, ChecklistStep
  <2>2. CTypeOK /\ UNCHANGED cvars => CTypeOK'
    BY DEF CTypeOK, cvars
  <2>3. AssignInv /\ UNCHANGED cvars => AssignInv'
    BY DEF AssignInv, AloneIsAlone, TodoIsKept, AssignedAloneIsExact, Assigning, At, cvars
  <2>4. QED
    BY <2>1, <2>2, <2>3
<1>3. Inv => AssignedAloneIsExact
  BY DEF AssignInv
<1>4. QED
  BY <1>1, <1>2, <1>3, PTL DEF CSpec
=============================================================================
