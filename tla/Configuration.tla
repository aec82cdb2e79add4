--------------------------- MODULE Configuration ---------------------------
(***************************************************************************)
(* What the staff configure: the versions of the terms, of which one is in *)
(* force, and the review checklist of a product category.                  *)
(*                                                                         *)
(* Both are written by several statements that are no transaction.  Saving *)
(* terms that are to be in force first takes the others out of force.  PUT *)
(* of a checklist reads the items asked for, deletes every link of the     *)
(* category and creates the new ones in the order of their ids.  Requests  *)
(* of several members of the staff overlap, the database refuses a second  *)
(* active version and a second link to one item, and a process may die     *)
(* between two statements.                                                 *)
(***************************************************************************)
EXTENDS Naturals

CONSTANTS
  Versions,    \* values of TermsAndConditions.version
  Items,       \* ids of ReviewChecklistItem, once created
  Web,         \* web processes
  MaxCrashes   \* bound of the model: processes that die

ASSUME ConfigurationAssumption ==
  /\ Items \subseteq Nat
  /\ MaxCrashes \in Nat

VARIABLES
  terms,      \* TermsAndConditions.is_active of each version, or no row
  item,       \* ReviewChecklistItem.is_active of each item, or no row
  links,      \* ProductCategoryChecklist of one category: items linked to
  job,        \* the request each web process is serving
  withdrawn,  \* the last terms in force were taken back by the staff, or by a
              \* request that failed
  crashes     \* processes that have died

cvars == <<terms, item, links, job, withdrawn, crashes>>
-----------------------------------------------------------------------------
Absent   == "absent"
Inactive == "inactive"
Active   == "active"
Gone     == "gone"       \* deleted; a version is not created a second time

Flag(on) == IF on THEN Active ELSE Inactive

Row     == {Inactive, Active}
MaybeRow == Row \cup {Absent, Gone}

Idle == [pc |-> "idle"]

(* todo: the items still to be linked; kept: the items asked for, without  *)
(* those deleted after they were linked.                                   *)
Job ==
  [pc: {"deactivating", "saving"}, version: Versions, active: BOOLEAN, fresh: BOOLEAN]
    \cup [pc: {"clearing", "linking"}, todo: SUBSET Items, kept: SUBSET Items,
          alone: BOOLEAN]

At(p, step) == job[p].pc = step
Assigning(p) == At(p, "clearing") \/ At(p, "linking")

(* Others have been taken out of force, this version is not yet in force.  *)
Replacing(p) == At(p, "saving") /\ job[p].active

Goto(p, step) == job' = [job EXCEPT ![p].pc = step]
End(p)        == job' = [job EXCEPT ![p] = Idle]

InForce == {v \in Versions : terms[v] = Active}

CInit ==
  /\ terms = [v \in Versions |-> Absent]
  /\ item = [i \in Items |-> Absent]
  /\ links = {}
  /\ job = [p \in Web |-> Idle]
  /\ withdrawn = TRUE
  /\ crashes = 0
-----------------------------------------------------------------------------
(* A definition named ...Mutant is what a plausible mistake would make of  *)
(* the definition that follows it; no other definition uses it.            *)

TermsLoadMutant(p, v, active) ==     \* others out of force for a draft as well
  /\ job[p] = Idle
  /\ terms[v] # Gone
  /\ job' = [job EXCEPT ![p] = [pc |-> "deactivating", version |-> v,
                                active |-> active, fresh |-> terms[v] = Absent]]
  /\ UNCHANGED <<terms, item, links, withdrawn, crashes>>

(* POST, PUT and PATCH /terms/, with is_active as asked for or, if the     *)
(* request does not speak of it, as loaded.                                *)
TermsLoad(p, v, active) ==
  /\ job[p] = Idle
  /\ terms[v] # Gone
  /\ job' = [job EXCEPT ![p] = [pc |-> IF active THEN "deactivating" ELSE "saving",
                                version |-> v, active |-> active,
                                fresh |-> terms[v] = Absent]]
  /\ UNCHANGED <<terms, item, links, withdrawn, crashes>>

(* UPDATE of all rows but this one; a row not yet inserted has no key, so  *)
(* that nothing is left out for it.                                        *)
TermsDeactivate(p) ==
  /\ At(p, "deactivating")
  /\ terms' = [v \in Versions |->
                 IF terms[v] = Active /\ (job[p].fresh \/ v # job[p].version)
                 THEN Inactive ELSE terms[v]]
  /\ Goto(p, "saving")
  /\ UNCHANGED <<item, links, withdrawn, crashes>>

(* uniq_active_terms, and the unique version of a new row.                 *)
SecondActive(p) == job[p].active /\ InForce \ {job[p].version} # {}
SecondRow(p)    == job[p].fresh /\ terms[job[p].version] # Absent

(* INSERT or UPDATE of the row, also of one that was deleted meanwhile.    *)
TermsSave(p) ==
  /\ At(p, "saving")
  /\ ~SecondActive(p) /\ ~SecondRow(p)
  /\ LET v == job[p].version
     IN  /\ terms' = [terms EXCEPT ![v] = Flag(job[p].active)]
         /\ withdrawn' = (~job[p].active /\ (withdrawn \/ terms[v] = Active))
  /\ End(p)
  /\ UNCHANGED <<item, links, crashes>>

(* The database refuses: what was deactivated stays so.                    *)
TermsRefused(p) ==
  /\ At(p, "saving")
  /\ SecondActive(p) \/ SecondRow(p)
  /\ withdrawn' = (withdrawn \/ ~SecondActive(p))
  /\ End(p)
  /\ UNCHANGED <<terms, item, links, crashes>>

(* A version is not deleted while another request creates it: the request  *)
(* would create a row that the model does not tell from the first.         *)
TermsDelete(v) ==
  /\ terms[v] \in Row
  /\ \A p \in Web : (At(p, "deactivating") \/ At(p, "saving")) /\ job[p].version = v
       => ~job[p].fresh
  /\ terms' = [terms EXCEPT ![v] = Gone]
  /\ withdrawn' = (withdrawn \/ terms[v] = Active)
  /\ UNCHANGED <<item, links, job, crashes>>
-----------------------------------------------------------------------------
(* POST, PUT and PATCH /checklist-items/; an edit that has loaded the row  *)
(* before it was deleted brings it back.                                   *)
ItemSave(i, on) ==
  /\ item[i] # Flag(on)
  /\ item' = [item EXCEPT ![i] = Flag(on)]
  /\ UNCHANGED <<terms, links, job, withdrawn, crashes>>

(* The links to the item go with it (CASCADE).                             *)
ItemDelete(i) ==
  /\ item[i] \in Row
  /\ item' = [item EXCEPT ![i] = Gone]
  /\ links' = links \ {i}
  /\ job' = [p \in Web |->
               IF Assigning(p) /\ i \notin job[p].todo
               THEN [job[p] EXCEPT !.kept = @ \ {i}] ELSE job[p]]
  /\ UNCHANGED <<terms, withdrawn, crashes>>
-----------------------------------------------------------------------------
(* PUT /categories/{id}/checklist-items/ is refused unless every item it   *)
(* names is there and active.                                              *)
AssignLoad(p, want) ==
  /\ job[p] = Idle
  /\ \A i \in want : item[i] = Active
  /\ job' = [q \in Web |->
        IF q = p
        THEN [pc |-> "clearing", todo |-> want, kept |-> want,
              alone |-> \A r \in Web : ~Assigning(r)]
        ELSE IF Assigning(q) THEN [job[q] EXCEPT !.alone = FALSE] ELSE job[q]]
  /\ UNCHANGED <<terms, item, links, withdrawn, crashes>>

AssignClearMutant(p) ==              \* old links are left where they are
  /\ At(p, "clearing")
  /\ job' = [job EXCEPT ![p].pc = "linking", ![p].todo = @ \ links]
  /\ UNCHANGED <<terms, item, links, withdrawn, crashes>>

AssignClear(p) ==
  /\ At(p, "clearing")
  /\ links' = {}
  /\ Goto(p, "linking")
  /\ UNCHANGED <<terms, item, withdrawn, crashes>>

(* The items are linked in the order of their ids.                         *)
Turn(p, i) ==
  /\ At(p, "linking")
  /\ i \in job[p].todo
  /\ \A j \in job[p].todo : i <= j

(* uniq_category_checklist_item, and the foreign key of the link.          *)
Refused(i) == i \in links \/ item[i] \notin Row

AssignLink(p, i) ==
  /\ Turn(p, i)
  /\ ~Refused(i)
  /\ links' = links \cup {i}
  /\ job' = [job EXCEPT ![p].todo = @ \ {i}]
  /\ UNCHANGED <<terms, item, withdrawn, crashes>>

AssignRefused(p, i) ==
  /\ Turn(p, i)
  /\ Refused(i)
  /\ End(p)
  /\ UNCHANGED <<terms, item, links, withdrawn, crashes>>

AssignEnd(p) ==
  /\ At(p, "linking")
  /\ job[p].todo = {}
  /\ End(p)
  /\ UNCHANGED <<terms, item, links, withdrawn, crashes>>
-----------------------------------------------------------------------------
(* A process dies between two statements.                                  *)
Crash(p) ==
  /\ job[p] # Idle
  /\ crashes < MaxCrashes
  /\ crashes' = crashes + 1
  /\ withdrawn' = (withdrawn \/ Replacing(p))
  /\ End(p)
  /\ UNCHANGED <<terms, item, links>>

SaveTerms(p) ==
  \/ \E v \in Versions, active \in BOOLEAN : TermsLoad(p, v, active)
  \/ TermsDeactivate(p) \/ TermsSave(p) \/ TermsRefused(p)

Assign(p) ==
  \/ \E want \in SUBSET Items : AssignLoad(p, want)
  \/ AssignClear(p)
  \/ \E i \in Items : AssignLink(p, i) \/ AssignRefused(p, i)
  \/ AssignEnd(p)

CNext ==
  \/ \E p \in Web : SaveTerms(p) \/ Assign(p) \/ Crash(p)
  \/ \E v \in Versions : TermsDelete(v)
  \/ \E i \in Items : ItemDelete(i) \/ \E on \in BOOLEAN : ItemSave(i, on)

CSpec == CInit /\ [][CNext]_cvars
-----------------------------------------------------------------------------
CTypeOK ==
  /\ terms \in [Versions -> MaybeRow]
  /\ item \in [Items -> MaybeRow]
  /\ links \subseteq Items
  /\ job \in [Web -> Job \cup {Idle}]
  /\ withdrawn \in BOOLEAN
  /\ crashes \in 0 .. MaxCrashes
-----------------------------------------------------------------------------
(* At most one version is in force.  None is, once there was one, only     *)
(* while a request is about to put another in force, or because the staff  *)
(* took it back or a request failed half-way: however requests overlap,    *)
(* one that is refused for a second active version leaves that version in  *)
(* force, and saving a draft takes nothing out of force.                   *)
OneTermsInForce ==
  /\ \A u, v \in InForce : u = v
  /\ InForce = {} => withdrawn \/ \E p \in Web : Replacing(p)

(* A PUT of the checklist that no other PUT overlaps leaves the links it   *)
(* was asked for and no other, whatever half-done assignment a crash or a  *)
(* refusal has left before, and whatever items are deleted meanwhile.      *)
AssignedAloneIsExact ==
  \A p \in Web :
    At(p, "linking") /\ job[p].alone => links = job[p].kept \ job[p].todo
=============================================================================
