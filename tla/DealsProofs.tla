---------------------------- MODULE DealsProofs -----------------------------
(***************************************************************************)
(* Proofs about module Deals, for any deals, milestones and payments, any  *)
(* statuses clients send and any number of handlers, whether or not calls  *)
(* may fail.                                                               *)
(***************************************************************************)
EXTENDS Deals, TLAPS

-----------------------------------------------------------------------------
(* The inductive invariant.                                                *)

\* What a row or a copy of a deal shows has been earned by the milestones C.
Earned(C, deal) ==
    /\ deal.status \notin {"absent", "negotiating"} =>
          \E m \in C : /\ DealOf[m] = deal.id
                       /\ TypeOf[m] \in DOMAIN StatusAfter
                       /\ deal.status = StatusAfter[TypeOf[m]]
    /\ deal.signed =>
          \E m \in C : DealOf[m] = deal.id /\ TypeOf[m] = "contract_signing"

\* A payment is due because of the milestones C.
DueTo(C, p) == \E m \in C : /\ DealOf[m] = PaymentDeal[p]
                            /\ TypeOf[m] \in DOMAIN Released
                            /\ Released[TypeOf[m]] = ConditionOf[p]

\* A handler that saves a milestone as completed either writes that status
\* or found it stored; once the workflow runs, it has been stored; and both
\* what the workflow will release and the copy of the deal are due to it.
\* A handler works on one milestone.
FrameEarned(C, f) ==
    /\ \A e1, e2 \in f.milestones : e1 = e2
    /\ f.step = "update" =>
          \A e \in f.milestones : e.status = "completed" =>
              "status" \in f.columns \/ e.id \in C
    /\ f.step \in {"complete", "query", "release", "write"} =>
          \A e \in f.milestones : e.id \in C
    /\ \A e \in f.deals : Earned(C, e)
    /\ \A p \in f.due : DueTo(C, p)

\* Nothing in the tables or in flight is ahead of the milestones completed.
EarnedInv ==
    /\ \A m \in Milestone : milestones[m].status = "completed" => m \in completed
    /\ \A d \in Deal : Earned(completed, deals[d])
    /\ \A p \in Payment : payments[p] = "released" => DueTo(completed, p) \/ p \in apart
    /\ \A r \in Request : FrameEarned(completed, requests[r])

-----------------------------------------------------------------------------
(* Lemmas about the operators.                                             *)

\* Comparing and flushing yields a milestone again, each of whose columns is
\* the saved copy's if it was dirty and the row's otherwise.
LEMMA FlushMilestone ==
    ASSUME NEW e \in MilestoneEntity, NEW row \in MilestoneEntity, NEW D
    PROVE  /\ Flush(e, D, row) \in MilestoneEntity
           /\ Flush(e, D, row).id = IF "id" \in D THEN e.id ELSE row.id
           /\ Flush(e, D, row).status = IF "status" \in D THEN e.status ELSE row.status
<1> DEFINE merged == [id     |-> IF "id" \in D THEN e.id ELSE row.id,
                      status |-> IF "status" \in D THEN e.status ELSE row.status]
<1>1. DOMAIN row = {"id", "status"}
  BY DEF MilestoneEntity
<1>2. Flush(e, D, row) = merged
  BY <1>1 DEF Flush
<1>3. merged \in MilestoneEntity
  BY DEF MilestoneEntity
<1> QED
  BY <1>2, <1>3

\* The same for deals.
LEMMA FlushDeal ==
    ASSUME NEW e \in DealEntity, NEW row \in DealEntity, NEW D
    PROVE  /\ Flush(e, D, row) \in DealEntity
           /\ Flush(e, D, row).id = IF "id" \in D THEN e.id ELSE row.id
           /\ Flush(e, D, row).status = IF "status" \in D THEN e.status ELSE row.status
           /\ Flush(e, D, row).signed = IF "signed" \in D THEN e.signed ELSE row.signed
<1> DEFINE merged == [id     |-> IF "id" \in D THEN e.id ELSE row.id,
                      status |-> IF "status" \in D THEN e.status ELSE row.status,
                      signed |-> IF "signed" \in D THEN e.signed ELSE row.signed]
<1>1. DOMAIN row = {"id", "status", "signed"}
  BY DEF DealEntity
<1>2. Flush(e, D, row) = merged
  BY <1>1 DEF Flush
<1>3. merged \in DealEntity
  BY DEF DealEntity
<1> QED
  BY <1>2, <1>3

\* The dirty columns are columns, and a status that is not dirty agrees.
LEMMA DirtyMilestone ==
    ASSUME NEW e, NEW row \in MilestoneEntity
    PROVE  /\ Dirty(e, row) \subseteq Columns
           /\ "status" \notin Dirty(e, row) => e.status = row.status
<1>1. DOMAIN row = {"id", "status"}
  BY DEF MilestoneEntity
<1> QED
  BY <1>1 DEF Dirty, Columns

\* The dirty columns of a deal are columns.
LEMMA DirtyDeal ==
    ASSUME NEW e, NEW row \in DealEntity
    PROVE  Dirty(e, row) \subseteq Columns
<1>1. DOMAIN row = {"id", "status", "signed"}
  BY DEF DealEntity
<1> QED
  BY <1>1 DEF Dirty, Columns

\* Posting a status changes only what it should.
LEMMA PostingMilestone ==
    ASSUME NEW e \in MilestoneEntity, NEW s \in MilestoneStatus
    PROVE  /\ Posting(e, s) \in MilestoneEntity
           /\ Posting(e, s).id = e.id
           /\ Posting(e, s).status = s
  BY DEF Posting, MilestoneEntity

\* The workflow's copy of a deal: a status of the enum, the old one or the
\* one the milestone stands for; signed only by a contract_signing milestone.
LEMMA AdvancedDeal ==
    ASSUME NEW e \in DealEntity, NEW type \in MilestoneType
    PROVE  /\ Advanced(e, type) \in DealEntity
           /\ Advanced(e, type).id = e.id
           /\ Advanced(e, type).status =
                 IF type \in DOMAIN StatusAfter THEN StatusAfter[type] ELSE e.status
           /\ Advanced(e, type).signed = (e.signed \/ type = "contract_signing")
<1> DEFINE s == IF type \in DOMAIN StatusAfter THEN StatusAfter[type] ELSE e.status
           g == e.signed \/ type = "contract_signing"
<1>1. s \in DealStatus \cup {"absent"}
  BY DEF StatusAfter, DealStatus, DealEntity
<1>2. g \in BOOLEAN
  BY DEF DealEntity
<1>3. Advanced(e, type) = [e EXCEPT !.status = s, !.signed = g]
  BY Zenon DEF Advanced
<1> HIDE DEF s, g
<1>4. /\ Advanced(e, type) \in DealEntity
      /\ Advanced(e, type).id = e.id
      /\ Advanced(e, type).status = s
      /\ Advanced(e, type).signed = g
  <2>1. [e EXCEPT !.status = s, !.signed = g] \in DealEntity
    BY <1>1, <1>2 DEF DealEntity
  <2>2. /\ [e EXCEPT !.status = s, !.signed = g].id = e.id
        /\ [e EXCEPT !.status = s, !.signed = g].status = s
        /\ [e EXCEPT !.status = s, !.signed = g].signed = g
    BY DEF DealEntity
  <2> QED
    BY <1>3, <2>1, <2>2
<1> QED
  BY <1>4 DEF s, g

\* The empty frame.
LEMMA IdleFrame ==
    /\ Idle \in Frame /\ Idle.step = "idle" /\ Idle.milestones = {}
    /\ Idle.deals = {} /\ Idle.due = {}
  BY DEF Idle, Frame

\* The frames of a handler that saves a milestone or runs the workflow.
LEMMA MilestoneFrames ==
    ASSUME NEW e \in MilestoneEntity
    PROVE  /\ Saving(e) \in Frame /\ Saving(e).step = "save"
           /\ Saving(e).milestones = {e} /\ Saving(e).deals = {} /\ Saving(e).due = {}
           /\ Completing(e) \in Frame /\ Completing(e).step = "complete"
           /\ Completing(e).milestones = {e} /\ Completing(e).deals = {}
           /\ Completing(e).due = {}
  BY DEF Saving, Completing, Idle, Frame

\* After a save a handler ends, or runs the workflow for a milestone that it
\* saved as completed.
LEMMA SavedFrame ==
    ASSUME NEW e \in MilestoneEntity
    PROVE  /\ Saved(e) \in Frame
           /\ Saved(e).step \in {"idle", "complete"}
           /\ Saved(e).milestones \subseteq {e} /\ Saved(e).deals = {} /\ Saved(e).due = {}
           /\ Saved(e).step = "complete" => e.status = "completed"
<1>1. CASE e.status = "completed"
  BY <1>1, MilestoneFrames DEF Saved
<1>2. CASE e.status # "completed"
  BY <1>2, IdleFrame DEF Saved
<1> QED
  BY <1>1, <1>2

\* The frames a running workflow goes on with.
LEMMA StepFrames ==
    ASSUME NEW f \in Frame, NEW D \in SUBSET Columns, NEW step \in {"update", "write"},
           NEW g, g = [f EXCEPT !.step = step, !.columns = D]
    PROVE  /\ g \in Frame /\ g.step = step /\ g.columns = D
           /\ g.milestones = f.milestones /\ g.deals = f.deals /\ g.due = f.due
  BY DEF Frame

\* The frame of a workflow that has read its milestone and advanced the deal.
LEMMA ReadFrame ==
    ASSUME NEW f \in Frame, NEW e \in DealEntity, NEW step \in {"query", "release"},
           NEW g, g = [f EXCEPT !.step = step, !.deals = {e}]
    PROVE  /\ g \in Frame /\ g.step = step /\ g.deals = {e}
           /\ g.milestones = f.milestones /\ g.due = f.due
  BY DEF Frame

\* The frame of a workflow that has queried the held payments.
LEMMA QueryFrame ==
    ASSUME NEW f \in Frame, NEW P \in SUBSET Payment,
           NEW g, g = [f EXCEPT !.step = "release", !.due = P]
    PROVE  /\ g \in Frame /\ g.step = "release" /\ g.due = P
           /\ g.milestones = f.milestones /\ g.deals = f.deals
  BY DEF Frame

\* The frame of a workflow that has released one payment more.
LEMMA ReleaseFrame ==
    ASSUME NEW f \in Frame, NEW p, NEW g, g = [f EXCEPT !.due = @ \ {p}]
    PROVE  /\ g \in Frame /\ g.step = f.step /\ g.due = f.due \ {p}
           /\ g.milestones = f.milestones /\ g.deals = f.deals
  BY DEF Frame

\* The frame of a deal just inserted.
LEMMA CreateFrame ==
    ASSUME NEW e \in DealEntity, NEW g, g = [Idle EXCEPT !.step = "create", !.deals = {e}]
    PROVE  /\ g \in Frame /\ g.step = "create" /\ g.deals = {e}
           /\ g.milestones = {} /\ g.due = {}
  BY DEF Idle, Frame

\* Adding the milestones of a deal keeps every milestone one.
LEMMA WithMilestonesType ==
    ASSUME NEW d, milestones \in [Milestone -> MilestoneEntity]
    PROVE  /\ WithMilestonesOf(d) \in [Milestone -> MilestoneEntity]
           /\ \A m \in Milestone :
                 /\ WithMilestonesOf(d)[m].id = milestones[m].id
                 /\ WithMilestonesOf(d)[m].status = "completed"
                       => milestones[m].status = "completed"
<1> DEFINE new(m) == IF DealOf[m] = d
                     THEN [milestones[m] EXCEPT !.status = "pending"]
                     ELSE milestones[m]
<1>1. ASSUME NEW m \in Milestone
      PROVE  /\ new(m) \in MilestoneEntity
             /\ new(m).id = milestones[m].id
             /\ new(m).status = "completed" => milestones[m].status = "completed"
  BY DEF MilestoneEntity, MilestoneStatus
<1>2. WithMilestonesOf(d) = [m \in Milestone |-> new(m)]
  BY DEF WithMilestonesOf
<1> HIDE DEF new
<1> QED
  BY <1>1, <1>2

-----------------------------------------------------------------------------
(* Type correctness.                                                       *)

\* The initial state has the right type.
LEMMA InitTypeOK == Init => TypeOK
  BY IdleFrame DEF Init, TypeOK, NoDeal, NoMilestone, DealEntity, MilestoneEntity, PaymentStatus

\* Writing a frame into a slot preserves the type.
LEMMA ContinueTypeOK ==
    ASSUME TypeOK, NEW r \in Request, NEW f \in Frame,
           Continue(r, f) \/ Begin(r, f)
    PROVE  TypeOK'
  BY DEF TypeOK, Continue, Begin

\* What the slots and the tables hold.
LEMMA Contents ==
    ASSUME TypeOK
    PROVE  /\ \A r \in Request : /\ requests[r] \in Frame
                                 /\ requests[r].milestones \subseteq MilestoneEntity
                                 /\ requests[r].deals \subseteq DealEntity
                                 /\ requests[r].due \subseteq Payment
                                 /\ requests[r].columns \subseteq Columns
           /\ \A m \in Milestone : /\ milestones[m] \in MilestoneEntity
                                   /\ milestones[m].id = m
           /\ \A d \in Deal : deals[d] \in DealEntity /\ deals[d].id = d
  BY DEF TypeOK, Frame

\* The ids of copies are ids.
LEMMA Ids ==
    /\ \A e \in MilestoneEntity : e.id \in Milestone
    /\ \A e \in DealEntity : e.id \in Deal
    /\ \A m \in Milestone : DealOf[m] \in Deal /\ TypeOf[m] \in MilestoneType
  BY ConstantsAssumption DEF MilestoneEntity, DealEntity

\* A deal that is inserted changes only its status.
LEMMA InsertedDeal ==
    ASSUME NEW e \in DealEntity, NEW c, c = [e EXCEPT !.status = "negotiating"]
    PROVE  c \in DealEntity /\ c.id = e.id /\ c.status = "negotiating" /\ c.signed = e.signed
  BY DEF DealEntity, DealStatus

\* Every step preserves the type.
LEMMA NextTypeOK == TypeOK /\ [Next]_vars => TypeOK'
<1> SUFFICES ASSUME TypeOK, [Next]_vars
             PROVE  TypeOK'
  OBVIOUS
<1>1. ASSUME NEW d \in Deal, AwardDeal(d)
      PROVE  TypeOK'
  <2> DEFINE e == [deals[d] EXCEPT !.status = "negotiating"]
  <2>1. e \in DealEntity /\ e.id = d
    BY Contents, InsertedDeal
  <2>2. deals' = [deals EXCEPT ![d] = e]
    BY <1>1 DEF AwardDeal
  <2> HIDE DEF e
  <2>3. deals' \in [Deal -> DealEntity] /\ \A x \in Deal : deals'[x].id = x
    BY <2>1, <2>2 DEF TypeOK
  <2>4. /\ milestones' \in [Milestone -> MilestoneEntity]
        /\ \A m \in Milestone : milestones'[m].id = m
    BY <1>1, WithMilestonesType DEF AwardDeal, TypeOK
  <2> QED
    BY <1>1, <2>3, <2>4 DEF AwardDeal, TypeOK
<1>2. ASSUME NEW r \in Request, NEW d \in Deal, CreateDeal(r, d)
      PROVE  TypeOK'
  <2> DEFINE e == [deals[d] EXCEPT !.status = "negotiating"]
             f == [Idle EXCEPT !.step = "create", !.deals = {deals'[d]}]
  <2>1. e \in DealEntity /\ e.id = d
    BY Contents, InsertedDeal
  <2>2. deals' = [deals EXCEPT ![d] = e] /\ requests' = [requests EXCEPT ![r] = f]
    BY <1>2 DEF CreateDeal
  <2> HIDE DEF e
  <2>3. deals'[d] = e
    BY <2>2 DEF TypeOK
  <2>4. f \in Frame
    BY <2>1, <2>3, CreateFrame
  <2> HIDE DEF f
  <2>5. deals' \in [Deal -> DealEntity] /\ \A x \in Deal : deals'[x].id = x
    BY <2>1, <2>2 DEF TypeOK
  <2> QED
    BY <1>2, <2>2, <2>4, <2>5 DEF CreateDeal, TypeOK
<1>3. ASSUME NEW r \in Request, NEW m \in Milestone, NEW s \in Posted, UpdateMilestone(r, m, s)
      PROVE  TypeOK'
  <2>1. Saving(Posting(milestones[m], s)) \in Frame
    BY Contents, PostingMilestone, MilestoneFrames, ConstantsAssumption
  <2> QED
    BY <1>3, <2>1, ContinueTypeOK DEF UpdateMilestone
<1>4. ASSUME NEW r \in Request, NEW m \in Milestone, TriggerCompletion(r, m)
      PROVE  TypeOK'
  <2>1. Completing(milestones[m]) \in Frame
    BY Contents, MilestoneFrames
  <2> QED
    BY <1>4, <2>1 DEF TriggerCompletion, TypeOK
<1>5. ASSUME NEW r \in Request, CreateMilestones(r)
      PROVE  TypeOK'
  <2>1. PICK d \in requests[r].deals : milestones' = WithMilestonesOf(d.id)
    BY <1>5 DEF CreateMilestones
  <2>2. /\ milestones' \in [Milestone -> MilestoneEntity]
        /\ \A m \in Milestone : milestones'[m].id = m
    BY <2>1, WithMilestonesType DEF TypeOK
  <2> QED
    BY <1>5, <2>2, IdleFrame DEF CreateMilestones, TypeOK
<1>6. ASSUME NEW r \in Request, SaveCompare(r)
      PROVE  TypeOK'
  <2>1. PICK e \in requests[r].milestones :
           \/ Continue(r, Saved(e))
           \/ Continue(r, [requests[r] EXCEPT !.step = "update",
                                              !.columns = Dirty(e, milestones[e.id])])
    BY <1>6 DEF SaveCompare
  <2>2. Dirty(e, milestones[e.id]) \in SUBSET Columns
    BY Contents, Ids, DirtyMilestone
  <2>3. [requests[r] EXCEPT !.step = "update",
                            !.columns = Dirty(e, milestones[e.id])] \in Frame
    <3>1. requests[r] \in Frame
      BY Contents
    <3> QED
      BY <3>1, <2>2, StepFrames DEF Frame
  <2>4. Saved(e) \in Frame
    BY Contents, SavedFrame
  <2> QED
    BY <2>1, <2>3, <2>4, ContinueTypeOK
<1>7. ASSUME NEW r \in Request, SaveUpdate(r)
      PROVE  TypeOK'
  <2>1. PICK e \in requests[r].milestones :
           LET row == Flush(e, requests[r].columns, milestones[e.id])
           IN  /\ milestones' = [milestones EXCEPT ![e.id] = row]
               /\ completed' = IF row.status = "completed"
                               THEN completed \cup {e.id} ELSE completed
               /\ requests' = [requests EXCEPT ![r] = Saved(e)]
    BY <1>7, Zenon DEF SaveUpdate
  <2> DEFINE row == Flush(e, requests[r].columns, milestones[e.id])
  <2>2. e \in MilestoneEntity /\ e.id \in Milestone
    BY Contents, Ids
  <2>3. row \in MilestoneEntity /\ row.id = e.id
    BY <2>2, Contents, FlushMilestone
  <2>4. Saved(e) \in Frame
    BY <2>2, SavedFrame
  <2>5. /\ milestones' = [milestones EXCEPT ![e.id] = row]
        /\ completed' = IF row.status = "completed" THEN completed \cup {e.id} ELSE completed
    BY <2>1
  <2> HIDE DEF row
  <2> QED
    BY <1>7, <2>1, <2>2, <2>3, <2>4, <2>5 DEF SaveUpdate, TypeOK
<1>8. ASSUME NEW r \in Request, ReadMilestone(r)
      PROVE  TypeOK'
  <2>1. PICK e \in requests[r].milestones :
           Continue(r, [requests[r] EXCEPT
              !.step = IF TypeOf[e.id] \in DOMAIN Released THEN "query" ELSE "release",
              !.deals = {Advanced(deals[DealOf[e.id]], TypeOf[e.id])}])
    BY <1>8, Zenon DEF ReadMilestone
  <2>2. Advanced(deals[DealOf[e.id]], TypeOf[e.id]) \in DealEntity
    BY Contents, Ids, AdvancedDeal
  <2> DEFINE step == IF TypeOf[e.id] \in DOMAIN Released THEN "query" ELSE "release"
  <2>3. step \in {"query", "release"}
    OBVIOUS
  <2>4. Continue(r, [requests[r] EXCEPT
           !.step = step, !.deals = {Advanced(deals[DealOf[e.id]], TypeOf[e.id])}])
    BY <2>1
  <2> HIDE DEF step
  <2>5. [requests[r] EXCEPT
           !.step = step, !.deals = {Advanced(deals[DealOf[e.id]], TypeOf[e.id])}] \in Frame
    <3>1. requests[r] \in Frame
      BY Contents
    <3> QED
      BY <3>1, <2>2, <2>3 DEF Frame
  <2> QED
    BY <2>4, <2>5, ContinueTypeOK
<1>9. ASSUME NEW r \in Request, QueryHeld(r)
      PROVE  TypeOK'
  <2>1. PICK e \in requests[r].milestones :
           Continue(r, [requests[r] EXCEPT
                           !.step = "release", !.due = HeldFor(DealOf[e.id], TypeOf[e.id])])
    BY <1>9 DEF QueryHeld
  <2>2. HeldFor(DealOf[e.id], TypeOf[e.id]) \in SUBSET Payment
    BY DEF HeldFor
  <2>3. [requests[r] EXCEPT !.step = "release",
                            !.due = HeldFor(DealOf[e.id], TypeOf[e.id])] \in Frame
    BY <2>2, Contents, QueryFrame
  <2> QED
    BY <2>1, <2>3, ContinueTypeOK
<1>10. ASSUME NEW r \in Request, ReleaseNext(r)
       PROVE  TypeOK'
  <2>1. PICK p \in requests[r].due :
           /\ payments' = [payments EXCEPT ![p] = "released"]
           /\ requests' = [requests EXCEPT ![r].due = @ \ {p}]
    BY <1>10 DEF ReleaseNext
  <2>2. requests' = [requests EXCEPT ![r] = [requests[r] EXCEPT !.due = @ \ {p}]]
    BY <2>1
  <2>3. [requests[r] EXCEPT !.due = @ \ {p}] \in Frame
    BY Contents, ReleaseFrame
  <2> QED
    BY <1>10, <2>1, <2>2, <2>3 DEF ReleaseNext, TypeOK, PaymentStatus
<1>11. ASSUME NEW r \in Request, SettleCompare(r)
       PROVE  TypeOK'
  <2>1. PICK e \in requests[r].deals :
           \/ Continue(r, Idle)
           \/ Continue(r, [requests[r] EXCEPT !.step = "write",
                                              !.columns = Dirty(e, deals[e.id])])
    BY <1>11 DEF SettleCompare
  <2>2. Dirty(e, deals[e.id]) \in SUBSET Columns
    BY Contents, Ids, DirtyDeal
  <2>3. [requests[r] EXCEPT !.step = "write", !.columns = Dirty(e, deals[e.id])] \in Frame
    <3>1. requests[r] \in Frame
      BY Contents
    <3> QED
      BY <3>1, <2>2, StepFrames DEF Frame
  <2> QED
    BY <2>1, <2>3, IdleFrame, ContinueTypeOK
<1>12. ASSUME NEW r \in Request, SettleUpdate(r)
       PROVE  TypeOK'
  <2>1. PICK e \in requests[r].deals :
           deals' = [deals EXCEPT ![e.id] = Flush(e, requests[r].columns, @)]
    BY <1>12 DEF SettleUpdate
  <2>2. e \in DealEntity /\ e.id \in Deal
    BY Contents, Ids
  <2>3. /\ Flush(e, requests[r].columns, deals[e.id]) \in DealEntity
        /\ Flush(e, requests[r].columns, deals[e.id]).id = e.id
    BY <2>2, Contents, FlushDeal
  <2> QED
    BY <1>12, <2>1, <2>2, <2>3, IdleFrame DEF SettleUpdate, TypeOK
<1>13. ASSUME NEW p \in Payment, NEW s \in PaymentStatus, Ledger(p, s)
       PROVE  TypeOK'
  BY <1>13 DEF Ledger, TypeOK
<1>14. ASSUME NEW r \in Request, Fail(r)
       PROVE  TypeOK'
  BY <1>14, IdleFrame, ContinueTypeOK DEF Fail
<1>15. CASE UNCHANGED vars
  BY <1>15 DEF TypeOK, vars
<1> QED
  BY <1>1, <1>2, <1>3, <1>4, <1>5, <1>6, <1>7, <1>8, <1>9, <1>10, <1>11, <1>12,
     <1>13, <1>14, <1>15 DEF Next

\* Whatever handlers interleave or fail, the tables and the handlers hold
\* values of their types.
THEOREM DealsTypeOK == Spec => []TypeOK
<1> QED
  BY InitTypeOK, NextTypeOK, PTL DEF Spec

-----------------------------------------------------------------------------
(* Nothing is released, and no deal moves on, ahead of its milestones.     *)

\* More milestones completed earn at least as much.
LEMMA EarnedMore ==
    ASSUME NEW C, NEW D, C \subseteq D
    PROVE  /\ \A e : Earned(C, e) => Earned(D, e)
           /\ \A p : DueTo(C, p) => DueTo(D, p)
           /\ \A f : FrameEarned(C, f) => FrameEarned(D, f)
<1>1. \A e : Earned(C, e) => Earned(D, e)
  BY DEF Earned
<1>2. \A p : DueTo(C, p) => DueTo(D, p)
  BY DEF DueTo
<1>3. \A f : FrameEarned(C, f) => FrameEarned(D, f)
  BY <1>1, <1>2 DEF FrameEarned
<1> QED
  BY <1>1, <1>2, <1>3

\* An empty frame claims nothing.
LEMMA IdleEarned == \A C : FrameEarned(C, Idle)
  BY IdleFrame DEF FrameEarned

\* A step that writes one frame and no table preserves the invariant.
LEMMA ContinueEarned ==
    ASSUME EarnedInv, TypeOK, NEW r \in Request, NEW f,
           Continue(r, f) \/ Begin(r, f), FrameEarned(completed, f)
    PROVE  EarnedInv'
<1>1. /\ UNCHANGED <<deals, milestones, payments, completed, apart>>
      /\ requests' = [requests EXCEPT ![r] = f]
  BY DEF Continue, Begin
<1>2. \A x \in Request : FrameEarned(completed', requests'[x])
  BY <1>1 DEF EarnedInv, TypeOK
<1> QED
  BY <1>1, <1>2 DEF EarnedInv

\* Nothing has been earned, or is claimed, initially.
LEMMA InitEarnedInv == Init => EarnedInv
  BY IdleEarned DEF Init, EarnedInv, Earned, NoDeal, NoMilestone

\* Every step preserves the invariant.
LEMMA NextEarnedInv == TypeOK /\ EarnedInv /\ [Next]_vars => EarnedInv'
<1> SUFFICES ASSUME TypeOK, EarnedInv, [Next]_vars
             PROVE  EarnedInv'
  OBVIOUS
<1>a. ASSUME NEW r \in Request
      PROVE  FrameEarned(completed, requests[r])
  BY DEF EarnedInv
<1>1. ASSUME NEW d \in Deal, AwardDeal(d)
      PROVE  EarnedInv'
  <2> DEFINE e == [deals[d] EXCEPT !.status = "negotiating"]
  <2>1. e.id = deals[d].id /\ e.status = "negotiating" /\ e.signed = deals[d].signed
    BY Contents, InsertedDeal
  <2>2. /\ deals' = [deals EXCEPT ![d] = e]
        /\ milestones' = WithMilestonesOf(d)
        /\ UNCHANGED <<payments, requests, completed, apart>>
    BY <1>1 DEF AwardDeal
  <2> HIDE DEF e
  <2>3. Earned(completed, e)
    BY <2>1 DEF EarnedInv, Earned
  <2>4. \A x \in Deal : Earned(completed, deals'[x])
    BY <2>2, <2>3 DEF EarnedInv, TypeOK
  <2>5. \A m \in Milestone : milestones'[m].status = "completed" => m \in completed
    BY <2>2, WithMilestonesType DEF EarnedInv, TypeOK
  <2> QED
    BY <2>2, <2>4, <2>5 DEF EarnedInv
<1>2. ASSUME NEW r \in Request, NEW d \in Deal, CreateDeal(r, d)
      PROVE  EarnedInv'
  <2> DEFINE e == [deals[d] EXCEPT !.status = "negotiating"]
             f == [Idle EXCEPT !.step = "create", !.deals = {deals'[d]}]
  <2>1. /\ e.id = deals[d].id /\ e.status = "negotiating" /\ e.signed = deals[d].signed
        /\ e \in DealEntity
    BY Contents, InsertedDeal
  <2>2. /\ deals' = [deals EXCEPT ![d] = e]
        /\ requests' = [requests EXCEPT ![r] = f]
        /\ UNCHANGED <<milestones, payments, completed, apart>>
    BY <1>2 DEF CreateDeal
  <2> HIDE DEF e
  <2>3. Earned(completed, e)
    BY <2>1 DEF EarnedInv, Earned
  <2>4. deals'[d] = e
    BY <2>2 DEF TypeOK
  <2>5. f.step = "create" /\ f.deals = {e} /\ f.milestones = {} /\ f.due = {}
    BY <2>1, <2>4, CreateFrame
  <2> HIDE DEF f
  <2>6. FrameEarned(completed, f)
    BY <2>3, <2>5 DEF FrameEarned
  <2>7. \A x \in Deal : Earned(completed, deals'[x])
    BY <2>2, <2>3 DEF EarnedInv, TypeOK
  <2>8. \A x \in Request : FrameEarned(completed, requests'[x])
    BY <2>2, <2>6 DEF EarnedInv, TypeOK
  <2> QED
    BY <2>2, <2>7, <2>8 DEF EarnedInv
<1>3. ASSUME NEW r \in Request, NEW m \in Milestone, NEW s \in Posted, UpdateMilestone(r, m, s)
      PROVE  EarnedInv'
  <2>1. Posting(milestones[m], s) \in MilestoneEntity
    BY Contents, PostingMilestone, ConstantsAssumption
  <2>2. FrameEarned(completed, Saving(Posting(milestones[m], s)))
    BY <2>1, MilestoneFrames DEF FrameEarned
  <2> QED
    BY <1>3, <2>2, ContinueEarned DEF UpdateMilestone
<1>4. ASSUME NEW r \in Request, NEW m \in Milestone, TriggerCompletion(r, m)
      PROVE  EarnedInv'
  <2> DEFINE f == Completing(milestones[m])
             C == completed \cup {m}
  <2>1. /\ requests' = [requests EXCEPT ![r] = f]
        /\ completed' = C
        /\ UNCHANGED <<deals, milestones, payments, apart>>
    BY <1>4 DEF TriggerCompletion
  <2>2. milestones[m] \in MilestoneEntity /\ milestones[m].id = m
    BY Contents
  <2>3. FrameEarned(C, f)
    BY <2>2, MilestoneFrames DEF FrameEarned
  <2>4. completed \subseteq C
    OBVIOUS
  <2> HIDE DEF f, C
  <2>5. \A x \in Request : FrameEarned(C, requests[x])
    BY <2>4, <1>a, EarnedMore
  <2>6. \A x \in Request : FrameEarned(C, requests'[x])
    BY <2>1, <2>3, <2>5 DEF TypeOK
  <2>7. /\ \A x \in Milestone : milestones[x].status = "completed" => x \in C
        /\ \A d \in Deal : Earned(C, deals[d])
        /\ \A p \in Payment : payments[p] = "released" => DueTo(C, p) \/ p \in apart
    BY <2>4, EarnedMore DEF EarnedInv
  <2> QED
    BY <2>1, <2>6, <2>7 DEF EarnedInv
<1>5. ASSUME NEW r \in Request, CreateMilestones(r)
      PROVE  EarnedInv'
  <2>1. PICK d \in requests[r].deals : milestones' = WithMilestonesOf(d.id)
    BY <1>5 DEF CreateMilestones
  <2>2. /\ requests' = [requests EXCEPT ![r] = Idle]
        /\ UNCHANGED <<deals, payments, completed, apart>>
    BY <1>5 DEF CreateMilestones
  <2>3. \A m \in Milestone : milestones'[m].status = "completed" => m \in completed
    BY <2>1, WithMilestonesType DEF EarnedInv, TypeOK
  <2>4. \A x \in Request : FrameEarned(completed, requests'[x])
    BY <2>2, IdleEarned DEF EarnedInv, TypeOK
  <2> QED
    BY <2>2, <2>3, <2>4 DEF EarnedInv
<1>6. ASSUME NEW r \in Request, SaveCompare(r)
      PROVE  EarnedInv'
  <2>1. PICK e \in requests[r].milestones :
           \/ /\ Dirty(e, milestones[e.id]) = {}
              /\ Continue(r, Saved(e))
           \/ Continue(r, [requests[r] EXCEPT !.step = "update",
                                              !.columns = Dirty(e, milestones[e.id])])
    BY <1>6 DEF SaveCompare
  <2> DEFINE D == Dirty(e, milestones[e.id])
             f == [requests[r] EXCEPT !.step = "update", !.columns = D]
  <2>2. e \in MilestoneEntity /\ e.id \in Milestone /\ requests[r] \in Frame
    BY Contents, Ids
  <2>3. D \in SUBSET Columns /\ ("status" \notin D => e.status = milestones[e.id].status)
    BY <2>2, Contents, DirtyMilestone
  <2>4. CASE D = {} /\ Continue(r, Saved(e))
    <3>1. e.status = "completed" => e.id \in completed
      BY <2>2, <2>3, <2>4 DEF EarnedInv
    <3>2. FrameEarned(completed, Saved(e))
      BY <2>2, <3>1, SavedFrame DEF FrameEarned
    <3> QED
      BY <2>4, <3>2, ContinueEarned
  <2>5. CASE Continue(r, f)
    <3> HIDE DEF D
    <3>1. /\ f.step = "update" /\ f.columns = D /\ f.milestones = requests[r].milestones
          /\ f.deals = requests[r].deals /\ f.due = requests[r].due
      BY <2>2, <2>3 DEF Frame
    <3>2. /\ \A x \in requests[r].deals : Earned(completed, x)
          /\ \A p \in requests[r].due : DueTo(completed, p)
      BY <1>a DEF FrameEarned
    <3>3. \A x \in requests[r].milestones : x = e
      BY <1>a DEF FrameEarned
    <3>4. e.status = "completed" => "status" \in D \/ e.id \in completed
      BY <2>2, <2>3 DEF EarnedInv
    <3> HIDE DEF f
    <3>5. FrameEarned(completed, f)
      BY <3>1, <3>2, <3>3, <3>4 DEF FrameEarned
    <3> QED
      BY <2>5, <3>5, ContinueEarned
  <2> QED
    BY <2>1, <2>4, <2>5
<1>7. ASSUME NEW r \in Request, SaveUpdate(r)
      PROVE  EarnedInv'
  <2>1. PICK e \in requests[r].milestones :
           LET row == Flush(e, requests[r].columns, milestones[e.id])
           IN  /\ milestones' = [milestones EXCEPT ![e.id] = row]
               /\ completed' = IF row.status = "completed"
                               THEN completed \cup {e.id} ELSE completed
               /\ requests' = [requests EXCEPT ![r] = Saved(e)]
    BY <1>7, Zenon DEF SaveUpdate
  <2> DEFINE row == Flush(e, requests[r].columns, milestones[e.id])
  <2>2. e \in MilestoneEntity /\ e.id \in Milestone
    BY Contents, Ids
  <2>3. row.status = IF "status" \in requests[r].columns
                     THEN e.status ELSE milestones[e.id].status
    BY <2>2, Contents, FlushMilestone
  <2>4. /\ milestones' = [milestones EXCEPT ![e.id] = row]
        /\ completed' = IF row.status = "completed" THEN completed \cup {e.id} ELSE completed
        /\ requests' = [requests EXCEPT ![r] = Saved(e)]
        /\ UNCHANGED <<deals, payments, apart>>
    BY <1>7, <2>1 DEF SaveUpdate
  <2>5. e.status = "completed" => "status" \in requests[r].columns \/ e.id \in completed
    BY <1>a, <1>7 DEF FrameEarned, SaveUpdate
  <2> HIDE DEF row
  <2>6. completed \subseteq completed'
    BY <2>4
  <2>7. e.status = "completed" => e.id \in completed'
    BY <2>3, <2>4, <2>5
  <2>8. FrameEarned(completed', Saved(e))
    BY <2>2, <2>7, SavedFrame DEF FrameEarned
  <2>9. \A m \in Milestone : milestones'[m].status = "completed" => m \in completed'
    BY <2>2, <2>4 DEF EarnedInv, TypeOK
  <2>10. \A d \in Deal : Earned(completed', deals'[d])
    BY <2>4, <2>6, EarnedMore DEF EarnedInv
  <2>11. \A p \in Payment : payments'[p] = "released" => DueTo(completed', p) \/ p \in apart'
    BY <2>4, <2>6, EarnedMore DEF EarnedInv
  <2>12. \A x \in Request : FrameEarned(completed', requests'[x])
    <3>1. \A x \in Request : FrameEarned(completed', requests[x])
      BY <1>a, <2>6, EarnedMore
    <3>2. \A x \in Request : requests'[x] = IF x = r THEN Saved(e) ELSE requests[x]
      BY <2>4 DEF TypeOK
    <3> QED
      BY <2>8, <3>1, <3>2
  <2> QED
    BY <2>9, <2>10, <2>11, <2>12 DEF EarnedInv
<1>8. ASSUME NEW r \in Request, ReadMilestone(r)
      PROVE  EarnedInv'
  <2>1. PICK e \in requests[r].milestones :
           Continue(r, [requests[r] EXCEPT
              !.step = IF TypeOf[e.id] \in DOMAIN Released THEN "query" ELSE "release",
              !.deals = {Advanced(deals[DealOf[e.id]], TypeOf[e.id])}])
    BY <1>8, Zenon DEF ReadMilestone
  <2> DEFINE step == IF TypeOf[e.id] \in DOMAIN Released THEN "query" ELSE "release"
             d == deals[DealOf[e.id]]
             a == Advanced(d, TypeOf[e.id])
             f == [requests[r] EXCEPT !.step = step, !.deals = {a}]
  <2>2. e \in MilestoneEntity /\ e.id \in Milestone /\ requests[r] \in Frame
    BY Contents, Ids
  <2>3. d \in DealEntity /\ d.id = DealOf[e.id] /\ Earned(completed, d)
    BY <2>2, Contents, Ids DEF EarnedInv
  <2>4. /\ e.id \in completed
        /\ \A x \in requests[r].milestones : x = e
        /\ \A p \in requests[r].due : DueTo(completed, p)
    BY <1>8, <1>a DEF ReadMilestone, FrameEarned
  <2>5. /\ a \in DealEntity /\ a.id = d.id
        /\ a.status = IF TypeOf[e.id] \in DOMAIN StatusAfter
                      THEN StatusAfter[TypeOf[e.id]] ELSE d.status
        /\ a.signed = (d.signed \/ TypeOf[e.id] = "contract_signing")
    BY <2>2, <2>3, Ids, AdvancedDeal
  <2> HIDE DEF d, a
  <2>6. Earned(completed, a)
    BY <2>3, <2>4, <2>5 DEF Earned
  <2>7. step \in {"query", "release"} /\ Continue(r, f)
    BY <2>1 DEF d, a
  <2> HIDE DEF step
  <2>8. /\ f.step = step /\ f.deals = {a}
        /\ f.milestones = requests[r].milestones /\ f.due = requests[r].due
    BY <2>2, <2>5, <2>7 DEF Frame
  <2> HIDE DEF f
  <2>9. FrameEarned(completed, f)
    BY <2>4, <2>6, <2>7, <2>8 DEF FrameEarned
  <2> QED
    BY <2>7, <2>9, ContinueEarned
<1>9. ASSUME NEW r \in Request, QueryHeld(r)
      PROVE  EarnedInv'
  <2>1. PICK e \in requests[r].milestones :
           Continue(r, [requests[r] EXCEPT
                           !.step = "release", !.due = HeldFor(DealOf[e.id], TypeOf[e.id])])
    BY <1>9 DEF QueryHeld
  <2> DEFINE P == HeldFor(DealOf[e.id], TypeOf[e.id])
             f == [requests[r] EXCEPT !.step = "release", !.due = P]
  <2>2. /\ e.id \in completed
        /\ \A x \in requests[r].milestones : x = e
        /\ \A x \in requests[r].deals : Earned(completed, x)
    BY <1>9, <1>a DEF QueryHeld, FrameEarned
  <2>3. \A p \in P : DueTo(completed, p)
    BY <2>2 DEF HeldFor, DueTo
  <2>4. P \subseteq Payment /\ requests[r] \in Frame
    BY Contents DEF HeldFor
  <2> HIDE DEF P
  <2>5. /\ f.step = "release" /\ f.due = P
        /\ f.milestones = requests[r].milestones /\ f.deals = requests[r].deals
    BY <2>4 DEF Frame
  <2>6. Continue(r, f)
    BY <2>1 DEF P
  <2> HIDE DEF f
  <2>7. FrameEarned(completed, f)
    BY <2>2, <2>3, <2>5 DEF FrameEarned
  <2> QED
    BY <2>6, <2>7, ContinueEarned
<1>10. ASSUME NEW r \in Request, ReleaseNext(r)
       PROVE  EarnedInv'
  <2>1. PICK p \in requests[r].due :
           /\ payments' = [payments EXCEPT ![p] = "released"]
           /\ requests' = [requests EXCEPT ![r].due = @ \ {p}]
    BY <1>10 DEF ReleaseNext
  <2> DEFINE f == [requests[r] EXCEPT !.due = @ \ {p}]
  <2>2. UNCHANGED <<deals, milestones, completed, apart>> /\ requests' = [requests EXCEPT ![r] = f]
    BY <1>10, <2>1 DEF ReleaseNext
  <2>3. requests[r] \in Frame /\ FrameEarned(completed, requests[r])
    BY <1>a, Contents
  <2>4. /\ f.step = requests[r].step /\ f.due = requests[r].due \ {p}
        /\ f.columns = requests[r].columns
        /\ f.milestones = requests[r].milestones /\ f.deals = requests[r].deals
    BY <2>3 DEF Frame
  <2> HIDE DEF f
  <2>5. FrameEarned(completed, f)
    BY <2>3, <2>4 DEF FrameEarned
  <2>6. DueTo(completed, p)
    BY <2>3 DEF FrameEarned
  <2>7. \A q \in Payment : payments'[q] = "released" => DueTo(completed, q) \/ q \in apart'
    BY <2>1, <2>2, <2>6 DEF EarnedInv, TypeOK
  <2>8. \A x \in Request : FrameEarned(completed, requests'[x])
    BY <2>2, <2>5 DEF EarnedInv, TypeOK
  <2> QED
    BY <2>2, <2>7, <2>8 DEF EarnedInv
<1>11. ASSUME NEW r \in Request, SettleCompare(r)
       PROVE  EarnedInv'
  <2>1. PICK e \in requests[r].deals :
           \/ Continue(r, Idle)
           \/ Continue(r, [requests[r] EXCEPT !.step = "write",
                                              !.columns = Dirty(e, deals[e.id])])
    BY <1>11 DEF SettleCompare
  <2> DEFINE D == Dirty(e, deals[e.id])
             f == [requests[r] EXCEPT !.step = "write", !.columns = D]
  <2>2. requests[r] \in Frame /\ FrameEarned(completed, requests[r])
        /\ requests[r].step = "release"
    BY <1>11, <1>a, Contents DEF SettleCompare
  <2>3. CASE Continue(r, Idle)
    BY <2>3, IdleEarned, ContinueEarned
  <2>4. CASE Continue(r, f)
    <3> HIDE DEF D
    <3>1. /\ f.step = "write" /\ f.milestones = requests[r].milestones
          /\ f.deals = requests[r].deals /\ f.due = requests[r].due
      BY <2>2 DEF Frame
    <3> HIDE DEF f
    <3>2. FrameEarned(completed, f)
      BY <2>2, <3>1 DEF FrameEarned
    <3> QED
      BY <2>4, <3>2, ContinueEarned
  <2> QED
    BY <2>1, <2>3, <2>4
<1>12. ASSUME NEW r \in Request, SettleUpdate(r)
       PROVE  EarnedInv'
  <2>1. PICK e \in requests[r].deals :
           deals' = [deals EXCEPT ![e.id] = Flush(e, requests[r].columns, @)]
    BY <1>12 DEF SettleUpdate
  <2> DEFINE row == Flush(e, requests[r].columns, deals[e.id])
  <2>2. /\ requests' = [requests EXCEPT ![r] = Idle]
        /\ UNCHANGED <<milestones, payments, completed, apart>>
        /\ deals' = [deals EXCEPT ![e.id] = row]
    BY <1>12, <2>1 DEF SettleUpdate
  <2>3. /\ e \in DealEntity /\ e.id \in Deal /\ deals[e.id] \in DealEntity
        /\ deals[e.id].id = e.id
        /\ Earned(completed, e) /\ Earned(completed, deals[e.id])
    BY <1>a, Contents, Ids DEF FrameEarned, EarnedInv
  <2>4. /\ row.id = e.id
        /\ row.status \in {e.status, deals[e.id].status}
        /\ row.signed \in {e.signed, deals[e.id].signed}
    BY <2>3, FlushDeal
  <2> HIDE DEF row
  <2>5. Earned(completed, row)
    BY <2>3, <2>4 DEF Earned
  <2>6. \A d \in Deal : Earned(completed, deals'[d])
    BY <2>2, <2>3, <2>5 DEF EarnedInv, TypeOK
  <2>7. \A x \in Request : FrameEarned(completed, requests'[x])
    BY <2>2, IdleEarned DEF EarnedInv, TypeOK
  <2> QED
    BY <2>2, <2>6, <2>7 DEF EarnedInv
<1>13. ASSUME NEW p \in Payment, NEW s \in PaymentStatus, Ledger(p, s)
       PROVE  EarnedInv'
  BY <1>13 DEF Ledger, EarnedInv, TypeOK
<1>14. ASSUME NEW r \in Request, Fail(r)
       PROVE  EarnedInv'
  BY <1>14, IdleEarned, ContinueEarned DEF Fail
<1>15. CASE UNCHANGED vars
  BY <1>15 DEF EarnedInv, vars
<1> QED
  BY <1>1, <1>2, <1>3, <1>4, <1>5, <1>6, <1>7, <1>8, <1>9, <1>10, <1>11, <1>12,
     <1>13, <1>14, <1>15 DEF Next

\* The invariant implies both properties.
LEMMA EarnedInvSuffices ==
    TypeOK /\ EarnedInv => ReleasedWhenDue /\ StatusEarned
  BY DEF TypeOK, EarnedInv, ReleasedWhenDue, StatusEarned, Due, DueTo, Earned

\* The invariant holds throughout.
LEMMA EarnedThroughout == Spec => []EarnedInv
  BY InitEarnedInv, NextEarnedInv, DealsTypeOK, PTL DEF Spec

\* The workflow releases money only after a milestone of its deal that its
\* release condition names was stored as completed, or reported so by hand,
\* however saves, workflows, failures and the handlers of module Payments
\* interleave; what is released otherwise, a handler of those released.
THEOREM DealsReleasedWhenDue == Spec => []ReleasedWhenDue
  BY EarnedThroughout, EarnedInvSuffices, DealsTypeOK, PTL

\* A deal's status, and its signed contract, stand for milestones of its own
\* that were stored, or reported, as completed.
THEOREM DealsStatusEarned == Spec => []StatusEarned
  BY EarnedThroughout, EarnedInvSuffices, DealsTypeOK, PTL

-----------------------------------------------------------------------------
(* The deal room implements the contract (module Contract).                *)

\* The deals there are.
There == {d \in Deal : DealExists(d)}

\* A handler works on milestones of deals that are there (in D), and on copies
\* of such deals.
FrameConcluded(D, f) ==
    /\ \A e \in f.milestones : DealOf[e.id] \in D
    /\ \A e \in f.deals : e.status # "absent" /\ e.id \in D

\* No milestone, and no handler, is ahead of the deals.
ConcludedInv ==
    /\ \A m \in Milestone : MilestoneExists(m) => DealOf[m] \in There
    /\ \A r \in Request : FrameConcluded(There, requests[r])

\* What a frame relies on stays when deals are added.
LEMMA ConcludedMore ==
    ASSUME NEW D, NEW E, D \subseteq E
    PROVE  \A f : FrameConcluded(D, f) => FrameConcluded(E, f)
  BY DEF FrameConcluded

\* An empty frame relies on nothing.
LEMMA IdleConcluded == \A D : FrameConcluded(D, Idle)
  BY IdleFrame DEF FrameConcluded

\* A step that writes one frame and no table preserves the invariant.
LEMMA ContinueConcluded ==
    ASSUME ConcludedInv, TypeOK, NEW r \in Request, NEW f,
           Continue(r, f) \/ Begin(r, f), FrameConcluded(There, f)
    PROVE  ConcludedInv'
<1>1. /\ UNCHANGED <<deals, milestones, payments, apart>>
      /\ requests' = [requests EXCEPT ![r] = f]
  BY DEF Continue, Begin
<1>2. There' = There
  BY <1>1 DEF There, DealExists
<1>3. \A x \in Request : FrameConcluded(There', requests'[x])
  BY <1>1, <1>2 DEF ConcludedInv, TypeOK
<1> QED
  BY <1>1, <1>2, <1>3 DEF ConcludedInv, MilestoneExists

\* A step that writes tables, and one frame, preserves the invariant if no
\* deal goes and a new milestone has its deal.
LEMMA TablesConcluded ==
    ASSUME ConcludedInv, TypeOK, There \subseteq There',
           \A m \in Milestone : MilestoneExists(m)' => MilestoneExists(m) \/ DealOf[m] \in There',
           NEW r \in Request, NEW f, FrameConcluded(There', f),
           requests' = [requests EXCEPT ![r] = f]
    PROVE  ConcludedInv'
<1>1. \A m \in Milestone : MilestoneExists(m)' => DealOf[m] \in There'
  BY DEF ConcludedInv
<1>2. \A x \in Request : FrameConcluded(There, requests[x])
  BY DEF ConcludedInv
<1>3. \A x \in Request : FrameConcluded(There', requests[x])
  BY <1>2, ConcludedMore
<1>4. \A x \in Request : FrameConcluded(There', requests'[x])
  BY <1>3 DEF TypeOK
<1> QED
  BY <1>1, <1>4 DEF ConcludedInv

\* No milestone, and no handler, is there initially.
LEMMA InitConcludedInv == Init => ConcludedInv
  BY IdleConcluded DEF Init, ConcludedInv, MilestoneExists, NoMilestone

\* The milestones of a deal are added to that deal only.
LEMMA AddedMilestones ==
    ASSUME TypeOK, NEW d, milestones' = WithMilestonesOf(d)
    PROVE  \A m \in Milestone : MilestoneExists(m)' => MilestoneExists(m) \/ DealOf[m] = d
  BY DEF WithMilestonesOf, MilestoneExists

\* A deal inserted is there; the others stay as they were.
LEMMA InsertedThere ==
    ASSUME TypeOK, NEW d \in Deal, deals' = [deals EXCEPT ![d].status = "negotiating"]
    PROVE  /\ There' = There \cup {d}
           /\ deals'[d].status = "negotiating" /\ deals'[d].id = d
           /\ deals'[d].signed = deals[d].signed
           /\ \A x \in Deal : x # d => deals'[x] = deals[x]
<1> DEFINE e == [deals[d] EXCEPT !.status = "negotiating"]
<1>1. e.status = "negotiating" /\ e.id = d /\ e.signed = deals[d].signed
  BY Contents, InsertedDeal
<1>2. deals' = [deals EXCEPT ![d] = e]
  OBVIOUS
<1> HIDE DEF e
<1>3. \A x \in Deal : deals'[x] = IF x = d THEN e ELSE deals[x]
  BY <1>2 DEF TypeOK
<1> QED
  BY <1>1, <1>3 DEF There, DealExists

\* The copy that a workflow saves replaces columns of a deal that is there,
\* which stays there.
LEMMA SettledDeal ==
    ASSUME TypeOK, ConcludedInv, NEW r \in Request, NEW e \in requests[r].deals,
           deals' = [deals EXCEPT ![e.id] = Flush(e, requests[r].columns, @)]
    PROVE  /\ e \in DealEntity /\ e.id \in Deal /\ e.id \in There
           /\ deals'[e.id].status \in {e.status, deals[e.id].status} \ {"absent"}
           /\ deals'[e.id].signed \in {e.signed, deals[e.id].signed}
           /\ \A x \in Deal : x # e.id => deals'[x] = deals[x]
           /\ There' = There
<1> DEFINE row == Flush(e, requests[r].columns, deals[e.id])
<1>1. e \in DealEntity /\ e.id \in Deal /\ deals[e.id] \in DealEntity
  BY Contents, Ids
<1>2. e.status # "absent" /\ e.id \in There
  BY DEF ConcludedInv, FrameConcluded
<1>3. deals[e.id].status # "absent"
  BY <1>2 DEF There, DealExists
<1>4. /\ row.status \in {e.status, deals[e.id].status}
      /\ row.signed \in {e.signed, deals[e.id].signed}
  BY <1>1, FlushDeal
<1>5. deals' = [deals EXCEPT ![e.id] = row]
  OBVIOUS
<1> HIDE DEF row
<1>6. \A x \in Deal : deals'[x] = IF x = e.id THEN row ELSE deals[x]
  BY <1>5 DEF TypeOK
<1>7. deals'[e.id].status \in {e.status, deals[e.id].status} \ {"absent"}
  BY <1>1, <1>2, <1>3, <1>4, <1>6
<1>8. There' = There
  BY <1>1, <1>2, <1>6, <1>7 DEF There, DealExists
<1> QED
  BY <1>1, <1>2, <1>4, <1>6, <1>7, <1>8

\* Every step preserves the invariant.
LEMMA NextConcludedInv == TypeOK /\ ConcludedInv /\ [Next]_vars => ConcludedInv'
<1> SUFFICES ASSUME TypeOK, ConcludedInv, [Next]_vars
             PROVE  ConcludedInv'
  OBVIOUS
<1>a. ASSUME NEW r \in Request
      PROVE  FrameConcluded(There, requests[r])
  BY DEF ConcludedInv
<1>b. ASSUME NEW m \in Milestone, MilestoneExists(m)
      PROVE  DealOf[m] \in There
  BY <1>b DEF ConcludedInv
<1>1. ASSUME NEW d \in Deal, AwardDeal(d)
      PROVE  ConcludedInv'
  <2>1. /\ milestones' = WithMilestonesOf(d)
        /\ UNCHANGED <<payments, requests, apart>>
        /\ There' = There \cup {d}
    BY <1>1, InsertedThere DEF AwardDeal
  <2>3. \A m \in Milestone : MilestoneExists(m)' => DealOf[m] \in There'
    BY <2>1, <1>b, AddedMilestones
  <2>4. \A x \in Request : FrameConcluded(There', requests[x])
    BY <1>a, <2>1, ConcludedMore
  <2> QED
    BY <2>1, <2>3, <2>4 DEF ConcludedInv
<1>2. ASSUME NEW r \in Request, NEW d \in Deal, CreateDeal(r, d)
      PROVE  ConcludedInv'
  <2> DEFINE f == [Idle EXCEPT !.step = "create", !.deals = {deals'[d]}]
  <2>1. /\ requests' = [requests EXCEPT ![r] = f]
        /\ UNCHANGED <<milestones, payments, apart>>
        /\ deals' = [deals EXCEPT ![d].status = "negotiating"]
    BY <1>2 DEF CreateDeal
  <2>2. There' = There \cup {d} /\ deals'[d].status = "negotiating" /\ deals'[d].id = d
    BY <2>1, InsertedThere
  <2>3. f.deals = {deals'[d]} /\ f.milestones = {} /\ f.due = {}
    BY DEF Idle
  <2> HIDE DEF f
  <2>4. FrameConcluded(There', f)
    BY <2>2, <2>3 DEF FrameConcluded
  <2>6. \A m \in Milestone : MilestoneExists(m)' => MilestoneExists(m)
    BY <2>1 DEF MilestoneExists
  <2> QED
    BY <2>1, <2>2, <2>4, <2>6, TablesConcluded
<1>3. ASSUME NEW r \in Request, NEW m \in Milestone, NEW s \in Posted, UpdateMilestone(r, m, s)
      PROVE  ConcludedInv'
  <2> DEFINE e == Posting(milestones[m], s)
  <2>1. e \in MilestoneEntity /\ e.id = m
    BY Contents, PostingMilestone, ConstantsAssumption
  <2>2. DealOf[m] \in There /\ Begin(r, Saving(e))
    BY <1>3, <1>b DEF UpdateMilestone
  <2> HIDE DEF e
  <2>3. FrameConcluded(There, Saving(e))
    BY <2>1, <2>2, MilestoneFrames DEF FrameConcluded
  <2> QED
    BY <2>2, <2>3, ContinueConcluded
<1>4. ASSUME NEW r \in Request, NEW m \in Milestone, TriggerCompletion(r, m)
      PROVE  ConcludedInv'
  <2> DEFINE f == Completing(milestones[m])
  <2>1. milestones[m] \in MilestoneEntity /\ milestones[m].id = m /\ DealOf[m] \in There
    BY <1>4, <1>b, Contents DEF TriggerCompletion
  <2>2. FrameConcluded(There, f)
    BY <2>1, MilestoneFrames DEF FrameConcluded
  <2>3. /\ requests' = [requests EXCEPT ![r] = f]
        /\ UNCHANGED <<deals, milestones, payments, apart>>
    BY <1>4 DEF TriggerCompletion
  <2> HIDE DEF f
  <2>4. There' = There
    BY <2>3 DEF There, DealExists
  <2>5. \A x \in Milestone : MilestoneExists(x)' => MilestoneExists(x)
    BY <2>3 DEF MilestoneExists
  <2> QED
    BY <2>2, <2>3, <2>4, <2>5, TablesConcluded
<1>5. ASSUME NEW r \in Request, CreateMilestones(r)
      PROVE  ConcludedInv'
  <2>1. PICK d \in requests[r].deals : milestones' = WithMilestonesOf(d.id)
    BY <1>5 DEF CreateMilestones
  <2>2. d.id \in There
    BY <1>a DEF FrameConcluded
  <2>3. requests' = [requests EXCEPT ![r] = Idle] /\ UNCHANGED <<deals, payments, apart>>
    BY <1>5 DEF CreateMilestones
  <2>4. There' = There
    BY <2>3 DEF There, DealExists
  <2>5. \A m \in Milestone : MilestoneExists(m)' => MilestoneExists(m) \/ DealOf[m] \in There'
    BY <2>1, <2>2, <2>4, AddedMilestones
  <2>6. FrameConcluded(There', Idle)
    BY IdleConcluded
  <2> QED
    BY <2>3, <2>4, <2>5, <2>6, TablesConcluded
<1>6. ASSUME NEW r \in Request, SaveCompare(r)
      PROVE  ConcludedInv'
  <2>1. PICK e \in requests[r].milestones :
           Continue(r, IF Dirty(e, milestones[e.id]) = {} THEN Saved(e)
                       ELSE [requests[r] EXCEPT !.step = "update",
                                                !.columns = Dirty(e, milestones[e.id])])
    BY <1>6, Zenon DEF SaveCompare
  <2> DEFINE D == Dirty(e, milestones[e.id])
             f == [requests[r] EXCEPT !.step = "update", !.columns = D]
  <2>2. /\ e \in MilestoneEntity /\ DealOf[e.id] \in There
        /\ requests[r] \in Frame /\ FrameConcluded(There, requests[r])
    BY <1>a, Contents DEF FrameConcluded
  <2>3. FrameConcluded(There, Saved(e))
    BY <2>2, SavedFrame DEF FrameConcluded
  <2>4. f.milestones = requests[r].milestones /\ f.deals = requests[r].deals
        /\ f.due = requests[r].due
    BY <2>2 DEF Frame
  <2>5. Continue(r, Saved(e)) \/ Continue(r, f)
    BY <2>1
  <2> HIDE DEF f
  <2>6. FrameConcluded(There, f)
    BY <2>2, <2>4 DEF FrameConcluded
  <2> QED
    BY <2>3, <2>5, <2>6, ContinueConcluded
<1>7. ASSUME NEW r \in Request, SaveUpdate(r)
      PROVE  ConcludedInv'
  <2>1. PICK e \in requests[r].milestones :
           /\ milestones' = [milestones EXCEPT ![e.id] =
                                Flush(e, requests[r].columns, milestones[e.id])]
           /\ requests' = [requests EXCEPT ![r] = Saved(e)]
    BY <1>7 DEF SaveUpdate
  <2>2. /\ e \in MilestoneEntity /\ e.id \in Milestone
        /\ DealOf[e.id] \in There
    BY <1>a, Contents, Ids DEF FrameConcluded
  <2>3. UNCHANGED <<deals, payments, apart>>
    BY <1>7 DEF SaveUpdate
  <2>4. There' = There
    BY <2>3 DEF There, DealExists
  <2>5. FrameConcluded(There', Saved(e))
    BY <2>2, <2>4, SavedFrame DEF FrameConcluded
  <2>6. \A m \in Milestone : m # e.id => milestones'[m] = milestones[m]
    BY <2>1 DEF TypeOK
  <2>7. \A m \in Milestone : MilestoneExists(m)' => MilestoneExists(m) \/ DealOf[m] \in There'
    BY <2>2, <2>4, <2>6 DEF MilestoneExists
  <2> QED
    BY <2>1, <2>4, <2>5, <2>7, TablesConcluded
<1>8. ASSUME NEW r \in Request, ReadMilestone(r)
      PROVE  ConcludedInv'
  <2>1. PICK e \in requests[r].milestones :
           Continue(r, [requests[r] EXCEPT
              !.step = IF TypeOf[e.id] \in DOMAIN Released THEN "query" ELSE "release",
              !.deals = {Advanced(deals[DealOf[e.id]], TypeOf[e.id])}])
    BY <1>8, Zenon DEF ReadMilestone
  <2> DEFINE step == IF TypeOf[e.id] \in DOMAIN Released THEN "query" ELSE "release"
             d == deals[DealOf[e.id]]
             a == Advanced(d, TypeOf[e.id])
             f == [requests[r] EXCEPT !.step = step, !.deals = {a}]
  <2>2. /\ e.id \in Milestone /\ DealOf[e.id] \in There
        /\ requests[r] \in Frame /\ FrameConcluded(There, requests[r])
    BY <1>a, Contents, Ids DEF FrameConcluded
  <2>3. d \in DealEntity /\ d.id = DealOf[e.id] /\ d.status # "absent"
    BY <2>2, Contents, Ids DEF There, DealExists
  <2>4. /\ a \in DealEntity /\ a.id = d.id
        /\ a.status = IF TypeOf[e.id] \in DOMAIN StatusAfter
                      THEN StatusAfter[TypeOf[e.id]] ELSE d.status
    BY <2>2, <2>3, Ids, AdvancedDeal
  <2>5. a.status # "absent"
    BY <2>3, <2>4 DEF StatusAfter
  <2>6. step \in {"query", "release"} /\ Continue(r, f)
    BY <2>1
  <2> HIDE DEF d, a, step
  <2>7. f.deals = {a} /\ f.milestones = requests[r].milestones /\ f.due = requests[r].due
    BY <2>2 DEF Frame
  <2> HIDE DEF f
  <2>8. FrameConcluded(There, f)
    BY <2>2, <2>3, <2>4, <2>5, <2>7 DEF FrameConcluded
  <2> QED
    BY <2>6, <2>8, ContinueConcluded
<1>9. ASSUME NEW r \in Request, QueryHeld(r)
      PROVE  ConcludedInv'
  <2>1. PICK e \in requests[r].milestones :
           Continue(r, [requests[r] EXCEPT
                           !.step = "release", !.due = HeldFor(DealOf[e.id], TypeOf[e.id])])
    BY <1>9, Zenon DEF QueryHeld
  <2> DEFINE P == HeldFor(DealOf[e.id], TypeOf[e.id])
             f == [requests[r] EXCEPT !.step = "release", !.due = P]
  <2>3. requests[r] \in Frame /\ FrameConcluded(There, requests[r])
    BY <1>a, Contents
  <2>4. Continue(r, f)
    BY <2>1
  <2> HIDE DEF P
  <2>5. f.due = P /\ f.milestones = requests[r].milestones /\ f.deals = requests[r].deals
    BY <2>3 DEF Frame
  <2> HIDE DEF f
  <2>6. FrameConcluded(There, f)
    BY <2>3, <2>5 DEF FrameConcluded
  <2> QED
    BY <2>4, <2>6, ContinueConcluded
<1>10. ASSUME NEW r \in Request, ReleaseNext(r)
       PROVE  ConcludedInv'
  <2>1. PICK p \in requests[r].due :
           /\ payments' = [payments EXCEPT ![p] = "released"]
           /\ requests' = [requests EXCEPT ![r].due = @ \ {p}]
    BY <1>10 DEF ReleaseNext
  <2> DEFINE f == [requests[r] EXCEPT !.due = @ \ {p}]
  <2>2. UNCHANGED <<deals, milestones>> /\ requests' = [requests EXCEPT ![r] = f]
    BY <1>10, <2>1 DEF ReleaseNext
  <2>3. requests[r] \in Frame /\ FrameConcluded(There, requests[r])
    BY <1>a, Contents
  <2>4. /\ f.due \subseteq requests[r].due
        /\ f.milestones = requests[r].milestones /\ f.deals = requests[r].deals
    BY <2>3 DEF Frame
  <2> HIDE DEF f
  <2>5. There' = There
    BY <2>1, <2>2 DEF There, DealExists, TypeOK
  <2>6. FrameConcluded(There', f)
    BY <2>3, <2>4, <2>5 DEF FrameConcluded
  <2>7. \A m \in Milestone : MilestoneExists(m)' => MilestoneExists(m)
    BY <2>2 DEF MilestoneExists
  <2> QED
    BY <2>2, <2>5, <2>6, <2>7, TablesConcluded
<1>11. ASSUME NEW r \in Request, SettleCompare(r)
       PROVE  ConcludedInv'
  <2>1. PICK e \in requests[r].deals :
           Continue(r, IF Dirty(e, deals[e.id]) = {} THEN Idle
                       ELSE [requests[r] EXCEPT !.step = "write",
                                                !.columns = Dirty(e, deals[e.id])])
    BY <1>11, Zenon DEF SettleCompare
  <2> DEFINE D == Dirty(e, deals[e.id])
             f == [requests[r] EXCEPT !.step = "write", !.columns = D]
  <2>2. requests[r] \in Frame /\ FrameConcluded(There, requests[r])
    BY <1>a, Contents
  <2>3. Continue(r, Idle) \/ Continue(r, f)
    BY <2>1
  <2>4. f.milestones = requests[r].milestones /\ f.deals = requests[r].deals
        /\ f.due = requests[r].due
    BY <2>2 DEF Frame
  <2> HIDE DEF f
  <2>5. FrameConcluded(There, f)
    BY <2>2, <2>4 DEF FrameConcluded
  <2> QED
    BY <2>3, <2>5, IdleConcluded, ContinueConcluded
<1>12. ASSUME NEW r \in Request, SettleUpdate(r)
       PROVE  ConcludedInv'
  <2>1. PICK e \in requests[r].deals :
           deals' = [deals EXCEPT ![e.id] = Flush(e, requests[r].columns, @)]
    BY <1>12 DEF SettleUpdate
  <2>2. There' = There
    BY <2>1, SettledDeal
  <2>3. requests' = [requests EXCEPT ![r] = Idle] /\ UNCHANGED <<milestones, payments, apart>>
    BY <1>12 DEF SettleUpdate
  <2>5. \A m \in Milestone : MilestoneExists(m)' => MilestoneExists(m)
    BY <2>3 DEF MilestoneExists
  <2>6. FrameConcluded(There', Idle)
    BY IdleConcluded
  <2> QED
    BY <2>2, <2>3, <2>5, <2>6, TablesConcluded
<1>13. ASSUME NEW p \in Payment, NEW s \in PaymentStatus, Ledger(p, s)
       PROVE  ConcludedInv'
  <2>1. UNCHANGED <<deals, milestones, requests>>
    BY <1>13 DEF Ledger
  <2>2. There' = There
    BY <1>13 DEF Ledger, There, DealExists, TypeOK
  <2>3. \A x \in Request : FrameConcluded(There', requests'[x])
    BY <1>a, <2>1, <2>2, ConcludedMore
  <2>4. \A m \in Milestone : MilestoneExists(m)' => DealOf[m] \in There'
    BY <2>1, <2>2, <1>b DEF MilestoneExists
  <2> QED
    BY <2>3, <2>4 DEF ConcludedInv
<1>14. ASSUME NEW r \in Request, Fail(r)
       PROVE  ConcludedInv'
  BY <1>14, IdleConcluded, ContinueConcluded DEF Fail
<1>15. CASE UNCHANGED vars
  BY <1>15 DEF ConcludedInv, vars, There, DealExists, MilestoneExists
<1> QED
  BY <1>1, <1>2, <1>3, <1>4, <1>5, <1>6, <1>7, <1>8, <1>9, <1>10, <1>11, <1>12,
     <1>13, <1>14, <1>15 DEF Next

\* A step that leaves the deals, the payments and the history alone leaves
\* the contract alone.
LEMMA RoomStutter ==
    ASSUME UNCHANGED <<deals, payments, completed, apart>>
    PROVE  UNCHANGED Room!contract
<1>1. UNCHANGED [d \in Deal |-> deals[d].status] /\ UNCHANGED {d \in Deal : deals[d].signed}
  OBVIOUS
<1> QED
  BY <1>1 DEF Room!contract

\* Inserting a deal concludes it.
LEMMA RoomConclude ==
    ASSUME TypeOK, NEW d \in Deal, ~ DealExists(d),
           deals' = [deals EXCEPT ![d].status = "negotiating"],
           UNCHANGED <<payments, completed, apart>>
    PROVE  Room!Next
<1> DEFINE shown == [x \in Deal |-> deals[x].status]
<1>1. /\ deals'[d].status = "negotiating" /\ deals'[d].signed = deals[d].signed
      /\ \A x \in Deal : x # d => deals'[x] = deals[x]
  BY InsertedThere
<1>2. [x \in Deal |-> deals'[x].status] = [shown EXCEPT ![d] = "negotiating"]
  <2>1. \A x \in Deal : deals'[x].status = IF x = d THEN "negotiating" ELSE deals[x].status
    BY <1>1
  <2> DEFINE after(x) == deals'[x].status
             before(x) == deals[x].status
  <2>2. \A x \in Deal : after(x) = IF x = d THEN "negotiating" ELSE before(x)
    BY <2>1
  <2> HIDE DEF after, before
  <2>3. [x \in Deal |-> after(x)] = [[x \in Deal |-> before(x)] EXCEPT ![d] = "negotiating"]
    BY <2>2
  <2> QED
    BY <2>3 DEF after, before
<1>3. UNCHANGED {x \in Deal : deals[x].signed}
  BY <1>1
<1>4. Room!Conclude(d)
  BY <1>2, <1>3 DEF Room!Conclude, Room!Concluded, DealExists
<1> QED
  BY <1>4 DEF Room!Next

\* A milestone of a deal that is there is completed.
LEMMA RoomComplete ==
    ASSUME TypeOK, NEW m \in Milestone, DealOf[m] \in There,
           completed' = completed \cup {m}, UNCHANGED <<deals, payments, apart>>
    PROVE  Room!Next
<1>1. DealOf[m] \in Deal /\ deals[DealOf[m]].status # "absent"
  BY DEF There, DealExists
<1>2. UNCHANGED [d \in Deal |-> deals[d].status] /\ UNCHANGED {d \in Deal : deals[d].signed}
  OBVIOUS
<1>3. Room!Complete(m)
  BY <1>1, <1>2 DEF Room!Complete, Room!Concluded
<1> QED
  BY <1>3 DEF Room!Next

\* What a deal may show by its milestones, it may show by the contract.
LEMMA RoomEarned ==
    ASSUME NEW deal \in DealEntity, Earned(completed, deal), deal.status # "absent"
    PROVE  deal.status \in Room!Earned(deal.id)
<1>1. CASE deal.status = "negotiating"
  BY <1>1 DEF Room!Earned
<1>2. CASE deal.status # "negotiating"
  <2>1. PICK m \in completed : /\ DealOf[m] = deal.id
                               /\ TypeOf[m] \in DOMAIN StatusAfter
                               /\ deal.status = StatusAfter[TypeOf[m]]
    BY <1>2 DEF Earned
  <2>2. m \in Room!DoneFor(deal.id)
    BY <2>1 DEF Room!DoneFor
  <2> QED
    BY <2>1, <2>2 DEF Room!Earned
<1> QED
  BY <1>1, <1>2

\* The end of a workflow shows a status, and a signature or none, that the
\* milestones of the deal stand for, however old the copy saved is.
LEMMA RoomShow ==
    ASSUME TypeOK, EarnedInv, EarnedInv', ConcludedInv, NEW r \in Request, SettleUpdate(r)
    PROVE  Room!Next
<1>1. PICK e \in requests[r].deals :
         deals' = [deals EXCEPT ![e.id] = Flush(e, requests[r].columns, @)]
  BY DEF SettleUpdate
<1> DEFINE d == e.id
           row == deals'[d]
           shown == [x \in Deal |-> deals[x].status]
           signed == {x \in Deal : deals[x].signed}
<1>2. UNCHANGED <<milestones, payments, completed, apart>>
  BY DEF SettleUpdate
<1>3. /\ e \in DealEntity /\ d \in Deal /\ d \in There
      /\ row.status \in {e.status, deals[d].status} \ {"absent"}
      /\ row.signed \in {e.signed, deals[d].signed}
      /\ \A x \in Deal : x # d => deals'[x] = deals[x]
  BY <1>1, SettledDeal
<1>4. row.id = d /\ row \in DealEntity
  BY <1>1, <1>3, Contents, FlushDeal DEF TypeOK
<1>5. Earned(completed, row)
  BY <1>2, <1>3 DEF EarnedInv
<1>6. row.status \in Room!Earned(d)
  BY <1>3, <1>4, <1>5, RoomEarned
<1>7. [x \in Deal |-> deals'[x].status] = [shown EXCEPT ![d] = row.status]
  BY <1>3
<1>8. \/ {x \in Deal : deals'[x].signed} = signed \ {d}
      \/ /\ \E m \in Room!DoneFor(d) : TypeOf[m] = "contract_signing"
         /\ {x \in Deal : deals'[x].signed} = signed \cup {d}
  <2>1. CASE ~ row.signed
    BY <1>3, <2>1
  <2>2. CASE row.signed
    <3>1. PICK m \in completed : DealOf[m] = d /\ TypeOf[m] = "contract_signing"
      BY <1>4, <1>5, <2>2 DEF Earned
    <3>2. m \in Room!DoneFor(d)
      BY <3>1 DEF Room!DoneFor
    <3>3. {x \in Deal : deals'[x].signed} = signed \cup {d}
      BY <1>3, <2>2
    <3> QED
      BY <3>1, <3>2, <3>3
  <2> QED
    BY <2>1, <2>2
<1>9. Room!Concluded(d)
  BY <1>3 DEF Room!Concluded, There, DealExists
<1> HIDE DEF row, d
<1>10. Room!Show(d)
  BY <1>2, <1>6, <1>7, <1>8, <1>9 DEF Room!Show
<1> QED
  BY <1>3, <1>10 DEF Room!Next

\* The handlers of module Payments move a payment once its deal is there.
LEMMA RoomMove ==
    ASSUME TypeOK, NEW p \in Payment, NEW s \in PaymentStatus, Ledger(p, s)
    PROVE  Room!Next
<1>1. /\ PaymentDeal[p] \in Deal /\ deals[PaymentDeal[p]].status # "absent"
      /\ payments' = [payments EXCEPT ![p] = s]
      /\ apart' = IF s = "released" THEN apart \cup {p} ELSE apart \ {p}
      /\ UNCHANGED <<deals, completed>>
  BY ConstantsAssumption DEF Ledger, DealExists
<1>2. UNCHANGED [d \in Deal |-> deals[d].status] /\ UNCHANGED {d \in Deal : deals[d].signed}
  BY <1>1
<1>3. Room!Move(p)
  BY <1>1, <1>2 DEF Room!Move, Room!Concluded, PaymentStatus
<1> QED
  BY <1>3 DEF Room!Next

\* A workflow releases only a payment that is due, whatever became of it since
\* it was found.
LEMMA RoomRelease ==
    ASSUME TypeOK, EarnedInv, NEW r \in Request, ReleaseNext(r)
    PROVE  Room!Next
<1>1. PICK p \in requests[r].due : payments' = [payments EXCEPT ![p] = "released"]
  BY DEF ReleaseNext
<1>2. UNCHANGED <<deals, completed, apart>>
  BY DEF ReleaseNext
<1>3. p \in Payment /\ DueTo(completed, p)
  BY Contents DEF EarnedInv, FrameEarned
<1>4. PICK m \in completed : /\ DealOf[m] = PaymentDeal[p]
                             /\ TypeOf[m] \in DOMAIN Released
                             /\ Released[TypeOf[m]] = ConditionOf[p]
  BY <1>3 DEF DueTo
<1>5. m \in Room!DoneFor(PaymentDeal[p])
  BY <1>4 DEF Room!DoneFor
<1>6. UNCHANGED [d \in Deal |-> deals[d].status] /\ UNCHANGED {d \in Deal : deals[d].signed}
  BY <1>2
<1>7. Room!Release(p)
  BY <1>1, <1>2, <1>4, <1>5, <1>6 DEF Room!Release
<1> QED
  BY <1>3, <1>7 DEF Room!Next

\* Every step is one of the contract's, or leaves it alone.
LEMMA RoomStep ==
    ASSUME TypeOK, EarnedInv, EarnedInv', ConcludedInv, [Next]_vars
    PROVE  [Room!Next]_(Room!contract)
<1>1. ASSUME NEW r \in Request, NEW f, Continue(r, f) \/ Begin(r, f)
      PROVE  UNCHANGED Room!contract
  BY <1>1, RoomStutter DEF Continue, Begin
<1>2. ASSUME NEW d \in Deal, AwardDeal(d)
      PROVE  Room!Next
  BY <1>2, RoomConclude DEF AwardDeal
<1>3. ASSUME NEW r \in Request, NEW d \in Deal, CreateDeal(r, d)
      PROVE  Room!Next
  BY <1>3, RoomConclude DEF CreateDeal
<1>4. ASSUME NEW r \in Request, NEW m \in Milestone, NEW s \in Posted, UpdateMilestone(r, m, s)
      PROVE  UNCHANGED Room!contract
  BY <1>1, <1>4 DEF UpdateMilestone
<1>5. ASSUME NEW r \in Request, NEW m \in Milestone, TriggerCompletion(r, m)
      PROVE  Room!Next
  <2>1. DealOf[m] \in There
    BY <1>5 DEF TriggerCompletion, ConcludedInv
  <2> QED
    BY <1>5, <2>1, RoomComplete DEF TriggerCompletion
<1>6. ASSUME NEW r \in Request, CreateMilestones(r)
      PROVE  UNCHANGED Room!contract
  BY <1>6, RoomStutter DEF CreateMilestones
<1>7. ASSUME NEW r \in Request, SaveCompare(r)
      PROVE  UNCHANGED Room!contract
  BY <1>1, <1>7 DEF SaveCompare
<1>8. ASSUME NEW r \in Request, SaveUpdate(r)
      PROVE  [Room!Next]_(Room!contract)
  <2>1. PICK e \in requests[r].milestones :
           completed' = completed \/ completed' = completed \cup {e.id}
    BY <1>8 DEF SaveUpdate
  <2>2. e.id \in Milestone /\ DealOf[e.id] \in There /\ UNCHANGED <<deals, payments, apart>>
    BY <1>8, Contents, Ids DEF ConcludedInv, FrameConcluded, SaveUpdate
  <2> QED
    BY <2>1, <2>2, RoomComplete, RoomStutter
<1>9. ASSUME NEW r \in Request, ReadMilestone(r)
      PROVE  UNCHANGED Room!contract
  BY <1>1, <1>9 DEF ReadMilestone
<1>10. ASSUME NEW r \in Request, QueryHeld(r) \/ SettleCompare(r) \/ Fail(r)
       PROVE  UNCHANGED Room!contract
  <2>1. QueryHeld(r) => \E f : Continue(r, f)
    BY Zenon DEF QueryHeld
  <2>2. SettleCompare(r) => \E f : Continue(r, f)
    BY Zenon DEF SettleCompare
  <2>3. Fail(r) => \E f : Continue(r, f)
    BY DEF Fail
  <2> QED
    BY <1>1, <1>10, <2>1, <2>2, <2>3
<1>11. CASE UNCHANGED vars
  BY <1>11, RoomStutter DEF vars
<1> QED
  BY <1>2, <1>3, <1>4, <1>5, <1>6, <1>7, <1>8, <1>9, <1>10, <1>11, RoomRelease,
     RoomShow, RoomMove DEF Next

\* The state in which there is no deal.
LEMMA RoomInit == Init => Room!Init
<1> SUFFICES ASSUME Init PROVE Room!Init
  OBVIOUS
<1>1. [d \in Deal |-> deals[d].status] = [d \in Deal |-> "absent"]
  BY DEF Init, NoDeal
<1>2. {d \in Deal : deals[d].signed} = {}
  BY DEF Init, NoDeal
<1> QED
  BY <1>1, <1>2 DEF Init, Room!Init

\* Whatever milestones are saved or reported by whom, and however workflows
\* overlap, work on old copies or stop half-way, the parties see the
\* specification of module Contract: for any deals, milestones and payments.
THEOREM DealsImplementsContract == Spec => ImplementsContract
<1> DEFINE IInv == TypeOK /\ EarnedInv /\ ConcludedInv
<1>1. Init => IInv
  BY InitTypeOK, InitEarnedInv, InitConcludedInv
<1>2. IInv /\ [Next]_vars => IInv'
  BY NextTypeOK, NextEarnedInv, NextConcludedInv
<1>3. IInv /\ IInv' /\ [Next]_vars => [Room!Next]_(Room!contract)
  BY RoomStep
<1> HIDE DEF IInv
<1> QED
  BY <1>1, <1>2, <1>3, RoomInit, PTL DEF Spec, ImplementsContract, Room!Spec

-----------------------------------------------------------------------------
(* What is held is not forgotten: the part of HeldIsReleased that is safety. *)

\* The workflow in slot r has found, or will find, that p is to be released.
Waiting(r, p) ==
    \/ /\ requests[r].step \in {"complete", "query"}
       /\ \E e \in requests[r].milestones : p \in HeldFor(DealOf[e.id], TypeOf[e.id])
    \/ requests[r].step = "release" /\ p \in requests[r].due

\* What becomes of it in a step: the workflow goes on with it, or it is
\* released, or, before the workflow has found it, others took it out of
\* escrow.
Onward(r, p) ==
    \/ Waiting(r, p)'
    \/ payments'[p] = "released"
    \/ requests[r].step # "release" /\ payments'[p] # "held"

\* A step of others takes a payment that the workflow has found from nobody's
\* hands.
LEMMA OthersWaiting ==
    ASSUME NEW r \in Request, NEW p \in Payment, Waiting(r, p), requests'[r] = requests[r]
    PROVE  Onward(r, p)
<1>1. CASE requests[r].step = "release" /\ p \in requests[r].due
  BY <1>1 DEF Waiting, Onward
<1>2. CASE ~ (requests[r].step = "release" /\ p \in requests[r].due)
  <2>1. PICK e \in requests[r].milestones : p \in HeldFor(DealOf[e.id], TypeOf[e.id])
    BY <1>2 DEF Waiting
  <2>2. requests[r].step \in {"complete", "query"}
    BY <1>2 DEF Waiting
  <2>3. payments'[p] = "held" => p \in HeldFor(DealOf[e.id], TypeOf[e.id])'
    BY <2>1 DEF HeldFor
  <2> QED
    BY <2>1, <2>2, <2>3 DEF Waiting, Onward
<1> QED
  BY <1>1, <1>2

\* A workflow in a slot that does not fail goes on with every payment that is
\* held for it: from its start, through the query, to the release of each.
LEMMA NextWaiting ==
    ASSUME TypeOK, EarnedInv, [Next]_vars, NEW r \in Request \ Unreliable,
           NEW p \in Payment, Waiting(r, p)
    PROVE  Onward(r, p)
<1>1. requests'[r] = requests[r] => Onward(r, p)
  BY OthersWaiting
<1>2. /\ requests[r].step \in {"complete", "query", "release"}
      /\ requests[r].step = "release" => requests[r].due # {}
      /\ requests[r] # Idle
  BY IdleFrame DEF Waiting
<1>3. \A s \in Request : \A f : Continue(s, f) /\ s # r => requests'[r] = requests[r]
  BY DEF Continue, TypeOK
<1>4. \A s \in Request : \A f : Begin(s, f) => requests'[r] = requests[r]
  BY <1>2, <1>3 DEF Begin
<1>5. ASSUME NEW s \in Request, NEW d \in Deal, CreateDeal(s, d)
      PROVE  requests'[r] = requests[r]
  BY <1>2, <1>5 DEF CreateDeal, TypeOK
<1>6. ASSUME NEW s \in Request, NEW m \in Milestone,
             TriggerCompletion(s, m) \/ \E x \in Posted : UpdateMilestone(s, m, x)
      PROVE  requests'[r] = requests[r]
  BY <1>2, <1>4, <1>6 DEF UpdateMilestone, TriggerCompletion, TypeOK
<1>7. ASSUME NEW s \in Request, CreateMilestones(s) \/ SettleUpdate(s)
      PROVE  requests'[r] = requests[r]
  BY <1>2, <1>7 DEF CreateMilestones, SettleUpdate, TypeOK
<1>8. ASSUME NEW s \in Request, SaveCompare(s)
      PROVE  requests'[r] = requests[r]
  <2>1. s # r /\ \E f : Continue(s, f)
    BY <1>2, <1>8, Zenon DEF SaveCompare
  <2> QED
    BY <1>3, <2>1
<1>9. ASSUME NEW s \in Request, SaveUpdate(s)
      PROVE  requests'[r] = requests[r]
  <2>1. PICK e \in requests[s].milestones : requests' = [requests EXCEPT ![s] = Saved(e)]
    BY <1>9 DEF SaveUpdate
  <2>2. s # r
    BY <1>2, <1>9 DEF SaveUpdate
  <2> QED
    BY <2>1, <2>2 DEF TypeOK
<1>10. ASSUME NEW s \in Request, SettleCompare(s)
       PROVE  requests'[r] = requests[r]
  <2>1. s # r /\ \E f : Continue(s, f)
    BY <1>2, <1>10, Zenon DEF SettleCompare
  <2> QED
    BY <1>3, <2>1
<1>11. ASSUME NEW s \in Request, ReadMilestone(s)
       PROVE  Onward(r, p)
  <2>1. PICK e \in requests[s].milestones :
           Continue(s, [requests[s] EXCEPT
              !.step = IF TypeOf[e.id] \in DOMAIN Released THEN "query" ELSE "release",
              !.deals = {Advanced(deals[DealOf[e.id]], TypeOf[e.id])}])
    BY <1>11, Zenon DEF ReadMilestone
  <2>2. CASE s # r
    BY <1>1, <1>3, <2>1, <2>2
  <2>3. CASE s = r
    <3> DEFINE D == {Advanced(deals[DealOf[e.id]], TypeOf[e.id])}
    <3>1. requests[r].step = "complete" /\ requests[r] \in Frame
      BY <1>11, <2>3, Contents DEF ReadMilestone
    <3>2. PICK x \in requests[r].milestones : p \in HeldFor(DealOf[x.id], TypeOf[x.id])
      BY <3>1 DEF Waiting
    <3>3. x = e
      BY <2>3 DEF EarnedInv, FrameEarned
    <3>4. TypeOf[e.id] \in DOMAIN Released /\ payments[p] = "held"
      BY <3>2, <3>3 DEF HeldFor
    <3>5. /\ requests' = [requests EXCEPT ![r] =
                             [requests[r] EXCEPT !.step = "query", !.deals = D]]
          /\ payments' = payments
      BY <2>1, <2>3, <3>4 DEF Continue
    <3> HIDE DEF D
    <3>6. requests'[r].step = "query" /\ requests'[r].milestones = requests[r].milestones
      BY <3>1, <3>5 DEF TypeOK, Frame
    <3>7. p \in HeldFor(DealOf[x.id], TypeOf[x.id])'
      BY <3>2, <3>5 DEF HeldFor
    <3> QED
      BY <3>6, <3>7 DEF Waiting, Onward
  <2> QED
    BY <2>2, <2>3
<1>12. ASSUME NEW s \in Request, QueryHeld(s)
       PROVE  Onward(r, p)
  <2>1. PICK e \in requests[s].milestones :
           Continue(s, [requests[s] EXCEPT
                           !.step = "release", !.due = HeldFor(DealOf[e.id], TypeOf[e.id])])
    BY <1>12, Zenon DEF QueryHeld
  <2>2. CASE s # r
    BY <1>1, <1>3, <2>1, <2>2
  <2>3. CASE s = r
    <3> DEFINE P == HeldFor(DealOf[e.id], TypeOf[e.id])
    <3>1. requests[r].step = "query" /\ requests[r] \in Frame
      BY <1>12, <2>3, Contents DEF QueryHeld
    <3>2. PICK x \in requests[r].milestones : p \in HeldFor(DealOf[x.id], TypeOf[x.id])
      BY <3>1 DEF Waiting
    <3>3. x = e
      BY <2>3 DEF EarnedInv, FrameEarned
    <3>4. p \in P
      BY <3>2, <3>3
    <3>5. requests' = [requests EXCEPT ![r] =
                          [requests[r] EXCEPT !.step = "release", !.due = P]]
      BY <2>1, <2>3 DEF Continue
    <3> HIDE DEF P
    <3>6. requests'[r].step = "release" /\ requests'[r].due = P
      BY <3>1, <3>5 DEF TypeOK, Frame
    <3> QED
      BY <3>4, <3>6 DEF Waiting, Onward
  <2> QED
    BY <2>2, <2>3
<1>13. ASSUME NEW s \in Request, ReleaseNext(s)
       PROVE  Onward(r, p)
  <2>1. PICK q \in requests[s].due :
           /\ payments' = [payments EXCEPT ![q] = "released"]
           /\ requests' = [requests EXCEPT ![s].due = @ \ {q}]
    BY <1>13 DEF ReleaseNext
  <2>2. CASE s # r
    BY <1>1, <2>1, <2>2 DEF TypeOK
  <2>3. CASE s = r /\ q = p
    BY <2>1, <2>3 DEF TypeOK, Onward
  <2>4. CASE s = r /\ q # p
    <3>1. requests[r].step = "release" /\ requests[r] \in Frame /\ p \in requests[r].due
      BY <1>13, <2>4, Contents DEF ReleaseNext, Waiting
    <3>2. requests'[r].step = "release" /\ requests'[r].due = requests[r].due \ {q}
      BY <2>1, <2>4, <3>1 DEF TypeOK, Frame
    <3> QED
      BY <2>4, <3>1, <3>2 DEF Waiting, Onward
  <2> QED
    BY <2>2, <2>3, <2>4
<1>14. ASSUME NEW s \in Request, Fail(s)
       PROVE  requests'[r] = requests[r]
  BY <1>3, <1>14 DEF Fail
<1>15. ASSUME NEW d \in Deal, AwardDeal(d)
       PROVE  requests'[r] = requests[r]
  BY <1>15 DEF AwardDeal
<1>16. ASSUME NEW q \in Payment, NEW s \in PaymentStatus, Ledger(q, s)
       PROVE  requests'[r] = requests[r]
  BY <1>16 DEF Ledger
<1>17. CASE UNCHANGED vars
  BY <1>1, <1>17 DEF vars
<1>18. CASE Next
  BY <1>1, <1>5, <1>6, <1>7, <1>8, <1>9, <1>10, <1>11, <1>12, <1>13, <1>14, <1>15,
     <1>16, <1>18 DEF Next
<1> QED
  BY <1>17, <1>18

\* No payment that a workflow has found is left behind by it, unless a call
\* fails: only its release takes it out of the workflow's hands, whatever
\* others do to the payment or to the milestone meanwhile; and one that it
\* would find is lost to it only if others take it out of escrow first.
THEOREM DealsHeldIsNotForgotten ==
    Spec => [][\A r \in Request \ Unreliable, p \in Payment :
                  Waiting(r, p) => Onward(r, p)]_vars
<1> DEFINE Kept == \A r \in Request \ Unreliable, p \in Payment :
                      Waiting(r, p) => Onward(r, p)
<1>1. TypeOK /\ EarnedInv /\ [Next]_vars => Kept
  BY NextWaiting
<1>2. TypeOK /\ EarnedInv /\ [Next]_vars => [Kept]_vars
  BY <1>1
<1>3. [][\A r \in Request \ Unreliable, p \in Payment :
            Waiting(r, p) => Onward(r, p)]_vars <=> [][Kept]_vars
  OBVIOUS
<1> HIDE DEF Kept
<1> QED
  BY <1>2, <1>3, DealsTypeOK, EarnedThroughout, PTL DEF Spec

=============================================================================
