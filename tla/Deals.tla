------------------------------- MODULE Deals -------------------------------
(***************************************************************************)
(* The deal room: backend/src/deals (DealsService, its controller, the     *)
(* Deal and DealMilestone entities) and the workflow step that completing  *)
(* a milestone starts, WorkflowService.onMilestoneCompleted, which moves   *)
(* the deal's status and releases the payments held for that moment.       *)
(*                                                                         *)
(* PATCH /deals/:id/milestones/:milestoneId saves the milestone, answers,  *)
(* and then runs the workflow without awaiting it.  As in the other        *)
(* modules a handler in progress is a frame in requests, and saving is     *)
(* SELECT and compare, then UPDATE (module Repository).  Payments appear   *)
(* here only as far as deals see them: the handlers of module Payments may *)
(* give a payment any status at any time, this module's workflow releases. *)
(***************************************************************************)
EXTENDS Naturals, Repository

CONSTANTS
    Deal,          \* ids of deals
    Milestone,     \* ids of milestones
    DealOf,        \* the deal of each milestone
    TypeOf,        \* milestone_type of each milestone
    Payment,       \* ids of payments
    PaymentDeal,   \* the deal of each payment
    ConditionOf,   \* releaseCondition of each payment
    Posted,        \* milestone statuses the clients send
    Request,       \* slots for handlers in progress: bounds concurrency only
    Unreliable     \* the slots in which a database call may fail, or the
                   \* server stop, half-way

MilestoneType ==
    {"contract_signing", "advance_payment", "inspection_booking",
     "inspection_completion", "shipment_booking", "document_submission",
     "main_payment", "delivery_confirmation", "final_payment",
     "dispute_resolution"}

MilestoneStatus == {"pending", "in_progress", "completed", "failed", "overdue"}

DealStatus ==
    {"negotiating", "contract_pending", "contract_signed",
     "inspection_scheduled", "inspection_passed", "inspection_failed",
     "payment_pending", "payment_received", "shipment_booked", "in_transit",
     "customs_clearance", "delivered", "completed", "disputed", "cancelled"}

\* A payment's status, as deals see it.
PaymentStatus == {"open", "held", "released"}

ReleaseCondition == {"contract_signed", "inspection_passed", "delivery_confirmed"}

ASSUME ConstantsAssumption ==
    /\ DealOf \in [Milestone -> Deal]
    /\ TypeOf \in [Milestone -> MilestoneType]
    /\ PaymentDeal \in [Payment -> Deal]
    /\ ConditionOf \in [Payment -> ReleaseCondition]
    /\ Posted \subseteq MilestoneStatus
    /\ Unreliable \subseteq Request

VARIABLES
    deals,        \* the deals table
    milestones,   \* the deal_milestones table
    payments,     \* the status of each payment; "open" is any other than
                  \* held and released, or no row yet
    requests,     \* the frame of the handler in each slot
    completed,    \* history: milestones that were ever stored as completed,
                  \* or reported so to the workflow's own endpoint
    apart         \* history: payments that a handler of module Payments put
                  \* to released, and none has changed since

vars == <<deals, milestones, payments, requests, completed, apart>>

\* Rows, and in-memory copies of them; status "absent": no row yet. signed:
\* is contractSignedAt set?
DealEntity == [id     : Deal,
               status : DealStatus \cup {"absent"},
               signed : BOOLEAN]

MilestoneEntity == [id     : Milestone,
                    status : MilestoneStatus \cup {"absent"}]

Columns == {"id", "status", "signed"}

\* milestones, deals: the copies a handler works on; due: held payments it
\* has found and still has to release; columns: those of an UPDATE under way.
Frame == [step       : {"idle", "create", "save", "update", "complete",
                        "query", "release", "write"},
          milestones : SUBSET MilestoneEntity,
          deals      : SUBSET DealEntity,
          due        : SUBSET Payment,
          columns    : SUBSET Columns]

Idle == [step |-> "idle", milestones |-> {}, deals |-> {}, due |-> {}, columns |-> {}]

Saving(milestone) == [Idle EXCEPT !.step = "save", !.milestones = {milestone}]

\* The workflow run for a milestone, before it has read anything but its id.
Completing(milestone) ==
    [Idle EXCEPT !.step = "complete", !.milestones = {milestone}]

NoDeal(d) == [id |-> d, status |-> "absent", signed |-> FALSE]

NoMilestone(m) == [id |-> m, status |-> "absent"]

DealExists(d) == deals[d].status # "absent"

MilestoneExists(m) == milestones[m].status # "absent"

\* The milestones table with the (pending) milestones of a deal added.
WithMilestonesOf(d) ==
    [m \in Milestone |-> IF DealOf[m] = d
                         THEN [milestones[m] EXCEPT !.status = "pending"]
                         ELSE milestones[m]]

Init ==
    /\ deals = [d \in Deal |-> NoDeal(d)]
    /\ milestones = [m \in Milestone |-> NoMilestone(m)]
    /\ payments = [p \in Payment |-> "open"]
    /\ requests = [r \in Request |-> Idle]
    /\ completed = {}
    /\ apart = {}

Continue(r, frame) ==
    /\ requests' = [requests EXCEPT ![r] = frame]
    /\ UNCHANGED <<deals, milestones, payments, completed, apart>>

Begin(r, frame) == requests[r] = Idle /\ Continue(r, frame)

-----------------------------------------------------------------------------
(* Creating deals.                                                         *)

\* DealsService.create: the deal is inserted first, its milestones next.
CreateDeal(r, d) ==
    /\ ~ DealExists(d)
    /\ requests[r] = Idle
    /\ deals' = [deals EXCEPT ![d].status = "negotiating"]
    /\ requests' = [requests EXCEPT
                       ![r] = [Idle EXCEPT !.step = "create", !.deals = {deals'[d]}]]
    /\ UNCHANGED <<milestones, payments, completed, apart>>

CreateMilestones(r) ==
    /\ requests[r].step = "create"
    /\ \E d \in requests[r].deals : milestones' = WithMilestonesOf(d.id)
    /\ requests' = [requests EXCEPT ![r] = Idle]
    /\ UNCHANGED <<deals, payments, completed, apart>>

\* An accepted quotation inserts both in one transaction (module Rfqs).
AwardDeal(d) ==
    /\ ~ DealExists(d)
    /\ deals' = [deals EXCEPT ![d].status = "negotiating"]
    /\ milestones' = WithMilestonesOf(d)
    /\ UNCHANGED <<payments, requests, completed, apart>>

-----------------------------------------------------------------------------
(* updateMilestone.                                                        *)

\* Mutant of Posting: calls a completed milestone by a name that the column's
\* enum does not have.
PostingDone(milestone, s) ==
    [milestone EXCEPT !.status = IF s = "completed" THEN "done" ELSE s]

\* The copy of a milestone with the status sent (and, what nothing reads,
\* completedAt).
Posting(milestone, s) == [milestone EXCEPT !.status = s]

\* Mutant of UpdateMilestone: runs the workflow at once and saves nothing if
\* the milestone is reported completed.
UpdateMilestoneRunFirst(r, m, s) ==
    /\ MilestoneExists(m)
    /\ Begin(r, IF s = "completed" THEN Completing(milestones[m])
                ELSE Saving(Posting(milestones[m], s)))

\* Any status may replace any other.
UpdateMilestone(r, m, s) ==
    /\ MilestoneExists(m)
    /\ Begin(r, Saving(Posting(milestones[m], s)))

\* When the milestone is saved the controller answers and, if the status sent
\* was completed, starts the workflow.
Saved(entity) == IF entity.status = "completed" THEN Completing(entity) ELSE Idle

SaveCompare(r) ==
    /\ requests[r].step = "save"
    /\ \E e \in requests[r].milestones :
          LET dirty == Dirty(e, milestones[e.id])
          IN  Continue(r, IF dirty = {} THEN Saved(e)
                          ELSE [requests[r] EXCEPT !.step = "update",
                                                   !.columns = dirty])

SaveUpdate(r) ==
    /\ requests[r].step = "update"
    /\ \E e \in requests[r].milestones :
          LET row == Flush(e, requests[r].columns, milestones[e.id])
          IN  /\ milestones' = [milestones EXCEPT ![e.id] = row]
              /\ completed' = IF row.status = "completed"
                              THEN completed \cup {e.id} ELSE completed
              /\ requests' = [requests EXCEPT ![r] = Saved(e)]
    /\ UNCHANGED <<deals, payments, apart>>

-----------------------------------------------------------------------------
(* onMilestoneCompleted.                                                   *)

\* POST /workflows/milestone/:id/complete, whatever the milestone's status.
TriggerCompletion(r, m) ==
    /\ MilestoneExists(m)
    /\ requests[r] = Idle
    /\ requests' = [requests EXCEPT ![r] = Completing(milestones[m])]
    /\ completed' = completed \cup {m}
    /\ UNCHANGED <<deals, milestones, payments, apart>>

\* The deal's status after a milestone of some type; other types leave it.
StatusAfter ==
    [contract_signing      |-> "contract_signed",
     inspection_completion |-> "inspection_passed",
     shipment_booking      |-> "shipment_booked",
     delivery_confirmation |-> "delivered",
     final_payment         |-> "completed"]

\* The payments released by a milestone of some type.
Released ==
    [contract_signing      |-> "contract_signed",
     inspection_completion |-> "inspection_passed",
     delivery_confirmation |-> "delivery_confirmed"]

\* Mutant of Advanced: the contract date is set whatever the milestone.
AdvancedSigned(deal, type) ==
    [deal EXCEPT !.status = IF type \in DOMAIN StatusAfter THEN StatusAfter[type] ELSE @,
                 !.signed = TRUE]

Advanced(deal, type) ==
    [deal EXCEPT !.status = IF type \in DOMAIN StatusAfter THEN StatusAfter[type] ELSE @,
                 !.signed = @ \/ type = "contract_signing"]

\* Mutant of HeldFor: the condition is forgotten in the query.
HeldForAny(d, type) ==
    {p \in Payment : /\ payments[p] = "held"
                     /\ PaymentDeal[p] = d
                     /\ type \in DOMAIN Released}

\* The held payments of a deal that a milestone of some type releases.
HeldFor(d, type) ==
    {p \in Payment : /\ payments[p] = "held"
                     /\ PaymentDeal[p] = d
                     /\ type \in DOMAIN Released
                     /\ ConditionOf[p] = Released[type]}

\* The milestone is read with its deal, whose copy moves on in memory.
ReadMilestone(r) ==
    /\ requests[r].step = "complete"
    /\ \E e \in requests[r].milestones :
          LET type == TypeOf[e.id]
          IN  Continue(r, [requests[r] EXCEPT
                 !.step = IF type \in DOMAIN Released THEN "query" ELSE "release",
                 !.deals = {Advanced(deals[DealOf[e.id]], type)}])

\* releasePayment: one query for the payments, which are then saved in turn.
QueryHeld(r) ==
    /\ requests[r].step = "query"
    /\ \E e \in requests[r].milestones :
          Continue(r, [requests[r] EXCEPT
                          !.step = "release",
                          !.due = HeldFor(DealOf[e.id], TypeOf[e.id])])

\* Mutant of ReleaseNext: only the first of the payments found is released.
ReleaseNextOnly(r) ==
    /\ requests[r].step = "release"
    /\ \E p \in requests[r].due :
          /\ payments' = [payments EXCEPT ![p] = "released"]
          /\ requests' = [requests EXCEPT ![r].due = {}]
    /\ UNCHANGED <<deals, milestones, completed, apart>>

\* One payment after the other is saved as released, whatever it is by now.
\* (In one step: if save() finds no difference it is released already, and
\* otherwise the status is written, whatever comes in between.)
ReleaseNext(r) ==
    /\ requests[r].step = "release"
    /\ \E p \in requests[r].due :
          /\ payments' = [payments EXCEPT ![p] = "released"]
          /\ requests' = [requests EXCEPT ![r].due = @ \ {p}]
    /\ UNCHANGED <<deals, milestones, completed, apart>>

\* dealRepo.save: whatever the type was, the copy read before is saved.
SettleCompare(r) ==
    /\ requests[r].step = "release"
    /\ requests[r].due = {}
    /\ \E e \in requests[r].deals :
          LET dirty == Dirty(e, deals[e.id])
          IN  Continue(r, IF dirty = {} THEN Idle
                          ELSE [requests[r] EXCEPT !.step = "write",
                                                   !.columns = dirty])

SettleUpdate(r) ==
    /\ requests[r].step = "write"
    /\ \E e \in requests[r].deals :
          deals' = [deals EXCEPT ![e.id] = Flush(e, requests[r].columns, @)]
    /\ requests' = [requests EXCEPT ![r] = Idle]
    /\ UNCHANGED <<milestones, payments, completed, apart>>

-----------------------------------------------------------------------------

\* A handler of module Payments (PATCH of the status, release by hand,
\* verification, a gateway event) saves some other status, any one.
Ledger(p, status) ==
    /\ DealExists(PaymentDeal[p])
    /\ status # payments[p]
    /\ payments' = [payments EXCEPT ![p] = status]
    /\ apart' = IF status = "released" THEN apart \cup {p} ELSE apart \ {p}
    /\ UNCHANGED <<deals, milestones, requests, completed>>

\* A handler stops half-way: a call fails, or the server does.
Fail(r) ==
    /\ r \in Unreliable
    /\ requests[r] # Idle
    /\ Continue(r, Idle)

Next ==
    \/ \E d \in Deal : AwardDeal(d)
    \/ \E r \in Request, d \in Deal : CreateDeal(r, d)
    \/ \E r \in Request, m \in Milestone, s \in Posted : UpdateMilestone(r, m, s)
    \/ \E r \in Request, m \in Milestone : TriggerCompletion(r, m)
    \/ \E r \in Request : CreateMilestones(r)
    \/ \E r \in Request : SaveCompare(r)
    \/ \E r \in Request : SaveUpdate(r)
    \/ \E r \in Request : ReadMilestone(r)
    \/ \E r \in Request : QueryHeld(r)
    \/ \E r \in Request : ReleaseNext(r)
    \/ \E r \in Request : SettleCompare(r)
    \/ \E r \in Request : SettleUpdate(r)
    \/ \E p \in Payment, s \in PaymentStatus : Ledger(p, s)
    \/ \E r \in Request : Fail(r)

Spec == Init /\ [][Next]_vars

\* A handler that was started goes on: the event loop runs every continuation
\* that is ready and the database answers.
Fairness ==
    \A r \in Request :
        WF_vars(\/ CreateMilestones(r) \/ SaveCompare(r) \/ SaveUpdate(r)
                \/ ReadMilestone(r) \/ QueryHeld(r) \/ ReleaseNext(r)
                \/ SettleCompare(r) \/ SettleUpdate(r))

FairSpec == Spec /\ Fairness

-----------------------------------------------------------------------------
(* Properties.                                                             *)

\* Every variable has its type, and every row is stored under its own id.
TypeOK ==
    /\ deals \in [Deal -> DealEntity]
    /\ \A d \in Deal : deals[d].id = d
    /\ milestones \in [Milestone -> MilestoneEntity]
    /\ \A m \in Milestone : milestones[m].id = m
    /\ payments \in [Payment -> PaymentStatus]
    /\ requests \in [Request -> Frame]
    /\ completed \subseteq Milestone
    /\ apart \subseteq Payment

\* Has a milestone been completed that releases this payment?
Due(p) == \E m \in completed : /\ DealOf[m] = PaymentDeal[p]
                               /\ TypeOf[m] \in DOMAIN Released
                               /\ Released[TypeOf[m]] = ConditionOf[p]

\* The workflow releases a payment only after a milestone of its own deal, of
\* the type its release condition names, was stored as completed, or reported
\* so by hand, whatever handlers interleave, fail, or work on old copies. (A
\* payment that a handler of module Payments released is not held to this:
\* those do not look at milestones.)
ReleasedWhenDue ==
    \A p \in Payment : payments[p] = "released" => Due(p) \/ p \in apart

\* A deal shows a status, or a signed contract, only after one of its own
\* milestones that stands for it was stored, or reported, as completed.
StatusEarned ==
    \A d \in Deal :
        /\ deals[d].status \notin {"absent", "negotiating"} =>
              \E m \in completed : /\ DealOf[m] = d
                                   /\ TypeOf[m] \in DOMAIN StatusAfter
                                   /\ deals[d].status = StatusAfter[TypeOf[m]]
        /\ deals[d].signed =>
              \E m \in completed : DealOf[m] = d /\ TypeOf[m] = "contract_signing"

\* Every payment that is held when the workflow of its milestone begins leaves
\* escrow some time (others may put it back), and every one that the workflow
\* found is released, although nothing awaits or repeats that workflow, unless
\* it fails half-way itself.
HeldIsReleased ==
    \A p \in Payment, r \in Request \ Unreliable :
        /\ (/\ requests[r].step \in {"complete", "query"}
            /\ \E e \in requests[r].milestones : p \in HeldFor(DealOf[e.id], TypeOf[e.id]))
               ~> payments[p] # "held"
        /\ p \in requests[r].due ~> payments[p] = "released"

\* What the deals table, the payments and the milestones completed amount to
\* is the contract between the parties.
Room == INSTANCE Contract WITH
            shown <- [d \in Deal |-> deals[d].status],
            signed <- {d \in Deal : deals[d].signed},
            done <- completed,
            money <- payments,
            elsewhere <- apart

\* The handlers of the deal room implement the contract: whatever copies of
\* deals, milestones and payments they work on, whatever interleaves or fails,
\* each of their steps is one of the contract's or changes nothing of it.
ImplementsContract == Room!Spec

=============================================================================
