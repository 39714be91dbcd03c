------------------------------ MODULE Payments ------------------------------
(***************************************************************************)
(* The escrow ledger: backend/src/payments (PaymentsService, the webhook   *)
(* and payments controllers, the Payment entity) and the workflow step     *)
(* that releases held payments (WorkflowService.releasePayment).           *)
(*                                                                         *)
(* Every handler reads a payment, changes its copy, possibly awaits the    *)
(* payment gateway, and saves the copy; any number of handlers interleave  *)
(* at their awaits.  A handler in progress is a frame in requests; saving  *)
(* follows module Repository (SELECT, then UPDATE of the dirty columns).   *)
(* The server may restart, which forgets every frame.  Flutterwave is the  *)
(* environment: it takes payments once the payer has a checkout link and   *)
(* delivers each event at least once, in any order, at any time.           *)
(***************************************************************************)
EXTENDS Naturals, Repository

CONSTANTS
    Payment,       \* ids of payment records
    Request,       \* slots for handlers in progress: bounds concurrency only
    Condition,     \* (deal, release condition) pairs
    ConditionOf,   \* the pair each payment record was created with
    Body,          \* the bodies that clients send with POST and PATCH
    EventKind,     \* the gateway events that may happen
    Unnamed,       \* those that may come without a transaction reference
    MaxRestarts    \* bound on server restarts

PaymentStatus ==
    {"pending", "held", "released", "refunded", "failed", "disputed"}

\* The columns of a payment that are modelled. Nobody but a body that names
\* it writes deletedAt; externalReference is made of the id of a payment.
Columns == {"id", "status", "reference", "deleted"}

\* A body has some of the columns. (One that names an id also names a status:
\* what a save without status does to an id that is new is left out.)
ASSUME ConstantsAssumption ==
    /\ ConditionOf \in [Payment -> Condition]
    /\ \A b \in Body :
          /\ DOMAIN b \subseteq Columns
          /\ "id" \in DOMAIN b => b.id \in Payment /\ "status" \in DOMAIN b
          /\ "status" \in DOMAIN b => b.status \in PaymentStatus
          /\ "reference" \in DOMAIN b => b.reference \in SUBSET Payment
          /\ "deleted" \in DOMAIN b => b.deleted \in BOOLEAN
    /\ EventKind \subseteq
          {"charge_ok", "charge_failed", "transfer_ok", "transfer_failed"}
    /\ Unnamed \subseteq EventKind
    /\ MaxRestarts \in Nat

VARIABLES
    payments,   \* the payments table; status "absent": no row yet
    requests,   \* the frame of the handler in each slot
    events,     \* what has happened at the gateway
    replies,    \* what the server has answered: links handed to payers,
                \* and events acknowledged to the gateway
    entered,    \* history: payments that were ever stored as held
    restarts

vars == <<payments, requests, events, replies, entered, restarts>>

\* A row, and the in-memory copy of one. reference: the payment of which
\* externalReference is made, {} if it is null.
Entity == [id        : Payment,
           status    : PaymentStatus \cup {"absent"},
           reference : SUBSET Payment,
           deleted   : BOOLEAN]

\* named: does the event come with the tx_ref of its transaction?
Event == [kind : EventKind, payment : Payment, named : BOOLEAN]

Reply == [kind : EventKind \cup {"link"}, payment : Payment, named : BOOLEAN]

\* copies: entities still to be saved (or waiting for the gateway); defined:
\* the columns that they have; write: the UPDATE about to be sent; reply:
\* what finishing answers.
Frame == [step    : {"idle", "initiate", "verify", "save", "answer"},
          copies  : SUBSET Entity,
          defined : SUBSET Columns,
          write   : SUBSET [entity : Entity, columns : SUBSET Columns],
          reply   : SUBSET Reply]

Idle == [step |-> "idle", copies |-> {}, defined |-> Columns,
         write |-> {}, reply |-> {}]

Awaiting(step, entity) == [Idle EXCEPT !.step = step, !.copies = {entity}]

Saving(entities, reply) ==
    [Idle EXCEPT !.step = "save", !.copies = entities, !.reply = reply]

Answering(reply) == [Idle EXCEPT !.step = "answer", !.reply = reply]

NoRow(p) == [id |-> p, status |-> "absent", reference |-> {}, deleted |-> FALSE]

Exists(p) == payments[p].status # "absent"

\* What findOne and find see.
Live(p) == Exists(p) /\ ~ payments[p].deleted

Link(p) == [kind |-> "link", payment |-> p, named |-> TRUE]

Happened(kind, p) == \E e \in events : e.kind = kind /\ e.payment = p

Init ==
    /\ payments = [p \in Payment |-> NoRow(p)]
    /\ requests = [r \in Request |-> Idle]
    /\ events = {}
    /\ replies = {}
    /\ entered = {}
    /\ restarts = 0

-----------------------------------------------------------------------------
(* Handlers: each begins by reading rows into a frame.                     *)

Begin(r, frame) ==
    /\ requests[r] = Idle
    /\ requests' = [requests EXCEPT ![r] = frame]
    /\ UNCHANGED <<payments, events, replies, entered, restarts>>

Store(p, row) ==
    /\ payments' = [payments EXCEPT ![p] = row]
    /\ entered' = IF row.status = "held" THEN entered \cup {p} ELSE entered

SetStatus(entity, s) == [entity EXCEPT !.status = s]

Referenced(entity) == [entity EXCEPT !.reference = {entity.id}]

\* Object.assign(entity, body), and repo.create(body) over the defaults.
Assign(entity, body) == Flush(body, DOMAIN body, entity)

\* The body of a POST that names none of these columns.
Plain == [status |-> "pending"]

\* PaymentsService.create: an INSERT of the body as it comes, under the id
\* that it names or a new one.
Create(p, body) ==
    /\ ~ Exists(p)
    /\ "id" \in DOMAIN body => body.id = p
    /\ Store(p, Assign([NoRow(p) EXCEPT !.status = "pending"], body))
    /\ UNCHANGED <<requests, events, replies, restarts>>

\* If the id is that of a payment, the same save is an UPDATE of the columns
\* that the body names.
CreateAgain(r, body) ==
    /\ "id" \in DOMAIN body
    /\ Exists(body.id)
    /\ Begin(r, [Saving({Assign(payments[body.id], body)}, {})
                    EXCEPT !.defined = DOMAIN body])

\* PATCH /payments/:id/status: the status sent, whatever the current one is,
\* is set (to undefined, if none is sent, which saves nothing), and then
\* everything that the body names, its status once more.
UpdateStatus(r, p, body) ==
    /\ Live(p)
    /\ Begin(r, [Saving({Assign(payments[p], body)}, {})
                    EXCEPT !.defined = Columns \ ({"status"} \ DOMAIN body)])

\* PaymentsService.releasePayment: refused unless the payment read is held.
ReleasePayment(r, p) ==
    /\ Live(p)
    /\ payments[p].status = "held"
    /\ Begin(r, Saving({SetStatus(payments[p], "released")}, {}))

\* WorkflowService.releasePayment: the held payments with this condition are
\* read by one query and saved one after the other.
ConditionMet(r, c) ==
    LET due == {p \in Payment : /\ Live(p)
                                /\ ConditionOf[p] = c
                                /\ payments[p].status = "held"}
    IN  /\ due # {}
        /\ Begin(r, Saving({SetStatus(payments[p], "released") : p \in due}, {}))

\* initiateFlutterwavePayment: reads, then awaits the gateway.
InitiatePayment(r, p) ==
    /\ Live(p)
    /\ Begin(r, Awaiting("initiate", payments[p]))

\* verifyFlutterwavePayment: returns at once unless a reference is stored.
VerifyPayment(r, p) ==
    /\ Live(p)
    /\ payments[p].reference # {}
    /\ Begin(r, Awaiting("verify", payments[p]))

\* Mutant of Apply: every charge event counts as a success.
ApplyAnyChargeHeld(kind, entity) ==
    IF kind \in {"charge_ok", "charge_failed"} THEN SetStatus(entity, "held")
    ELSE SetStatus(entity, "released")

\* Mutant of Apply: writes a status that the column's enum does not have.
ApplyUnknownStatus(kind, entity) == SetStatus(entity, "cancelled")

\* The effect of a gateway event on the entity read: handlePaymentSuccess,
\* handlePaymentFailure and handleTransferCompleted, none of which looks at
\* the status it replaces.
Apply(kind, entity) ==
    CASE kind = "charge_ok"       -> SetStatus(entity, "held")
      [] kind = "charge_failed"   -> SetStatus(entity, "failed")
      [] kind = "transfer_ok"     -> SetStatus(entity, "released")
      [] kind = "transfer_failed" -> SetStatus(entity, "failed")

\* Mutant of Found: the condition on the reference is lost in the query.
FoundAny(e) == {p \in Payment : Live(p)}

\* The payment that findOne returns is one of these: one with the reference
\* sent or, if none was sent, any (an undefined condition is none).
Found(e) == {p \in Payment :
                Live(p) /\ (e.named => payments[p].reference = {e.payment})}

\* Mutant of Webhook: answers the gateway first and saves afterwards.
WebhookAcknowledgeFirst(r, e) ==
    /\ e \in events
    /\ requests[r] = Idle
    /\ replies' = replies \cup {e}
    /\ \E p \in Found(e) :
          requests' = [requests EXCEPT
                          ![r] = Saving({Apply(e.kind, payments[p])}, {})]
    /\ UNCHANGED <<payments, events, entered, restarts>>

\* handleFlutterwaveWebhook: an event that matches no payment is answered 200
\* like any other, and dropped.
Webhook(r, e) ==
    /\ e \in events
    /\ \/ \E p \in Found(e) :
             Begin(r, Saving({Apply(e.kind, payments[p])}, {e}))
       \/ Found(e) = {} /\ Begin(r, Answering({e}))

-----------------------------------------------------------------------------
(* The rest of a handler.                                                  *)

Continue(r, frame) ==
    /\ requests' = [requests EXCEPT ![r] = frame]
    /\ UNCHANGED <<payments, events, replies, entered, restarts>>

\* Mutant of InitiateReply: hands out the link before the reference is saved.
InitiateReplyLinkFirst(r) ==
    /\ requests[r].step = "initiate"
    /\ \E e \in requests[r].copies :
          /\ requests' = [requests EXCEPT ![r] = Saving({Referenced(e)}, {})]
          /\ replies' = replies \cup {Link(e.id)}
    /\ UNCHANGED <<payments, events, entered, restarts>>

\* The gateway answers initiate: a link, or an error that ends the handler.
InitiateReply(r) ==
    /\ requests[r].step = "initiate"
    /\ \E e \in requests[r].copies :
          \/ Continue(r, Saving({Referenced(e)}, {Link(e.id)}))
          \/ Continue(r, Idle)

\* Mutant of VerifyReply: any answer of the gateway counts as paid.
VerifyReplyUnchecked(r) ==
    /\ requests[r].step = "verify"
    /\ \E e \in requests[r].copies :
          Continue(r, Saving({SetStatus(e, "held")}, {}))

\* The gateway answers verify, about the reference in the copy. It reports
\* success only for a charge it took, but may also fail, or report another
\* attempt with the same reference.
VerifyReply(r) ==
    /\ requests[r].step = "verify"
    /\ \E e \in requests[r].copies :
          \/ /\ \E p \in e.reference : Happened("charge_ok", p)
             /\ Continue(r, Saving({SetStatus(e, "held")}, {}))
          \/ Continue(r, Idle)

\* save() of one entity is complete; after the last one the handler ends, or
\* has something to answer.
Saved(r, e) ==
    LET rest == requests[r].copies \ {e}
    IN  requests' = [requests EXCEPT ![r] =
           IF rest # {} THEN Saving(rest, requests[r].reply)
           ELSE IF requests[r].reply # {} THEN Answering(requests[r].reply)
           ELSE Idle]

\* save(), first half: SELECT the row and compare. If nothing differs in the
\* columns modelled, others may (metadata, fees, dates): then the UPDATE is
\* sent nevertheless.
SaveCompare(r) ==
    /\ requests[r].step = "save"
    /\ requests[r].write = {}
    /\ \E e \in requests[r].copies :
          LET dirty == Dirty(e, payments[e.id]) \cap requests[r].defined
          IN  \/ Continue(r, [requests[r] EXCEPT
                                 !.write = {[entity |-> e, columns |-> dirty]}])
              \/ /\ dirty = {}
                 /\ Saved(r, e)
                 /\ UNCHANGED <<payments, events, replies, entered, restarts>>

\* save(), second half: UPDATE the columns found dirty.
SaveUpdate(r) ==
    \E w \in requests[r].write :
        /\ Store(w.entity.id, Flush(w.entity, w.columns, payments[w.entity.id]))
        /\ Saved(r, w.entity)
        /\ UNCHANGED <<events, replies, restarts>>

\* The answer, some time after the UPDATE was committed.
Answer(r) ==
    /\ requests[r].step = "answer"
    /\ replies' = replies \cup requests[r].reply
    /\ requests' = [requests EXCEPT ![r] = Idle]
    /\ UNCHANGED <<payments, events, entered, restarts>>

\* The server process restarts: handlers in progress are gone, rows stay.
Restart ==
    /\ restarts < MaxRestarts
    /\ restarts' = restarts + 1
    /\ requests' = [r \in Request |-> Idle]
    /\ UNCHANGED <<payments, events, replies, entered>>

\* The gateway: charges are attempted by a payer who was given the link; the
\* proceeds of a successful one are paid out by hand (no code requests it).
Gateway(kind, p) ==
    /\ IF kind \in {"charge_ok", "charge_failed"}
       THEN Link(p) \in replies
       ELSE Happened("charge_ok", p)
    /\ \E named \in BOOLEAN :
          /\ named \/ kind \in Unnamed
          /\ events' = events \cup {[kind |-> kind, payment |-> p, named |-> named]}
    /\ UNCHANGED <<payments, requests, replies, entered, restarts>>

Progress(r) ==
    \/ InitiateReply(r) \/ VerifyReply(r)
    \/ SaveCompare(r) \/ SaveUpdate(r) \/ Answer(r)

Next ==
    \/ \E p \in Payment, body \in Body \cup {Plain} : Create(p, body)
    \/ \E r \in Request, body \in Body : CreateAgain(r, body)
    \/ \E r \in Request, p \in Payment :
          \/ \E body \in Body : UpdateStatus(r, p, body)
          \/ ReleasePayment(r, p)
          \/ InitiatePayment(r, p)
          \/ VerifyPayment(r, p)
    \/ \E r \in Request, c \in Condition : ConditionMet(r, c)
    \/ \E r \in Request, e \in events : Webhook(r, e)
    \/ \E r \in Request : InitiateReply(r)
    \/ \E r \in Request : VerifyReply(r)
    \/ \E r \in Request : SaveCompare(r)
    \/ \E r \in Request : SaveUpdate(r)
    \/ \E r \in Request : Answer(r)
    \/ \E kind \in EventKind, p \in Payment : Gateway(kind, p)
    \/ Restart

Spec == Init /\ [][Next]_vars

\* A handler that was started goes on (the event loop runs every ready
\* continuation, the database answers, and so does the gateway), and the
\* gateway repeats an event until it is acknowledged. Users owe nothing.
Fairness ==
    /\ \A r \in Request : WF_vars(Progress(r))
    /\ \A e \in Event : SF_vars(e \notin replies /\ \E r \in Request : Webhook(r, e))

FairSpec == Spec /\ Fairness

-----------------------------------------------------------------------------
(* Properties.                                                             *)

\* Every variable has its type, and every row is stored under its own id.
TypeOK ==
    /\ payments \in [Payment -> Entity]
    /\ \A p \in Payment : payments[p].id = p
    /\ requests \in [Request -> Frame]
    /\ events \subseteq Event
    /\ replies \subseteq Reply
    /\ entered \subseteq Payment
    /\ restarts \in 0..MaxRestarts

Funded == {"held", "released"}

\* No body gives p the reference of another payment, or names the id of p.
OwnReference(p) ==
    \A b \in Body : /\ "id" \in DOMAIN b => b.id # p
                    /\ "reference" \in DOMAIN b => b.reference \subseteq {p}

\* No event without a reference makes a payment held, or released.
EventsNamed(status) ==
    Unnamed \cap (IF status = "held" THEN {"charge_ok"}
                                     ELSE {"charge_ok", "transfer_ok"}) = {}

\* No client writes held or released.
Quiet == \A b \in Body : "status" \in DOMAIN b => b.status \notin Funded

\* The gateway took money for p or, if p may be mistaken, for some payment.
Charged(p, status) ==
    \E q \in Payment :
        /\ Happened("charge_ok", q)
        /\ OwnReference(p) /\ EventsNamed(status) => q = p

\* Escrow never shows money that the gateway did not take: while clients do
\* not write held or released themselves, a payment is held or released only
\* after a successful charge, and only after its own unless a body moves its
\* id or gives it another reference, or an event that holds or releases comes
\* without one. The webhook, verify and both release handlers must preserve it
\* together, through every stale copy in flight.
EscrowBacked ==
    Quiet => \A p \in Payment :
        payments[p].status \in Funded => Charged(p, payments[p].status)

\* Clients write nothing of their own, and events name their transaction.
Undisturbed == Body = {} /\ Unnamed = {}

\* A payment the gateway has an event for carries the external reference by
\* which every webhook looks it up.
ReferenceRequired ==
    \A e \in events : payments[e.payment].reference = {e.payment}

\* A payment the gateway knows about stays findable: while nothing disturbs
\* it, the reference is in place before the payer can pay, and no save of an
\* older copy by initiate, verify, a webhook or a release erases it. (A PATCH
\* of the status may: updateStatus saves the copy it read as a whole.)
ReferenceKept == Undisturbed => ReferenceRequired

\* Released is final: no handler takes a payment that was released to the
\* payee back into another status.
ReleasedIsFinal ==
    [][\A p \in Payment : payments[p].status = "released"
                              => payments'[p].status = "released"]_payments

\* A successful charge gets into the ledger: lost, repeated and late webhooks,
\* a restart in the middle of the handler and competing saves do not keep its
\* payment from being stored as held. That is all: it may be undone, even
\* before the gateway is told, by a later event or by a copy read before: a
\* second initiate sets the payment back to pending, and no event comes again.
ChargeReachesLedger ==
    \A p \in Payment : Happened("charge_ok", p) ~> p \in entered

\* What the row of a payment shows of its money.
Shows(p) == CASE payments[p].status = "absent"      -> "none"
              [] payments[p].status \in Funded      -> payments[p].status
              [] OTHER                              -> "open"

Told(p) == \E m \in replies : m.kind = "charge_ok" /\ m.payment = p

Ledger == INSTANCE Escrow WITH
    ledger <- [p \in Payment |-> Shows(p)],
    taken  <- {p \in Payment : Happened("charge_ok", p)},
    told   <- {p \in Payment : Told(p)}

\* The handlers and their copies keep what module Escrow promises, while
\* nothing disturbs them (Undisturbed): in particular a webhook is answered
\* only after its payment was stored as held, whether by its own save or, if
\* that leaves the status alone, before it, although other saves of the same
\* row, and a restart, may come between the comparison, the UPDATE and the
\* answer.
ImplementsEscrow == Ledger!Spec

=============================================================================
