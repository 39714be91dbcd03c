--------------------------- MODULE PaymentsProofs ---------------------------
(***************************************************************************)
(* Proofs about module Payments, for any payments, request slots, release  *)
(* conditions, bodies that clients send, gateway events and number of      *)
(* restarts, and that it implements module Escrow.                         *)
(***************************************************************************)
EXTENDS Payments, TLAPS

-----------------------------------------------------------------------------
(* The inductive invariant.                                                *)

\* What the shape of a frame guarantees: the entity of a prepared UPDATE is
\* one that is being saved, and a link is the answer of a handler that saves
\* the linked payment only.
FrameOK(f) ==
    /\ \A w \in f.write : w.entity \in f.copies
    /\ \A m \in f.reply, e \in f.copies : m.kind = "link" => e.id = m.payment

FramesOK == \A r \in Request : FrameOK(requests[r])

\* No row, no copy in flight and no payout event is ahead of the gateway, and
\* no payment has another's reference, unless a body gives it one.
Backed(entity) ==
    /\ Quiet /\ entity.status \in Funded => Charged(entity.id, entity.status)
    /\ OwnReference(entity.id) => entity.reference \subseteq {entity.id}

FrameBacked(f) == \A e \in f.copies : Backed(e)

EventBacked(m) ==
    /\ m.named \/ m.kind \in Unnamed
    /\ m.kind # "charge_failed" => Happened("charge_ok", m.payment)

BackedInv ==
    /\ \A p \in Payment : Backed(payments[p])
    /\ \A r \in Request : FrameBacked(requests[r])
    /\ \A m \in events : EventBacked(m)

\* Nobody deletes. References are never unset: a copy that is about to be
\* saved carries one, an UPDATE that leaves the column alone found it set, and
\* so it is when the link is answered.
Referred(p) == payments[p].reference = {p}

Present(e) == e.status # "absent" /\ ~ e.deleted /\ Exists(e.id)

FrameReferenced(f) ==
    /\ f.defined = Columns
    /\ \A e \in f.copies : Present(e)
    /\ f.step \in {"verify", "save"} => \A e \in f.copies : e.reference = {e.id}
    /\ f.step # "save" => f.write = {}
    /\ f.step \notin {"save", "answer"} => f.reply = {}
    /\ f.step = "answer" => \A m \in f.reply : m.kind = "link" => Referred(m.payment)
    /\ \A w \in f.write : "reference" \notin w.columns => Referred(w.entity.id)

RowReferenced(p) ==
    /\ ~ payments[p].deleted
    /\ Referred(p) => Exists(p)
    /\ payments[p].status \notin {"absent", "pending"} => Referred(p)

ReferenceInv ==
    /\ \A p \in Payment : RowReferenced(p)
    /\ \A r \in Request : FrameReferenced(requests[r])
    /\ \A m \in replies : m.kind = "link" => Referred(m.payment)
    /\ \A m \in events : Referred(m.payment)

-----------------------------------------------------------------------------
(* Lemmas about the operators.                                             *)

\* Comparing and flushing yields an entity again, each of whose columns is
\* the saved entity's if it was dirty and the row's otherwise.
LEMMA FlushEntity ==
    ASSUME NEW e \in Entity, NEW row \in Entity, NEW D
    PROVE  /\ Flush(e, D, row) \in Entity
           /\ Flush(e, D, row).id = IF "id" \in D THEN e.id ELSE row.id
           /\ Flush(e, D, row).status = IF "status" \in D THEN e.status ELSE row.status
           /\ Flush(e, D, row).reference =
                 IF "reference" \in D THEN e.reference ELSE row.reference
           /\ Flush(e, D, row).deleted = IF "deleted" \in D THEN e.deleted ELSE row.deleted
<1> DEFINE merged == [id        |-> IF "id" \in D THEN e.id ELSE row.id,
                      status    |-> IF "status" \in D THEN e.status ELSE row.status,
                      reference |-> IF "reference" \in D THEN e.reference ELSE row.reference,
                      deleted   |-> IF "deleted" \in D THEN e.deleted ELSE row.deleted]
<1>1. DOMAIN row = {"id", "status", "reference", "deleted"}
  BY DEF Entity
<1>2. Flush(e, D, row) = merged
  BY <1>1 DEF Flush
<1>3. merged \in Entity
  BY DEF Entity
<1> QED
  BY <1>2, <1>3

\* Assigning a body yields an entity again: each column is the body's if it
\* names it.
LEMMA AssignEntity ==
    ASSUME NEW e \in Entity, NEW body \in Body \cup {Plain}
    PROVE  /\ Assign(e, body) \in Entity
           /\ Assign(e, body).id = IF "id" \in DOMAIN body THEN body.id ELSE e.id
           /\ Assign(e, body).status =
                 IF "status" \in DOMAIN body THEN body.status ELSE e.status
           /\ Assign(e, body).reference =
                 IF "reference" \in DOMAIN body THEN body.reference ELSE e.reference
           /\ "deleted" \notin DOMAIN body => Assign(e, body).deleted = e.deleted
<1> DEFINE D == DOMAIN body
           merged == [id        |-> IF "id" \in D THEN body.id ELSE e.id,
                      status    |-> IF "status" \in D THEN body.status ELSE e.status,
                      reference |-> IF "reference" \in D THEN body.reference ELSE e.reference,
                      deleted   |-> IF "deleted" \in D THEN body.deleted ELSE e.deleted]
<1>1. DOMAIN e = {"id", "status", "reference", "deleted"}
  BY DEF Entity
<1>2. Assign(e, body) = merged
  BY <1>1 DEF Assign, Flush
<1>3. /\ "id" \in D => body.id \in Payment
      /\ "status" \in D => body.status \in PaymentStatus
      /\ "reference" \in D => body.reference \in SUBSET Payment
      /\ "deleted" \in D => body.deleted \in BOOLEAN
  <2>1. CASE body \in Body
    BY <2>1, ConstantsAssumption
  <2>2. CASE body = Plain
    BY <2>2 DEF Plain, PaymentStatus
  <2> QED
    BY <2>1, <2>2
<1>4. merged \in Entity
  BY <1>3 DEF Entity
<1> QED
  BY <1>2, <1>4

\* The dirty columns are columns, and a column that is not dirty agrees.
LEMMA DirtyColumns ==
    ASSUME NEW e \in Entity, NEW row \in Entity
    PROVE  /\ Dirty(e, row) \subseteq Columns
           /\ "reference" \notin Dirty(e, row) => e.reference = row.reference
           /\ "status" \notin Dirty(e, row) => e.status = row.status
<1>1. DOMAIN row = {"id", "status", "reference", "deleted"}
  BY DEF Entity
<1> QED
  BY <1>1 DEF Dirty, Columns

\* Changing the status of an entity changes nothing else.
LEMMA SetStatusEntity ==
    ASSUME NEW e \in Entity, NEW s \in PaymentStatus
    PROVE  /\ SetStatus(e, s) \in Entity
           /\ SetStatus(e, s).id = e.id
           /\ SetStatus(e, s).status = s
           /\ SetStatus(e, s).reference = e.reference
           /\ SetStatus(e, s).deleted = e.deleted
  BY DEF SetStatus, Entity

\* Setting the reference changes nothing else.
LEMMA ReferencedEntity ==
    ASSUME NEW e \in Entity
    PROVE  /\ Referenced(e) \in Entity
           /\ Referenced(e).id = e.id
           /\ Referenced(e).status = e.status
           /\ Referenced(e).reference = {e.id}
           /\ Referenced(e).deleted = e.deleted
  BY DEF Referenced, Entity

\* A gateway event changes the status only, into one of the enum, and a
\* failed charge is never what makes a payment held or released.
LEMMA ApplyEntity ==
    ASSUME NEW e \in Entity, NEW m \in Event
    PROVE  /\ Apply(m.kind, e) \in Entity
           /\ Apply(m.kind, e).id = e.id
           /\ Apply(m.kind, e).reference = e.reference
           /\ Apply(m.kind, e).deleted = e.deleted
           /\ Apply(m.kind, e).status = "released" => m.kind = "transfer_ok"
           /\ Apply(m.kind, e).status = "held" => m.kind = "charge_ok"
           /\ Apply(m.kind, e).status # "absent"
           /\ m.kind = "charge_ok" => Apply(m.kind, e).status = "held"
<1>1. m.kind \in {"charge_ok", "charge_failed", "transfer_ok", "transfer_failed"}
  BY ConstantsAssumption DEF Event
<1>2. PICK s \in {"held", "failed", "released"} :
         /\ Apply(m.kind, e) = SetStatus(e, s)
         /\ m.kind = "charge_ok" <=> s = "held"
         /\ m.kind = "transfer_ok" <=> s = "released"
  BY <1>1 DEF Apply
<1>3. s \in PaymentStatus /\ s # "absent"
  BY DEF PaymentStatus
<1> QED
  BY <1>2, <1>3, SetStatusEntity

\* Frames built by the handlers are frames.
LEMMA FrameTypes ==
    ASSUME NEW S \in SUBSET Entity, NEW rep \in SUBSET Reply
    PROVE  /\ Idle \in Frame
           /\ Saving(S, rep) \in Frame
           /\ Answering(rep) \in Frame
           /\ \A e \in S, step \in {"initiate", "verify"} : Awaiting(step, e) \in Frame
  BY DEF Idle, Saving, Answering, Awaiting, Frame

\* What these frames hold.
LEMMA FrameFields ==
    ASSUME NEW S, NEW rep
    PROVE  LET f == Saving(S, rep)
               g == Answering(rep)
           IN  /\ /\ f.step = "save" /\ f.copies = S /\ f.defined = Columns
                  /\ f.write = {} /\ f.reply = rep
               /\ /\ g.step = "answer" /\ g.copies = {} /\ g.defined = Columns
                  /\ g.write = {} /\ g.reply = rep
  BY DEF Idle, Saving, Answering

LEMMA AwaitingFields ==
    ASSUME NEW e \in Entity, NEW step \in {"initiate", "verify"}
    PROVE  LET f == Awaiting(step, e)
           IN  /\ f \in Frame
               /\ f.step = step /\ f.copies = {e} /\ f.defined = Columns
               /\ f.write = {} /\ f.reply = {}
  BY DEF Idle, Awaiting, Frame

\* A handler whose copy comes from a body: saved without the columns that the
\* body leaves undefined.
LEMMA BodyFrame ==
    ASSUME NEW e \in Entity, NEW D \in SUBSET Columns
    PROVE  LET f == [Saving({e}, {}) EXCEPT !.defined = D]
           IN  /\ f \in Frame
               /\ f.step = "save" /\ f.copies = {e} /\ f.defined = D
               /\ f.write = {} /\ f.reply = {}
<1> DEFINE f == Saving({e}, {})
<1>1. /\ f \in Frame
      /\ f.step = "save" /\ f.copies = {e} /\ f.write = {} /\ f.reply = {}
  BY FrameTypes, FrameFields
<1> HIDE DEF f
<1>2. [f EXCEPT !.defined = D] \in Frame
  BY <1>1 DEF Frame
<1>3. LET g == [f EXCEPT !.defined = D]
      IN  /\ g.step = "save" /\ g.copies = {e} /\ g.defined = D
          /\ g.write = {} /\ g.reply = {}
  BY <1>1 DEF Frame
<1> QED
  BY <1>2, <1>3 DEF f

\* The payments that a condition releases, as they will be saved.
LEMMA ReleasedEntities ==
    ASSUME TypeOK, NEW c \in Condition, NEW r \in Request, ConditionMet(r, c)
    PROVE  \E S \in SUBSET Entity :
              /\ Begin(r, Saving(S, {}))
              /\ \A e \in S : \E p \in Payment :
                    /\ Live(p) /\ payments[p].status = "held"
                    /\ e = SetStatus(payments[p], "released")
<1> DEFINE due == {p \in Payment : /\ Live(p) /\ ConditionOf[p] = c
                                   /\ payments[p].status = "held"}
           S == {SetStatus(payments[p], "released") : p \in due}
<1>1. \A p \in due : SetStatus(payments[p], "released") \in Entity
  BY SetStatusEntity DEF TypeOK, PaymentStatus
<1>2. S \in SUBSET Entity
  BY <1>1
<1>3. Begin(r, Saving(S, {}))
  BY DEF ConditionMet
<1>4. \A e \in S : \E p \in Payment :
         /\ Live(p) /\ payments[p].status = "held"
         /\ e = SetStatus(payments[p], "released")
  OBVIOUS
<1> HIDE DEF S
<1> QED
  BY <1>2, <1>3, <1>4

-----------------------------------------------------------------------------
(* Type correctness.                                                       *)

\* The initial state has the right type.
LEMMA InitTypeOK == Init => TypeOK
<1>1. Idle \in Frame
  BY FrameTypes
<1> QED
  BY <1>1, ConstantsAssumption DEF Init, TypeOK, NoRow, Entity, PaymentStatus

\* Beginning a handler with a frame preserves the type.
LEMMA BeginTypeOK ==
    ASSUME TypeOK, NEW r \in Request, NEW f \in Frame,
           Begin(r, f) \/ Continue(r, f)
    PROVE  TypeOK'
  BY DEF TypeOK, Begin, Continue

\* The next frame of a handler that has saved an entity.
LEMMA SavedFrame ==
    ASSUME TypeOK, NEW r \in Request, NEW e \in requests[r].copies, Saved(r, e)
    PROVE  \E f \in Frame :
              /\ requests' = [requests EXCEPT ![r] = f]
              /\ \/ f = Idle /\ requests[r].reply = {}
                 \/ f = Answering(requests[r].reply)
                 \/ f = Saving(requests[r].copies \ {e}, requests[r].reply)
<1>1. requests[r] \in Frame
  BY DEF TypeOK
<1>2. /\ requests[r].copies \ {e} \in SUBSET Entity
      /\ requests[r].reply \in SUBSET Reply
  BY <1>1 DEF Frame
<1>3. /\ Idle \in Frame /\ Answering(requests[r].reply) \in Frame
      /\ Saving(requests[r].copies \ {e}, requests[r].reply) \in Frame
  BY <1>2, FrameTypes
<1> QED
  BY <1>3 DEF Saved

\* The row that an UPDATE writes.
LEMMA UpdatedRow ==
    ASSUME TypeOK, FramesOK, NEW r \in Request, NEW w \in requests[r].write,
           Store(w.entity.id, Flush(w.entity, w.columns, payments[w.entity.id]))
    PROVE  LET e == w.entity
               p == w.entity.id
           IN  /\ e \in requests[r].copies /\ e \in Entity
               /\ p \in Payment /\ payments[p] \in Entity
               /\ payments' \in [Payment -> Entity]
               /\ payments'[p].id = p
               /\ payments'[p].status =
                     IF "status" \in w.columns THEN e.status ELSE payments[p].status
               /\ payments'[p].reference =
                     IF "reference" \in w.columns THEN e.reference ELSE payments[p].reference
               /\ payments'[p].deleted =
                     IF "deleted" \in w.columns THEN e.deleted ELSE payments[p].deleted
               /\ \A q \in Payment : q # p => payments'[q] = payments[q]
               /\ entered' = IF payments'[p].status = "held"
                             THEN entered \cup {p} ELSE entered
<1> DEFINE e == w.entity
           p == w.entity.id
           row == Flush(e, w.columns, payments[p])
<1>1. requests[r] \in Frame /\ e \in requests[r].copies
  BY DEF TypeOK, FramesOK, FrameOK
<1>2. e \in Entity
  BY <1>1 DEF Frame
<1>3. p \in Payment
  BY <1>2 DEF Entity
<1>4. payments[p] \in Entity /\ payments[p].id = p
  BY <1>3 DEF TypeOK
<1>5. /\ row \in Entity /\ row.id = p
      /\ row.status = IF "status" \in w.columns THEN e.status ELSE payments[p].status
      /\ row.reference = IF "reference" \in w.columns THEN e.reference ELSE payments[p].reference
      /\ row.deleted = IF "deleted" \in w.columns THEN e.deleted ELSE payments[p].deleted
  BY <1>2, <1>4, FlushEntity
<1>6. payments' = [payments EXCEPT ![p] = row]
  BY DEF Store
<1>7. entered' = IF row.status = "held" THEN entered \cup {p} ELSE entered
  BY DEF Store
<1> HIDE DEF row
<1>8. payments'[p] = row /\ payments' \in [Payment -> Entity]
      /\ \A q \in Payment : q # p => payments'[q] = payments[q]
  BY <1>3, <1>5, <1>6 DEF TypeOK
<1> QED
  BY <1>1, <1>2, <1>3, <1>4, <1>5, <1>7, <1>8

\* The row that a POST inserts.
LEMMA CreatedRow ==
    ASSUME TypeOK, NEW p \in Payment, NEW body \in Body \cup {Plain}, Create(p, body)
    PROVE  /\ payments' \in [Payment -> Entity]
           /\ payments'[p].id = p
           /\ payments'[p].status =
                 IF "status" \in DOMAIN body THEN body.status ELSE "pending"
           /\ payments'[p].reference =
                 IF "reference" \in DOMAIN body THEN body.reference ELSE {}
           /\ "deleted" \notin DOMAIN body => payments'[p].deleted = FALSE
           /\ \A q \in Payment : q # p => payments'[q] = payments[q]
           /\ entered' = IF payments'[p].status = "held"
                         THEN entered \cup {p} ELSE entered
           /\ UNCHANGED <<requests, events, replies, restarts>>
<1> DEFINE new == [NoRow(p) EXCEPT !.status = "pending"]
           row == Assign(new, body)
<1>1. /\ new \in Entity /\ new.id = p /\ new.status = "pending"
      /\ new.reference = {} /\ new.deleted = FALSE
  BY DEF NoRow, Entity, PaymentStatus
<1>2. "id" \in DOMAIN body => body.id = p
  BY DEF Create
<1>3. payments' = [payments EXCEPT ![p] = row]
  BY DEF Create, Store
<1>4. entered' = IF row.status = "held" THEN entered \cup {p} ELSE entered
  BY DEF Create, Store
<1> HIDE DEF new
<1>5. /\ row \in Entity /\ row.id = p
      /\ row.status = IF "status" \in DOMAIN body THEN body.status ELSE "pending"
      /\ row.reference = IF "reference" \in DOMAIN body THEN body.reference ELSE {}
      /\ "deleted" \notin DOMAIN body => row.deleted = FALSE
  BY <1>1, <1>2, AssignEntity
<1> HIDE DEF row
<1>6. payments'[p] = row /\ payments' \in [Payment -> Entity]
      /\ \A q \in Payment : q # p => payments'[q] = payments[q]
  BY <1>3, <1>5 DEF TypeOK
<1> QED
  BY <1>4, <1>5, <1>6 DEF Create

\* Every step preserves the type, given the shape of the frames.
LEMMA NextTypeOK == TypeOK /\ FramesOK /\ [Next]_vars => TypeOK'
<1> SUFFICES ASSUME TypeOK, FramesOK, [Next]_vars
             PROVE  TypeOK'
  OBVIOUS
<1> USE ConstantsAssumption
<1>1. ASSUME NEW p \in Payment, NEW body \in Body \cup {Plain}, Create(p, body)
      PROVE  TypeOK'
  <2>1. /\ payments' \in [Payment -> Entity] /\ payments'[p].id = p
        /\ \A q \in Payment : q # p => payments'[q] = payments[q]
        /\ entered' \in {entered, entered \cup {p}}
        /\ UNCHANGED <<requests, events, replies, restarts>>
    BY <1>1, CreatedRow
  <2> QED
    BY <2>1 DEF TypeOK
<1>2. ASSUME NEW r \in Request, NEW body \in Body, CreateAgain(r, body)
      PROVE  TypeOK'
  <2> DEFINE e == Assign(payments[body.id], body)
  <2>1. body.id \in Payment /\ DOMAIN body \in SUBSET Columns
    BY <1>2 DEF CreateAgain
  <2>2. e \in Entity
    BY <2>1, AssignEntity DEF TypeOK
  <2>3. Begin(r, [Saving({e}, {}) EXCEPT !.defined = DOMAIN body])
    BY <1>2 DEF CreateAgain
  <2> HIDE DEF e
  <2> QED
    BY <2>1, <2>2, <2>3, BodyFrame, BeginTypeOK
<1>3. ASSUME NEW r \in Request, NEW p \in Payment, NEW body \in Body,
             UpdateStatus(r, p, body)
      PROVE  TypeOK'
  <2> DEFINE e == Assign(payments[p], body)
             D == Columns \ ({"status"} \ DOMAIN body)
  <2>1. e \in Entity
    BY AssignEntity DEF TypeOK
  <2>2. Begin(r, [Saving({e}, {}) EXCEPT !.defined = D]) /\ D \in SUBSET Columns
    BY <1>3 DEF UpdateStatus
  <2> HIDE DEF e, D
  <2> QED
    BY <2>1, <2>2, BodyFrame, BeginTypeOK
<1>4. ASSUME NEW r \in Request, NEW p \in Payment, ReleasePayment(r, p)
      PROVE  TypeOK'
  <2>1. SetStatus(payments[p], "released") \in Entity
    BY SetStatusEntity DEF TypeOK, PaymentStatus
  <2>2. Saving({SetStatus(payments[p], "released")}, {}) \in Frame
    BY <2>1, FrameTypes
  <2> QED
    BY <1>4, <2>2, BeginTypeOK DEF ReleasePayment
<1>5. ASSUME NEW r \in Request, NEW p \in Payment,
             InitiatePayment(r, p) \/ VerifyPayment(r, p)
      PROVE  TypeOK'
  <2>1. payments[p] \in Entity
    BY DEF TypeOK
  <2>2. \A step \in {"initiate", "verify"} : Awaiting(step, payments[p]) \in Frame
    BY <2>1, AwaitingFields
  <2> QED
    BY <1>5, <2>2, BeginTypeOK DEF InitiatePayment, VerifyPayment
<1>6. ASSUME NEW r \in Request, NEW c \in Condition, ConditionMet(r, c)
      PROVE  TypeOK'
  <2>1. PICK S \in SUBSET Entity : Begin(r, Saving(S, {}))
    BY <1>6, ReleasedEntities
  <2>2. Saving(S, {}) \in Frame
    BY FrameTypes
  <2> QED
    BY <2>1, <2>2, BeginTypeOK
<1>7. ASSUME NEW r \in Request, NEW m \in events, Webhook(r, m)
      PROVE  TypeOK'
  <2>1. m \in Event /\ {m} \in SUBSET Reply
    BY DEF TypeOK, Event, Reply
  <2>2. Answering({m}) \in Frame
    BY <2>1, FrameTypes
  <2>3. ASSUME NEW p \in Found(m)
        PROVE  Saving({Apply(m.kind, payments[p])}, {m}) \in Frame
    <3>1. p \in Payment /\ payments[p] \in Entity
      BY DEF Found, TypeOK
    <3>2. Apply(m.kind, payments[p]) \in Entity
      BY <2>1, <3>1, ApplyEntity
    <3> QED
      BY <2>1, <3>2, FrameTypes
  <2> QED
    BY <1>7, <2>2, <2>3, BeginTypeOK DEF Webhook
<1>8. ASSUME NEW r \in Request, InitiateReply(r)
      PROVE  TypeOK'
  <2>1. PICK e \in requests[r].copies :
           \/ Continue(r, Saving({Referenced(e)}, {Link(e.id)}))
           \/ Continue(r, Idle)
    BY <1>8 DEF InitiateReply
  <2>2. e \in Entity
    BY DEF TypeOK, Frame
  <2>3. Referenced(e) \in Entity
    BY <2>2, ReferencedEntity
  <2>4. Link(e.id) \in Reply
    BY <2>2 DEF Link, Reply, Entity
  <2>5. Saving({Referenced(e)}, {Link(e.id)}) \in Frame /\ Idle \in Frame
    BY <2>3, <2>4, FrameTypes
  <2> QED
    BY <2>1, <2>5, BeginTypeOK
<1>9. ASSUME NEW r \in Request, VerifyReply(r)
      PROVE  TypeOK'
  <2>1. PICK e \in requests[r].copies :
           \/ Continue(r, Saving({SetStatus(e, "held")}, {}))
           \/ Continue(r, Idle)
    BY <1>9 DEF VerifyReply
  <2>2. SetStatus(e, "held") \in Entity
    BY SetStatusEntity DEF TypeOK, Frame, PaymentStatus
  <2>3. Saving({SetStatus(e, "held")}, {}) \in Frame /\ Idle \in Frame
    BY <2>2, FrameTypes
  <2> QED
    BY <2>1, <2>3, BeginTypeOK
<1>10. ASSUME NEW r \in Request, SaveCompare(r)
       PROVE  TypeOK'
  <2> DEFINE D(e) == Dirty(e, payments[e.id]) \cap requests[r].defined
  <2>1. PICK e \in requests[r].copies :
           \/ Continue(r, [requests[r] EXCEPT
                              !.write = {[entity |-> e, columns |-> D(e)]}])
           \/ Saved(r, e) /\ UNCHANGED <<payments, events, replies, entered, restarts>>
    BY <1>10 DEF SaveCompare
  <2>2. requests[r] \in Frame /\ e \in Entity /\ payments[e.id] \in Entity
    BY DEF TypeOK, Frame, Entity
  <2>3. D(e) \subseteq Columns
    BY <2>2, DirtyColumns
  <2>4. [requests[r] EXCEPT !.write = {[entity |-> e, columns |-> D(e)]}] \in Frame
    BY <2>2, <2>3 DEF Frame
  <2>5. CASE Continue(r, [requests[r] EXCEPT
                             !.write = {[entity |-> e, columns |-> D(e)]}])
    BY <2>4, <2>5, BeginTypeOK
  <2>6. CASE Saved(r, e) /\ UNCHANGED <<payments, events, replies, entered, restarts>>
    <3>1. requests' \in [Request -> Frame]
      BY <2>6, SavedFrame DEF TypeOK
    <3> QED
      BY <2>6, <3>1 DEF TypeOK
  <2> QED
    BY <2>1, <2>5, <2>6
<1>11. ASSUME NEW r \in Request, SaveUpdate(r)
       PROVE  TypeOK'
  <2>1. PICK w \in requests[r].write :
           /\ Store(w.entity.id, Flush(w.entity, w.columns, payments[w.entity.id]))
           /\ Saved(r, w.entity)
           /\ UNCHANGED <<events, replies, restarts>>
    BY <1>11 DEF SaveUpdate
  <2>2. /\ w.entity \in requests[r].copies /\ w.entity.id \in Payment
        /\ payments' \in [Payment -> Entity]
        /\ payments'[w.entity.id].id = w.entity.id
        /\ \A q \in Payment : q # w.entity.id => payments'[q] = payments[q]
        /\ entered' \in {entered, entered \cup {w.entity.id}}
    BY <2>1, UpdatedRow
  <2>3. requests' \in [Request -> Frame]
    BY <2>1, <2>2, SavedFrame DEF TypeOK
  <2> QED
    BY <2>1, <2>2, <2>3 DEF TypeOK
<1>12. ASSUME NEW r \in Request, Answer(r)
       PROVE  TypeOK'
  <2>1. requests[r].reply \subseteq Reply /\ Idle \in Frame
    BY FrameTypes DEF TypeOK, Frame
  <2> QED
    BY <1>12, <2>1 DEF Answer, TypeOK
<1>13. ASSUME Restart
       PROVE  TypeOK'
  <2>1. Idle \in Frame
    BY FrameTypes
  <2> QED
    BY <1>13, <2>1 DEF Restart, TypeOK
<1>14. ASSUME NEW kind \in EventKind, NEW p \in Payment, Gateway(kind, p)
       PROVE  TypeOK'
  <2>1. PICK named \in BOOLEAN :
           events' = events \cup {[kind |-> kind, payment |-> p, named |-> named]}
    BY <1>14 DEF Gateway
  <2>2. [kind |-> kind, payment |-> p, named |-> named] \in Event
    BY DEF Event
  <2> QED
    BY <1>14, <2>1, <2>2 DEF Gateway, TypeOK
<1>15. CASE UNCHANGED vars
  BY <1>15 DEF vars, TypeOK
<1> QED
  BY <1>1, <1>2, <1>3, <1>4, <1>5, <1>6, <1>7, <1>8, <1>9, <1>10, <1>11, <1>12,
     <1>13, <1>14, <1>15
     DEF Next

-----------------------------------------------------------------------------
(* Escrow is backed.                                                       *)

\* A charge, once taken, stays taken.
LEMMA ChargedKept ==
    ASSUME events \subseteq events'
    PROVE  /\ \A q : Happened("charge_ok", q) => Happened("charge_ok", q)'
           /\ \A q, s : Charged(q, s) => Charged(q, s)'
<1>1. \A q : Happened("charge_ok", q) => Happened("charge_ok", q)'
  BY DEF Happened
<1> QED
  BY <1>1 DEF Charged, OwnReference, EventsNamed

\* So what was backed stays so.
LEMMA BackedKept ==
    ASSUME events \subseteq events'
    PROVE  /\ \A e : Backed(e) => Backed(e)'
           /\ \A m : EventBacked(m) => EventBacked(m)'
<1>1. /\ \A q : Happened("charge_ok", q) => Happened("charge_ok", q)'
      /\ \A q, s : Charged(q, s) => Charged(q, s)'
  BY ChargedKept
<1>2. ASSUME NEW e, Backed(e)
      PROVE  Backed(e)'
  BY <1>1, <1>2 DEF Backed, Quiet, OwnReference
<1>3. ASSUME NEW m, EventBacked(m)
      PROVE  EventBacked(m)'
  BY <1>1, <1>3 DEF EventBacked
<1> QED
  BY <1>2, <1>3

\* A handler that begins or goes on with a well-formed, backed frame.
LEMMA FrameStep ==
    ASSUME TypeOK, FramesOK, BackedInv, NEW r \in Request, NEW f \in Frame,
           Begin(r, f) \/ Continue(r, f), FrameOK(f), FrameBacked(f)
    PROVE  FramesOK' /\ BackedInv'
<1>1. \A q \in Request : requests'[q] = IF q = r THEN f ELSE requests[q]
  BY DEF Begin, Continue, TypeOK
<1>2. payments' = payments /\ events' = events
  BY DEF Begin, Continue
<1>3. FramesOK'
  BY <1>1 DEF FramesOK, FrameOK
<1>4. /\ \A e : Backed(e) => Backed(e)'
      /\ \A m : EventBacked(m) => EventBacked(m)'
  BY <1>2, BackedKept
<1>5. \A q \in Request : FrameBacked(requests[q])'
  BY <1>1, <1>4 DEF BackedInv, FrameBacked
<1>6. \A p \in Payment : Backed(payments[p])'
  BY <1>2, <1>4 DEF BackedInv
<1>7. \A m \in events' : EventBacked(m)'
  BY <1>2, <1>4 DEF BackedInv
<1> QED
  BY <1>3, <1>5, <1>6, <1>7 DEF BackedInv

\* A frame that saves one backed copy is well-formed and backed.
LEMMA OneCopy ==
    ASSUME NEW f \in Frame, NEW e \in Entity, Backed(e),
           f.copies = {e}, f.write = {},
           \A m \in f.reply : m.kind = "link" => e.id = m.payment
    PROVE  FrameOK(f) /\ FrameBacked(f)
  BY DEF FrameOK, FrameBacked

\* A saved entity leaves the frame; what is left of it stays well-formed.
LEMMA SavedStep ==
    ASSUME TypeOK, FramesOK, NEW r \in Request, NEW e \in requests[r].copies, Saved(r, e)
    PROVE  /\ FramesOK'
           /\ \A q \in Request : requests'[q].copies \subseteq requests[q].copies
<1>1. PICK f \in Frame :
         /\ requests' = [requests EXCEPT ![r] = f]
         /\ \/ f = Idle /\ requests[r].reply = {}
            \/ f = Answering(requests[r].reply)
            \/ f = Saving(requests[r].copies \ {e}, requests[r].reply)
  BY SavedFrame
<1>2. \A q \in Request : requests'[q] = IF q = r THEN f ELSE requests[q]
  BY <1>1 DEF TypeOK
<1>3. /\ f.copies \subseteq requests[r].copies
      /\ f.reply \subseteq requests[r].reply
      /\ f.write = {}
  <2>1. Idle.copies = {} /\ Idle.reply = {} /\ Idle.write = {}
    BY DEF Idle
  <2> QED
    BY <1>1, <2>1, FrameFields
<1> QED
  BY <1>2, <1>3 DEF FramesOK, FrameOK

\* A step that completes a save, and leaves backed rows, keeps the invariant.
LEMMA SavedBacked ==
    ASSUME TypeOK, FramesOK, BackedInv, NEW r \in Request,
           NEW e \in requests[r].copies, Saved(r, e), UNCHANGED events,
           \A p \in Payment : Backed(payments'[p])
    PROVE  FramesOK' /\ BackedInv'
<1>1. FramesOK' /\ \A q \in Request : requests'[q].copies \subseteq requests[q].copies
  BY SavedStep
<1>2. /\ \A d : Backed(d) => Backed(d)'
      /\ \A m : EventBacked(m) => EventBacked(m)'
  BY BackedKept
<1>3. \A p \in Payment : Backed(payments[p])'
  BY <1>2
<1>4. \A q \in Request : FrameBacked(requests[q])'
  BY <1>1, <1>2 DEF BackedInv, FrameBacked
<1>5. \A m \in events' : EventBacked(m)'
  BY <1>2 DEF BackedInv
<1> QED
  BY <1>1, <1>3, <1>4, <1>5 DEF BackedInv

\* Initially nothing is held, so nothing is ahead of the gateway.
LEMMA InitBackedInv == Init => FramesOK /\ BackedInv
<1> SUFFICES ASSUME Init
             PROVE  FramesOK /\ BackedInv
  OBVIOUS
<1>1. \A p \in Payment : payments[p].status = "absent" /\ payments[p].reference = {}
  BY DEF Init, NoRow
<1>2. \A r \in Request : /\ requests[r].copies = {} /\ requests[r].write = {}
                         /\ requests[r].reply = {}
  BY DEF Init, Idle
<1>3. events = {}
  BY DEF Init
<1> QED
  BY <1>1, <1>2, <1>3 DEF FramesOK, FrameOK, BackedInv, FrameBacked, Backed, Funded

\* A body makes a backed copy of a backed row: its status is not funded, and
\* if it names an id or another payment's reference, the copy may be mistaken.
LEMMA AssignBacked ==
    ASSUME NEW e \in Entity, Backed(e), NEW body \in Body
    PROVE  Backed(Assign(e, body))
<1> DEFINE c == Assign(e, body)
<1>1. /\ c.id = IF "id" \in DOMAIN body THEN body.id ELSE e.id
      /\ c.status = IF "status" \in DOMAIN body THEN body.status ELSE e.status
      /\ c.reference = IF "reference" \in DOMAIN body THEN body.reference ELSE e.reference
  BY AssignEntity
<1>2. Quiet => ("status" \in DOMAIN body => body.status \notin Funded)
  BY DEF Quiet
<1>3. "id" \in DOMAIN body => "status" \in DOMAIN body
  BY ConstantsAssumption
<1>4. OwnReference(c.id) =>
         /\ "id" \in DOMAIN body => body.id # c.id
         /\ "reference" \in DOMAIN body => body.reference \subseteq {c.id}
  BY DEF OwnReference
<1> HIDE DEF c
<1>5. Quiet /\ c.status \in Funded => Charged(c.id, c.status)
  BY <1>1, <1>2, <1>3 DEF Backed
<1>6. OwnReference(c.id) => c.reference \subseteq {c.id}
  BY <1>1, <1>4 DEF Backed
<1>7. Backed(c)
  BY <1>5, <1>6 DEF Backed
<1> QED
  BY <1>7 DEF c

\* What is held may be released.
LEMMA ChargedReleased ==
    ASSUME NEW p, NEW s \in Funded, Charged(p, "held")
    PROVE  Charged(p, s)
  BY DEF Charged, EventsNamed, Funded

\* Setting a status to a funded one needs a charge, or that it was held; to
\* another one nothing.
LEMMA SetStatusBacked ==
    ASSUME NEW e \in Entity, Backed(e), NEW s \in PaymentStatus,
           s \in Funded => Charged(e.id, s) \/ e.status = "held"
    PROVE  Backed(SetStatus(e, s))
<1> DEFINE c == SetStatus(e, s)
<1>1. c.id = e.id /\ c.status = s /\ c.reference = e.reference
  BY SetStatusEntity
<1> HIDE DEF c
<1>2. Quiet /\ c.status \in Funded => Charged(c.id, c.status)
  <2>1. e.status = "held" /\ Quiet => Charged(e.id, "held")
    BY DEF Backed, Funded
  <2> QED
    BY <1>1, <2>1, ChargedReleased
<1>3. Backed(c)
  BY <1>1, <1>2 DEF Backed
<1> QED
  BY <1>3 DEF c

\* No step lets a row, or a copy in flight, get ahead of the gateway.
LEMMA NextBackedInv ==
    ASSUME TypeOK, FramesOK, BackedInv, [Next]_vars
    PROVE  FramesOK' /\ BackedInv'
<1> USE ConstantsAssumption
<1>a. \A p \in Payment : /\ payments[p] \in Entity /\ payments[p].id = p
                         /\ Backed(payments[p])
  BY DEF TypeOK, BackedInv
<1>b. \A r \in Request : \A e \in requests[r].copies : e \in Entity /\ Backed(e)
  BY DEF TypeOK, Frame, BackedInv, FrameBacked
<1>c. Idle \in Frame /\ FrameOK(Idle) /\ FrameBacked(Idle)
  <2>1. Idle \in Frame
    BY FrameTypes
  <2> QED
    BY <2>1 DEF Idle, FrameOK, FrameBacked
<1>1. ASSUME NEW p \in Payment, NEW body \in Body \cup {Plain}, Create(p, body)
      PROVE  FramesOK' /\ BackedInv'
  <2>1. /\ payments'[p].id = p
        /\ payments'[p].status =
              IF "status" \in DOMAIN body THEN body.status ELSE "pending"
        /\ payments'[p].reference =
              IF "reference" \in DOMAIN body THEN body.reference ELSE {}
        /\ \A q \in Payment : q # p => payments'[q] = payments[q]
        /\ UNCHANGED <<requests, events, replies, restarts>>
    BY <1>1, CreatedRow
  <2>2. Quiet => payments'[p].status \notin Funded
    BY <2>1 DEF Quiet, Plain, Funded
  <2>3. OwnReference(p) => payments'[p].reference \subseteq {p}
    <3>1. CASE "reference" \in DOMAIN body
      BY <2>1, <3>1 DEF OwnReference, Plain
    <3>2. CASE "reference" \notin DOMAIN body
      BY <2>1, <3>2
    <3> QED
      BY <3>1, <3>2
  <2>4. \A q \in Payment : Backed(payments'[q])
    BY <1>a, <2>1, <2>2, <2>3 DEF Backed
  <2>5. /\ \A d : Backed(d) => Backed(d)'
        /\ \A m : EventBacked(m) => EventBacked(m)'
    BY <2>1, BackedKept
  <2>6. \A q \in Payment : Backed(payments[q])'
    BY <2>4, <2>5
  <2>7. \A r \in Request : FrameBacked(requests[r])'
    BY <2>1, <2>5 DEF BackedInv, FrameBacked
  <2>8. \A m \in events' : EventBacked(m)'
    BY <2>1, <2>5 DEF BackedInv
  <2> QED
    BY <2>1, <2>6, <2>7, <2>8 DEF FramesOK, BackedInv
<1>2. ASSUME NEW r \in Request, NEW body \in Body, CreateAgain(r, body)
      PROVE  FramesOK' /\ BackedInv'
  <2> DEFINE e == Assign(payments[body.id], body)
             f == [Saving({e}, {}) EXCEPT !.defined = DOMAIN body]
  <2>1. body.id \in Payment /\ DOMAIN body \in SUBSET Columns /\ Begin(r, f)
    BY <1>2 DEF CreateAgain
  <2>2. e \in Entity /\ Backed(e)
    BY <1>a, <2>1, AssignEntity, AssignBacked
  <2> HIDE DEF e
  <2>3. f \in Frame /\ f.copies = {e} /\ f.write = {} /\ f.reply = {}
    BY <2>1, <2>2, BodyFrame
  <2> HIDE DEF f
  <2> QED
    BY <2>1, <2>2, <2>3, OneCopy, FrameStep
<1>3. ASSUME NEW r \in Request, NEW p \in Payment, NEW body \in Body,
             UpdateStatus(r, p, body)
      PROVE  FramesOK' /\ BackedInv'
  <2> DEFINE e == Assign(payments[p], body)
             D == Columns \ ({"status"} \ DOMAIN body)
             f == [Saving({e}, {}) EXCEPT !.defined = D]
  <2>1. Begin(r, f) /\ D \in SUBSET Columns
    BY <1>3 DEF UpdateStatus
  <2>2. e \in Entity /\ Backed(e)
    BY <1>a, AssignEntity, AssignBacked
  <2> HIDE DEF e, D
  <2>3. f \in Frame /\ f.copies = {e} /\ f.write = {} /\ f.reply = {}
    BY <2>1, <2>2, BodyFrame
  <2> HIDE DEF f
  <2> QED
    BY <2>1, <2>2, <2>3, OneCopy, FrameStep
<1>4. ASSUME NEW r \in Request, NEW p \in Payment, ReleasePayment(r, p)
      PROVE  FramesOK' /\ BackedInv'
  <2> DEFINE e == SetStatus(payments[p], "released")
             f == Saving({e}, {})
  <2>1. Begin(r, f) /\ payments[p].status = "held"
    BY <1>4 DEF ReleasePayment
  <2>2. e \in Entity /\ Backed(e)
    BY <1>a, <2>1, SetStatusEntity, SetStatusBacked DEF PaymentStatus
  <2> HIDE DEF e
  <2>3. f \in Frame /\ f.copies = {e} /\ f.write = {} /\ f.reply = {}
    BY <2>2, FrameTypes, FrameFields
  <2> HIDE DEF f
  <2> QED
    BY <2>1, <2>2, <2>3, OneCopy, FrameStep
<1>5. ASSUME NEW r \in Request, NEW p \in Payment,
             InitiatePayment(r, p) \/ VerifyPayment(r, p)
      PROVE  FramesOK' /\ BackedInv'
  <2>1. PICK step \in {"initiate", "verify"} : Begin(r, Awaiting(step, payments[p]))
    BY <1>5 DEF InitiatePayment, VerifyPayment
  <2> DEFINE f == Awaiting(step, payments[p])
  <2>2. f \in Frame /\ f.copies = {payments[p]} /\ f.write = {} /\ f.reply = {}
    BY <1>a, AwaitingFields
  <2> HIDE DEF f
  <2>3. Begin(r, f)
    BY <2>1 DEF f
  <2> QED
    BY <1>a, <2>2, <2>3, OneCopy, FrameStep
<1>6. ASSUME NEW r \in Request, NEW c \in Condition, ConditionMet(r, c)
      PROVE  FramesOK' /\ BackedInv'
  <2>1. PICK S \in SUBSET Entity :
           /\ Begin(r, Saving(S, {}))
           /\ \A e \in S : \E p \in Payment :
                 /\ payments[p].status = "held"
                 /\ e = SetStatus(payments[p], "released")
    BY <1>6, ReleasedEntities
  <2>2. ASSUME NEW e \in S
        PROVE  Backed(e)
    <3>1. PICK p \in Payment : /\ payments[p].status = "held"
                               /\ e = SetStatus(payments[p], "released")
      BY <2>1
    <3> QED
      BY <1>a, <3>1, SetStatusBacked DEF PaymentStatus, Funded
  <2> DEFINE f == Saving(S, {})
  <2>3. f \in Frame /\ f.copies = S /\ f.write = {} /\ f.reply = {}
    BY FrameTypes, FrameFields
  <2>4. Begin(r, f)
    BY <2>1
  <2> HIDE DEF f
  <2>5. FrameOK(f) /\ FrameBacked(f)
    BY <2>2, <2>3 DEF FrameOK, FrameBacked
  <2> QED
    BY <2>3, <2>4, <2>5, FrameStep
<1>7. ASSUME NEW r \in Request, NEW m \in events, Webhook(r, m)
      PROVE  FramesOK' /\ BackedInv'
  <2>1. /\ m \in Event /\ m.kind # "link" /\ {m} \in SUBSET Reply
        /\ EventBacked(m) /\ m.payment \in Payment
    BY DEF TypeOK, Event, Reply, BackedInv
  <2>2. ASSUME NEW p \in Found(m), Begin(r, Saving({Apply(m.kind, payments[p])}, {m}))
        PROVE  FramesOK' /\ BackedInv'
    <3> DEFINE e == Apply(m.kind, payments[p])
               f == Saving({e}, {m})
    <3>1. p \in Payment /\ (m.named => payments[p].reference = {m.payment})
      BY DEF Found
    <3>2. /\ e \in Entity /\ e.id = p /\ e.reference = payments[p].reference
          /\ e.status = "held" => m.kind = "charge_ok"
          /\ e.status = "released" => m.kind = "transfer_ok"
      BY <1>a, <2>1, <3>1, ApplyEntity
    <3>3. e.status \in Funded => Charged(p, e.status)
      <4>1. ASSUME e.status \in Funded, OwnReference(p), EventsNamed(e.status)
            PROVE  m.payment = p
        <5>1. m.named
          BY <2>1, <3>2, <4>1 DEF EventBacked, EventsNamed, Event, Funded
        <5> QED
          BY <1>a, <3>1, <4>1, <5>1 DEF Backed
      <4> HIDE DEF e
      <4> QED
        BY <2>1, <3>2, <4>1 DEF EventBacked, Charged, Funded
    <3>4. Backed(e)
      <4>1. OwnReference(p) => payments[p].reference \subseteq {p}
        BY <1>a, <3>1 DEF Backed
      <4> HIDE DEF e
      <4> QED
        BY <3>2, <3>3, <4>1 DEF Backed
    <3>5. Begin(r, f)
      BY <2>2
    <3> HIDE DEF e
    <3>6. f \in Frame /\ f.copies = {e} /\ f.write = {} /\ f.reply = {m}
      BY <2>1, <3>2, FrameTypes, FrameFields
    <3> HIDE DEF f
    <3> QED
      BY <2>1, <3>2, <3>4, <3>5, <3>6, OneCopy, FrameStep
  <2>3. CASE Begin(r, Answering({m}))
    <3> DEFINE f == Answering({m})
    <3>1. f \in Frame /\ f.copies = {} /\ f.write = {}
      BY <2>1, FrameTypes, FrameFields
    <3>2. Begin(r, f)
      BY <2>3
    <3> HIDE DEF f
    <3>3. FrameOK(f) /\ FrameBacked(f)
      BY <3>1 DEF FrameOK, FrameBacked
    <3> QED
      BY <3>1, <3>2, <3>3, FrameStep
  <2> QED
    BY <1>7, <2>2, <2>3 DEF Webhook
<1>8. ASSUME NEW r \in Request, InitiateReply(r)
      PROVE  FramesOK' /\ BackedInv'
  <2>1. PICK e \in requests[r].copies :
           \/ Continue(r, Saving({Referenced(e)}, {Link(e.id)}))
           \/ Continue(r, Idle)
    BY <1>8 DEF InitiateReply
  <2>2. e \in Entity /\ Backed(e) /\ e.id \in Payment
    BY <1>b DEF Entity
  <2>3. CASE Continue(r, Saving({Referenced(e)}, {Link(e.id)}))
    <3> DEFINE d == Referenced(e)
               f == Saving({d}, {Link(e.id)})
    <3>1. d \in Entity /\ d.id = e.id /\ d.status = e.status /\ d.reference = {e.id}
      BY <2>2, ReferencedEntity
    <3>2. {Link(e.id)} \in SUBSET Reply /\ Link(e.id).payment = e.id
      BY <2>2 DEF Link, Reply
    <3>3. Continue(r, f)
      BY <2>3
    <3> HIDE DEF d
    <3>4. f \in Frame /\ f.copies = {d} /\ f.write = {} /\ f.reply = {Link(e.id)}
      BY <3>1, <3>2, FrameTypes, FrameFields
    <3>5. Backed(d)
      BY <2>2, <3>1 DEF Backed
    <3> HIDE DEF f
    <3> QED
      BY <3>1, <3>2, <3>3, <3>4, <3>5, OneCopy, FrameStep
  <2>4. CASE Continue(r, Idle)
    BY <1>c, <2>4, FrameStep
  <2> QED
    BY <2>1, <2>3, <2>4
<1>9. ASSUME NEW r \in Request, VerifyReply(r)
      PROVE  FramesOK' /\ BackedInv'
  <2>1. PICK e \in requests[r].copies :
           \/ /\ \E p \in e.reference : Happened("charge_ok", p)
              /\ Continue(r, Saving({SetStatus(e, "held")}, {}))
           \/ Continue(r, Idle)
    BY <1>9 DEF VerifyReply
  <2>2. e \in Entity /\ Backed(e) /\ e.reference \subseteq Payment
    BY <1>b DEF Entity
  <2>3. CASE /\ \E p \in e.reference : Happened("charge_ok", p)
             /\ Continue(r, Saving({SetStatus(e, "held")}, {}))
    <3> DEFINE d == SetStatus(e, "held")
               f == Saving({d}, {})
    <3>1. Charged(e.id, "held")
      BY <2>2, <2>3 DEF Charged, Backed
    <3>2. d \in Entity /\ Backed(d)
      BY <2>2, <3>1, SetStatusEntity, SetStatusBacked DEF PaymentStatus
    <3>3. Continue(r, f)
      BY <2>3
    <3> HIDE DEF d
    <3>4. f \in Frame /\ f.copies = {d} /\ f.write = {} /\ f.reply = {}
      BY <3>2, FrameTypes, FrameFields
    <3> HIDE DEF f
    <3> QED
      BY <3>2, <3>3, <3>4, OneCopy, FrameStep
  <2>4. CASE Continue(r, Idle)
    BY <1>c, <2>4, FrameStep
  <2> QED
    BY <2>1, <2>3, <2>4
<1>10. ASSUME NEW r \in Request, SaveCompare(r)
       PROVE  FramesOK' /\ BackedInv'
  <2> DEFINE D(e) == Dirty(e, payments[e.id]) \cap requests[r].defined
             f(e) == [requests[r] EXCEPT !.write = {[entity |-> e, columns |-> D(e)]}]
  <2>1. PICK e \in requests[r].copies :
           \/ Continue(r, f(e))
           \/ Saved(r, e) /\ UNCHANGED <<payments, events, replies, entered, restarts>>
    BY <1>10 DEF SaveCompare
  <2>2. requests[r] \in Frame /\ e \in Entity /\ payments[e.id] \in Entity
    BY DEF TypeOK, Frame, Entity
  <2>3. CASE Saved(r, e) /\ UNCHANGED <<payments, events, replies, entered, restarts>>
    BY <1>a, <2>3, SavedBacked
  <2>4. CASE Continue(r, f(e))
    <3>1. D(e) \subseteq Columns
      BY <2>2, DirtyColumns
    <3>2. /\ f(e) \in Frame /\ f(e).copies = requests[r].copies
          /\ f(e).reply = requests[r].reply
          /\ f(e).write = {[entity |-> e, columns |-> D(e)]}
      BY <2>2, <3>1 DEF Frame
    <3>3. FrameOK(f(e)) /\ FrameBacked(f(e))
      BY <3>2 DEF FramesOK, FrameOK, BackedInv, FrameBacked
    <3> QED
      BY <2>4, <3>2, <3>3, FrameStep
  <2> QED
    BY <2>1, <2>3, <2>4
<1>11. ASSUME NEW r \in Request, SaveUpdate(r)
       PROVE  FramesOK' /\ BackedInv'
  <2>1. PICK w \in requests[r].write :
           /\ Store(w.entity.id, Flush(w.entity, w.columns, payments[w.entity.id]))
           /\ Saved(r, w.entity)
           /\ UNCHANGED <<events, replies, restarts>>
    BY <1>11 DEF SaveUpdate
  <2> DEFINE e == w.entity
             p == w.entity.id
  <2>2. /\ e \in requests[r].copies /\ p \in Payment /\ payments'[p].id = p
        /\ payments'[p].status \in {e.status, payments[p].status}
        /\ payments'[p].reference \in {e.reference, payments[p].reference}
        /\ \A q \in Payment : q # p => payments'[q] = payments[q]
    BY <2>1, UpdatedRow
  <2>3. Backed(e) /\ Backed(payments[p]) /\ payments[p].id = p
    BY <1>a, <1>b, <2>2
  <2>4. Backed(payments'[p])
    BY <2>2, <2>3 DEF Backed
  <2>5. \A q \in Payment : Backed(payments'[q])
    BY <1>a, <2>2, <2>4
  <2> QED
    BY <2>1, <2>2, <2>5, SavedBacked
<1>12. ASSUME Restart \/ \E r \in Request : Answer(r)
       PROVE  FramesOK' /\ BackedInv'
  <2>1. \A r \in Request : requests'[r] = requests[r] \/ requests'[r] = Idle
    BY <1>12 DEF Restart, Answer, TypeOK
  <2>2. payments' = payments /\ events' = events
    BY <1>12 DEF Restart, Answer
  <2>3. FramesOK'
    BY <1>c, <2>1 DEF FramesOK, FrameOK
  <2>4. /\ \A d : Backed(d) => Backed(d)'
        /\ \A m : EventBacked(m) => EventBacked(m)'
    BY <2>2, BackedKept
  <2>5. \A r \in Request : FrameBacked(requests[r])'
    BY <1>c, <2>1, <2>4 DEF BackedInv, FrameBacked
  <2> QED
    BY <2>2, <2>3, <2>4, <2>5 DEF BackedInv
<1>13. ASSUME NEW kind \in EventKind, NEW p \in Payment, Gateway(kind, p)
       PROVE  FramesOK' /\ BackedInv'
  <2>1. PICK named \in BOOLEAN :
           /\ named \/ kind \in Unnamed
           /\ events' = events \cup {[kind |-> kind, payment |-> p, named |-> named]}
    BY <1>13 DEF Gateway
  <2>2. /\ \A d : Backed(d) => Backed(d)'
        /\ \A m : EventBacked(m) => EventBacked(m)'
        /\ \A q : Happened("charge_ok", q) => Happened("charge_ok", q)'
    BY <2>1, BackedKept, ChargedKept
  <2>3. kind # "charge_failed" => Happened("charge_ok", p)'
    <3>1. CASE kind = "charge_ok"
      <4> DEFINE m == [kind |-> kind, payment |-> p, named |-> named]
      <4>1. m \in events' /\ m.kind = "charge_ok" /\ m.payment = p
        BY <2>1, <3>1
      <4> QED
        BY <4>1 DEF Happened
    <3>2. CASE kind \notin {"charge_ok", "charge_failed"}
      <4>1. Happened("charge_ok", p)
        BY <1>13, <3>2 DEF Gateway
      <4> QED
        BY <2>2, <4>1
    <3> QED
      BY <3>1, <3>2
  <2>4. \A m \in events' : EventBacked(m)'
    BY <2>1, <2>2, <2>3 DEF BackedInv, EventBacked
  <2>5. payments' = payments /\ requests' = requests
    BY <1>13 DEF Gateway
  <2> QED
    BY <2>2, <2>4, <2>5 DEF FramesOK, BackedInv, FrameBacked
<1>14. CASE UNCHANGED vars
  <2>1. payments' = payments /\ requests' = requests /\ events' = events
    BY <1>14 DEF vars
  <2>2. /\ \A d : Backed(d) => Backed(d)'
        /\ \A m : EventBacked(m) => EventBacked(m)'
    BY <2>1, BackedKept
  <2> QED
    BY <2>1, <2>2 DEF FramesOK, BackedInv, FrameBacked
<1> QED
  BY <1>1, <1>2, <1>3, <1>4, <1>5, <1>6, <1>7, <1>8, <1>9, <1>10, <1>11, <1>12,
     <1>13, <1>14
     DEF Next

-----------------------------------------------------------------------------
(* References are kept.                                                    *)

\* A handler that begins or goes on with a frame that keeps references.
LEMMA ReferenceStep ==
    ASSUME TypeOK, ReferenceInv, NEW r \in Request, NEW f \in Frame,
           Begin(r, f) \/ Continue(r, f), FrameReferenced(f)
    PROVE  ReferenceInv'
<1>1. \A q \in Request : requests'[q] = IF q = r THEN f ELSE requests[q]
  BY DEF Begin, Continue, TypeOK
<1>2. payments' = payments /\ events' = events /\ replies' = replies
  BY DEF Begin, Continue
<1>3. \A q \in Request : FrameReferenced(requests[q])'
  BY <1>1, <1>2 DEF ReferenceInv, FrameReferenced, Referred, Present, Exists
<1> QED
  BY <1>2, <1>3 DEF ReferenceInv, Referred, RowReferenced, Exists

\* A frame that saves one referenced copy.
LEMMA OneReferenced ==
    ASSUME NEW f \in Frame, NEW e, e.reference = {e.id}, Present(e),
           f.step = "save", f.copies = {e}, f.defined = Columns, f.write = {}
    PROVE  FrameReferenced(f)
  BY DEF FrameReferenced

\* A save that takes no row and no reference away, and leaves the saved
\* payment with one, justifies the answer of the handler it completes.
LEMMA SavedReferences ==
    ASSUME TypeOK, FramesOK, ReferenceInv,
           NEW r \in Request, NEW e \in requests[r].copies,
           requests[r].step = "save", Saved(r, e), UNCHANGED <<events, replies>>,
           \A p \in Payment : Referred(p) => Referred(p)',
           \A p \in Payment : Exists(p) => Exists(p)',
           \A p \in Payment : RowReferenced(p)',
           Referred(e.id)'
    PROVE  ReferenceInv'
<1>1. PICK f \in Frame :
         /\ requests' = [requests EXCEPT ![r] = f]
         /\ \/ f = Idle /\ requests[r].reply = {}
            \/ f = Answering(requests[r].reply)
            \/ f = Saving(requests[r].copies \ {e}, requests[r].reply)
  BY SavedFrame
<1>2. \A q \in Request : requests'[q] = IF q = r THEN f ELSE requests[q]
  BY <1>1 DEF TypeOK
<1>3. FrameReferenced(requests[r]) /\ requests[r] \in Frame
  BY DEF ReferenceInv, TypeOK
<1>4. \A m \in requests[r].reply : m.kind = "link" => Referred(m.payment)'
  BY DEF FramesOK, FrameOK
<1>5. \A q \in Request : \A c \in requests[q].copies : c.id \in Payment
  BY DEF TypeOK, Frame, Entity
<1>6. FrameReferenced(f)'
  <2>1. CASE f = Idle
    BY <2>1 DEF Idle, FrameReferenced
  <2>2. CASE f = Answering(requests[r].reply)
    BY <1>4, <2>2, FrameFields DEF FrameReferenced
  <2>3. CASE f = Saving(requests[r].copies \ {e}, requests[r].reply)
    <3>1. /\ f.step = "save" /\ f.copies = requests[r].copies \ {e}
          /\ f.defined = Columns /\ f.write = {}
      BY <2>3, FrameFields
    <3>2. \A c \in f.copies : Present(c)' /\ c.reference = {c.id}
      BY <1>3, <1>5, <3>1 DEF FrameReferenced, Present
    <3> QED
      BY <3>1, <3>2 DEF FrameReferenced
  <2> QED
    BY <1>1, <2>1, <2>2, <2>3
<1>7. \A q \in Request : FrameReferenced(requests[q])'
  <2> SUFFICES ASSUME NEW q \in Request, q # r
               PROVE  FrameReferenced(requests[q])'
    BY <1>2, <1>6
  <2>1. requests'[q] = requests[q] /\ FrameReferenced(requests[q])
    BY <1>2 DEF ReferenceInv
  <2>2. /\ \A w \in requests[q].write : w.entity.id \in Payment
        /\ \A m \in requests[q].reply : m.payment \in Payment
    BY DEF TypeOK, Frame, Entity, Reply
  <2>3. \A c \in requests[q].copies : Present(c)'
    BY <1>5, <2>1 DEF FrameReferenced, Present
  <2> QED
    BY <2>1, <2>2, <2>3 DEF FrameReferenced
<1>8. \A m \in replies' : m.kind = "link" => Referred(m.payment)'
  BY DEF ReferenceInv, TypeOK, Reply
<1>9. \A m \in events' : Referred(m.payment)'
  BY DEF ReferenceInv, TypeOK, Event
<1> QED
  BY <1>7, <1>8, <1>9 DEF ReferenceInv

\* Initially the gateway knows of no payment.
LEMMA InitReferenceInv == Init => ReferenceInv
<1> SUFFICES ASSUME Init
             PROVE  ReferenceInv
  OBVIOUS
<1>1. \A p \in Payment : /\ payments[p].status = "absent" /\ ~ payments[p].deleted
                         /\ payments[p].reference = {}
  BY DEF Init, NoRow
<1>2. \A r \in Request : FrameReferenced(requests[r])
  BY DEF Init, Idle, FrameReferenced
<1>3. events = {} /\ replies = {}
  BY DEF Init
<1> QED
  BY <1>1, <1>2, <1>3 DEF ReferenceInv, RowReferenced, Referred

\* While nothing disturbs it, the gateway's event finds its payment.
LEMMA EventFound ==
    ASSUME Undisturbed, TypeOK, BackedInv, ReferenceInv, NEW m \in events
    PROVE  /\ m \in Event /\ {m} \in SUBSET Reply /\ m.payment \in Payment
           /\ Found(m) = {m.payment}
           /\ payments[m.payment].reference = {m.payment} /\ Live(m.payment)
<1>1. m \in Event /\ {m} \in SUBSET Reply /\ m.payment \in Payment /\ m.named
  BY DEF TypeOK, Event, Reply, BackedInv, EventBacked, Undisturbed
<1>2. payments[m.payment].reference = {m.payment} /\ Live(m.payment)
  BY <1>1 DEF ReferenceInv, RowReferenced, Referred, Live
<1>3. \A p \in Payment : payments[p].reference \subseteq {p}
  BY DEF TypeOK, BackedInv, Backed, OwnReference, Undisturbed
<1>4. Found(m) = {m.payment}
  BY <1>1, <1>2, <1>3 DEF Found
<1> QED
  BY <1>1, <1>2, <1>4

\* No step of an undisturbed server unsets a reference or hands out a link
\* before the reference is stored.
LEMMA NextReferenceInv ==
    ASSUME Undisturbed, TypeOK, FramesOK, BackedInv, ReferenceInv, [Next]_vars
    PROVE  ReferenceInv'
<1> USE ConstantsAssumption
<1>a. \A p \in Payment : /\ payments[p] \in Entity /\ payments[p].id = p
                         /\ payments[p].reference \subseteq {p}
                         /\ RowReferenced(p)
  BY DEF TypeOK, BackedInv, Backed, OwnReference, Undisturbed, ReferenceInv
<1>b. \A r \in Request : /\ requests[r] \in Frame /\ FrameReferenced(requests[r])
                         /\ \A e \in requests[r].copies : e \in Entity /\ e.id \in Payment
  BY DEF TypeOK, Frame, Entity, ReferenceInv
<1>c. Idle \in Frame /\ FrameReferenced(Idle)
  <2>1. Idle \in Frame
    BY FrameTypes
  <2> QED
    BY <2>1 DEF Idle, FrameReferenced
<1>d. ASSUME NEW p \in Payment, Live(p), NEW s \in PaymentStatus
      PROVE  LET e == SetStatus(payments[p], s)
             IN  e \in Entity /\ e.id = p /\ Present(e) /\ e.reference = payments[p].reference
  BY <1>a, <1>d, SetStatusEntity DEF Live, Present, PaymentStatus
<1>1. ASSUME NEW p \in Payment, Create(p, Plain)
      PROVE  ReferenceInv'
  <2>1. /\ payments'[p].status = "pending" /\ payments'[p].reference = {}
        /\ payments'[p].deleted = FALSE
        /\ \A q \in Payment : q # p => payments'[q] = payments[q]
        /\ UNCHANGED <<requests, events, replies, restarts>>
    <3>1. DOMAIN Plain = {"status"} /\ Plain.status = "pending"
      BY DEF Plain
    <3>2. Plain \in Body \cup {Plain}
      OBVIOUS
    <3> QED
      BY <1>1, <3>1, <3>2, CreatedRow
  <2>2. ~ Exists(p) /\ ~ Referred(p)
    BY <1>1, <1>a DEF Create, RowReferenced
  <2>3. \A q \in Payment : /\ Referred(q) => Referred(q)'
                           /\ Exists(q) => Exists(q)'
    BY <2>1, <2>2 DEF Referred, Exists
  <2>4. \A q \in Payment : RowReferenced(q)'
    <3>1. RowReferenced(p)'
      BY <2>1 DEF RowReferenced, Referred, Exists
    <3>2. \A q \in Payment : q # p => RowReferenced(q)'
      BY <1>a, <2>1 DEF RowReferenced, Referred, Exists
    <3> QED
      BY <3>1, <3>2
  <2>5. ASSUME NEW r \in Request
        PROVE  FrameReferenced(requests[r])'
    <3>1. /\ \A w \in requests[r].write : w.entity.id \in Payment
          /\ \A m \in requests[r].reply : m.payment \in Payment
      BY DEF TypeOK, Frame, Entity, Reply
    <3>2. \A c \in requests[r].copies : Present(c)'
      BY <1>b, <2>3 DEF FrameReferenced, Present
    <3> QED
      BY <1>b, <2>1, <2>3, <3>1, <3>2 DEF FrameReferenced
  <2>6. /\ \A m \in replies' : m.kind = "link" => Referred(m.payment)'
        /\ \A e \in events' : Referred(e.payment)'
    BY <2>1, <2>3 DEF ReferenceInv, TypeOK, Reply, Event
  <2> QED
    BY <2>4, <2>5, <2>6 DEF ReferenceInv
<1>2. ASSUME NEW r \in Request, NEW p \in Payment, ReleasePayment(r, p)
      PROVE  ReferenceInv'
  <2> DEFINE e == SetStatus(payments[p], "released")
             f == Saving({e}, {})
  <2>1. e \in Entity /\ e.reference = {e.id} /\ Present(e)
    BY <1>2, <1>a, <1>d DEF ReleasePayment, RowReferenced, Referred, PaymentStatus
  <2>2. Begin(r, f)
    BY <1>2 DEF ReleasePayment
  <2> HIDE DEF e
  <2>3. /\ f \in Frame /\ f.step = "save" /\ f.copies = {e}
        /\ f.defined = Columns /\ f.write = {}
    BY <2>1, FrameTypes, FrameFields
  <2> HIDE DEF f
  <2> QED
    BY <2>1, <2>2, <2>3, OneReferenced, ReferenceStep
<1>3. ASSUME NEW r \in Request, NEW p \in Payment,
             InitiatePayment(r, p) \/ VerifyPayment(r, p)
      PROVE  ReferenceInv'
  <2>1. PICK step \in {"initiate", "verify"} :
           /\ Begin(r, Awaiting(step, payments[p]))
           /\ step = "verify" => payments[p].reference # {}
    BY <1>3 DEF InitiatePayment, VerifyPayment
  <2>2. Live(p)
    BY <1>3 DEF InitiatePayment, VerifyPayment
  <2> DEFINE f == Awaiting(step, payments[p])
  <2>3. /\ f \in Frame /\ f.step = step /\ f.copies = {payments[p]}
        /\ f.defined = Columns /\ f.write = {} /\ f.reply = {}
    BY <1>a, AwaitingFields
  <2>4. Begin(r, f)
    BY <2>1
  <2> HIDE DEF f
  <2>5. Present(payments[p])
    BY <1>a, <2>2 DEF Present, Live, Exists
  <2>6. step = "verify" => payments[p].reference = {p}
    BY <1>a, <2>1
  <2>7. FrameReferenced(f)
    BY <1>a, <2>3, <2>5, <2>6 DEF FrameReferenced
  <2> QED
    BY <2>3, <2>4, <2>7, ReferenceStep
<1>4. ASSUME NEW r \in Request, NEW c \in Condition, ConditionMet(r, c)
      PROVE  ReferenceInv'
  <2>1. PICK S \in SUBSET Entity :
           /\ Begin(r, Saving(S, {}))
           /\ \A e \in S : \E p \in Payment :
                 /\ Live(p) /\ payments[p].status = "held"
                 /\ e = SetStatus(payments[p], "released")
    BY <1>4, ReleasedEntities
  <2>2. ASSUME NEW e \in S
        PROVE  e.reference = {e.id} /\ Present(e)
    <3>1. PICK p \in Payment : /\ Live(p) /\ payments[p].status = "held"
                               /\ e = SetStatus(payments[p], "released")
      BY <2>1
    <3>2. payments[p].reference = {p}
      BY <1>a, <3>1 DEF RowReferenced, Referred
    <3> QED
      BY <1>d, <3>1, <3>2 DEF PaymentStatus
  <2> DEFINE f == Saving(S, {})
  <2>3. /\ f \in Frame /\ f.step = "save" /\ f.copies = S
        /\ f.defined = Columns /\ f.write = {}
    BY FrameTypes, FrameFields
  <2>4. Begin(r, f)
    BY <2>1
  <2> HIDE DEF f
  <2>5. FrameReferenced(f)
    BY <2>2, <2>3 DEF FrameReferenced
  <2> QED
    BY <2>3, <2>4, <2>5, ReferenceStep
<1>5. ASSUME NEW r \in Request, NEW m \in events, Webhook(r, m)
      PROVE  ReferenceInv'
  <2>1. PICK p \in Found(m) : Begin(r, Saving({Apply(m.kind, payments[p])}, {m}))
    BY <1>5, EventFound DEF Webhook
  <2>2. m \in Event /\ {m} \in SUBSET Reply /\ p = m.payment /\ p \in Payment
        /\ payments[p].reference = {p} /\ Live(p)
    BY EventFound
  <2> DEFINE e == Apply(m.kind, payments[p])
             f == Saving({e}, {m})
  <2>3. e \in Entity /\ e.reference = {e.id} /\ Present(e)
    BY <1>a, <2>2, ApplyEntity DEF Present, Live
  <2>4. Begin(r, f)
    BY <2>1
  <2> HIDE DEF e
  <2>5. /\ f \in Frame /\ f.step = "save" /\ f.copies = {e}
        /\ f.defined = Columns /\ f.write = {}
    BY <2>2, <2>3, FrameTypes, FrameFields
  <2> HIDE DEF f
  <2> QED
    BY <2>3, <2>4, <2>5, OneReferenced, ReferenceStep
<1>6. ASSUME NEW r \in Request, InitiateReply(r)
      PROVE  ReferenceInv'
  <2>1. PICK e \in requests[r].copies :
           \/ Continue(r, Saving({Referenced(e)}, {Link(e.id)}))
           \/ Continue(r, Idle)
    BY <1>6 DEF InitiateReply
  <2> DEFINE d == Referenced(e)
             f == Saving({d}, {Link(e.id)})
  <2>2. d \in Entity /\ d.reference = {d.id} /\ Present(d) /\ {Link(e.id)} \in SUBSET Reply
    BY <1>b, ReferencedEntity DEF FrameReferenced, Present, Link, Reply
  <2>3. Continue(r, f) \/ Continue(r, Idle)
    BY <2>1
  <2> HIDE DEF d
  <2>4. /\ f \in Frame /\ f.step = "save" /\ f.copies = {d}
        /\ f.defined = Columns /\ f.write = {}
    BY <2>2, FrameTypes, FrameFields
  <2> HIDE DEF f
  <2> QED
    BY <1>c, <2>2, <2>3, <2>4, OneReferenced, ReferenceStep
<1>7. ASSUME NEW r \in Request, VerifyReply(r)
      PROVE  ReferenceInv'
  <2>1. PICK e \in requests[r].copies :
           \/ Continue(r, Saving({SetStatus(e, "held")}, {}))
           \/ Continue(r, Idle)
    BY <1>7 DEF VerifyReply
  <2> DEFINE d == SetStatus(e, "held")
             f == Saving({d}, {})
  <2>2. e \in Entity /\ e.reference = {e.id} /\ Present(e)
    BY <1>7, <1>b DEF FrameReferenced, VerifyReply
  <2>3. d \in Entity /\ d.reference = {d.id} /\ Present(d)
    BY <2>2, SetStatusEntity DEF Present, PaymentStatus
  <2>4. Continue(r, f) \/ Continue(r, Idle)
    BY <2>1
  <2> HIDE DEF d
  <2>5. /\ f \in Frame /\ f.step = "save" /\ f.copies = {d}
        /\ f.defined = Columns /\ f.write = {}
    BY <2>3, FrameTypes, FrameFields
  <2> HIDE DEF f
  <2> QED
    BY <1>c, <2>3, <2>4, <2>5, OneReferenced, ReferenceStep
<1>8. ASSUME NEW r \in Request, SaveCompare(r)
      PROVE  ReferenceInv'
  <2> DEFINE D(e) == Dirty(e, payments[e.id]) \cap requests[r].defined
             f(e) == [requests[r] EXCEPT !.write = {[entity |-> e, columns |-> D(e)]}]
  <2>1. PICK e \in requests[r].copies :
           \/ Continue(r, f(e))
           \/ /\ D(e) = {} /\ Saved(r, e)
              /\ UNCHANGED <<payments, events, replies, entered, restarts>>
    BY <1>8 DEF SaveCompare
  <2>2. /\ requests[r] \in Frame /\ requests[r].step = "save"
        /\ e \in Entity /\ payments[e.id] \in Entity /\ e.reference = {e.id}
        /\ requests[r].defined = Columns /\ FrameReferenced(requests[r])
    BY <1>8, <1>a, <1>b DEF SaveCompare, FrameReferenced
  <2>3. D(e) = Dirty(e, payments[e.id]) /\ D(e) \subseteq Columns
    BY <2>2, DirtyColumns
  <2>4. "reference" \notin D(e) => Referred(e.id)
    BY <2>2, <2>3, DirtyColumns DEF Referred
  <2>5. CASE /\ D(e) = {} /\ Saved(r, e)
             /\ UNCHANGED <<payments, events, replies, entered, restarts>>
    <3>1. Referred(e.id)'
      BY <2>4, <2>5 DEF Referred
    <3>2. \A p \in Payment : /\ Referred(p) => Referred(p)'
                             /\ Exists(p) => Exists(p)'
                             /\ RowReferenced(p)'
      BY <1>a, <2>5 DEF Referred, Exists, RowReferenced
    <3> QED
      BY <2>2, <2>5, <3>1, <3>2, SavedReferences
  <2>6. CASE Continue(r, f(e))
    <3>1. /\ f(e) \in Frame /\ f(e).copies = requests[r].copies
          /\ f(e).step = "save" /\ f(e).write = {[entity |-> e, columns |-> D(e)]}
          /\ f(e).defined = Columns
      BY <2>2, <2>3 DEF Frame
    <3>2. FrameReferenced(f(e))
      BY <2>2, <2>4, <3>1 DEF FrameReferenced
    <3> QED
      BY <2>6, <3>1, <3>2, ReferenceStep
  <2> QED
    BY <2>1, <2>5, <2>6
<1>9. ASSUME NEW r \in Request, SaveUpdate(r)
      PROVE  ReferenceInv'
  <2>1. PICK w \in requests[r].write :
           /\ Store(w.entity.id, Flush(w.entity, w.columns, payments[w.entity.id]))
           /\ Saved(r, w.entity)
           /\ UNCHANGED <<events, replies, restarts>>
    BY <1>9 DEF SaveUpdate
  <2> DEFINE e == w.entity
             p == w.entity.id
  <2>2. /\ e \in requests[r].copies /\ p \in Payment
        /\ payments'[p].status \in {e.status, payments[p].status}
        /\ payments'[p].reference =
              IF "reference" \in w.columns THEN e.reference ELSE payments[p].reference
        /\ payments'[p].deleted \in {e.deleted, payments[p].deleted}
        /\ \A q \in Payment : q # p => payments'[q] = payments[q]
    BY <2>1, UpdatedRow
  <2>3. requests[r].step = "save"
    BY <1>b, <2>1 DEF FrameReferenced
  <2>4. /\ e.reference = {p} /\ Present(e)
        /\ "reference" \notin w.columns => payments[p].reference = {p}
    BY <1>b, <2>1, <2>2, <2>3 DEF FrameReferenced, Referred
  <2>5. Referred(p)' /\ Exists(p)' /\ ~ payments'[p].deleted
    BY <1>a, <2>2, <2>4 DEF Referred, Exists, Present, RowReferenced
  <2>6. \A q \in Payment : /\ Referred(q) => Referred(q)'
                           /\ Exists(q) => Exists(q)'
                           /\ RowReferenced(q)'
    BY <1>a, <2>2, <2>5 DEF Referred, Exists, RowReferenced
  <2> QED
    BY <2>1, <2>2, <2>3, <2>5, <2>6, SavedReferences
<1>10. ASSUME NEW r \in Request, Answer(r)
       PROVE  ReferenceInv'
  <2>1. /\ \A q \in Request : requests'[q] = requests[q] \/ requests'[q] = Idle
        /\ payments' = payments /\ events' = events
        /\ replies' = replies \cup requests[r].reply
    BY <1>10 DEF Answer, TypeOK
  <2>2. \A m \in requests[r].reply : m.kind = "link" => Referred(m.payment)
    BY <1>10, <1>b DEF Answer, FrameReferenced
  <2>3. \A q \in Request : FrameReferenced(requests[q])'
    BY <1>b, <1>c, <2>1 DEF FrameReferenced, Referred, Present, Exists
  <2> QED
    BY <2>1, <2>2, <2>3 DEF ReferenceInv, RowReferenced, Referred, Exists
<1>11. ASSUME Restart
       PROVE  ReferenceInv'
  <2>1. /\ \A q \in Request : requests'[q] = Idle
        /\ payments' = payments /\ events' = events /\ replies' = replies
    BY <1>11 DEF Restart
  <2>2. \A q \in Request : FrameReferenced(requests[q])'
    BY <1>c, <2>1 DEF FrameReferenced, Referred, Present, Exists
  <2> QED
    BY <2>1, <2>2 DEF ReferenceInv, RowReferenced, Referred, Exists
<1>12. ASSUME NEW kind \in EventKind, NEW p \in Payment, Gateway(kind, p)
       PROVE  ReferenceInv'
  <2>1. PICK named \in BOOLEAN :
           events' = events \cup {[kind |-> kind, payment |-> p, named |-> named]}
    BY <1>12 DEF Gateway
  <2>2. Referred(p)
    BY <1>12 DEF Gateway, Happened, Link, ReferenceInv
  <2>3. payments' = payments /\ requests' = requests /\ replies' = replies
    BY <1>12 DEF Gateway
  <2>4. \A m \in events' : Referred(m.payment)
    BY <2>1, <2>2 DEF ReferenceInv
  <2> QED
    BY <2>3, <2>4 DEF ReferenceInv, RowReferenced, FrameReferenced, Referred, Present, Exists
<1>13. CASE UNCHANGED vars
  BY <1>13 DEF vars, ReferenceInv, RowReferenced, FrameReferenced, Referred, Present, Exists
<1>14. Body = {}
  BY DEF Undisturbed
<1> QED
  BY <1>1, <1>2, <1>3, <1>4, <1>5, <1>6, <1>7, <1>8, <1>9, <1>10, <1>11, <1>12, <1>13,
     <1>14
     DEF Next

-----------------------------------------------------------------------------
(* The handlers implement module Escrow.                                   *)

\* What a handler will answer was entered: its payment was stored as held, or
\* the UPDATE about to be sent stores it so.
EnteredFor(m) == m.kind = "charge_ok" => m.payment \in entered

FrameAnswers(f) ==
    /\ \A m \in f.reply, n \in f.reply : m = n
    /\ f.step = "save" =>
          \A m \in f.reply, e \in f.copies :
             m.kind = "charge_ok" => e.status = "held" /\ e.id = m.payment
    /\ f.step = "answer" => \A m \in f.reply : EnteredFor(m)
    /\ \A m \in f.reply, w \in f.write : "status" \notin w.columns => EnteredFor(m)

AnswerInv ==
    /\ \A p \in Payment : payments[p].status = "held" => p \in entered
    /\ \A r \in Request : FrameAnswers(requests[r])

\* A handler that begins or goes on with a frame that answers for its copies.
LEMMA AnswerStep ==
    ASSUME TypeOK, AnswerInv, NEW r \in Request, NEW f \in Frame,
           Begin(r, f) \/ Continue(r, f), FrameAnswers(f)
    PROVE  AnswerInv'
<1>1. \A q \in Request : requests'[q] = IF q = r THEN f ELSE requests[q]
  BY DEF Begin, Continue, TypeOK
<1>2. payments' = payments /\ entered' = entered
  BY DEF Begin, Continue
<1> QED
  BY <1>1, <1>2 DEF AnswerInv, FrameAnswers, EnteredFor

\* A frame that will answer nothing answers for its copies.
LEMMA NothingAnswered ==
    ASSUME NEW f, f.reply = {}
    PROVE  FrameAnswers(f)
  BY DEF FrameAnswers

\* A save after which the payment was entered, if the handler answers so.
LEMMA SavedAnswers ==
    ASSUME TypeOK, AnswerInv, NEW r \in Request, NEW e \in requests[r].copies,
           requests[r].step = "save", Saved(r, e),
           entered \subseteq entered',
           \A p \in Payment : payments'[p].status = "held" => p \in entered',
           \A m \in requests[r].reply : EnteredFor(m)'
    PROVE  AnswerInv'
<1>1. PICK f \in Frame :
         /\ requests' = [requests EXCEPT ![r] = f]
         /\ \/ f = Idle /\ requests[r].reply = {}
            \/ f = Answering(requests[r].reply)
            \/ f = Saving(requests[r].copies \ {e}, requests[r].reply)
  BY SavedFrame
<1>2. \A q \in Request : requests'[q] = IF q = r THEN f ELSE requests[q]
  BY <1>1 DEF TypeOK
<1>3. FrameAnswers(requests[r])
  BY DEF AnswerInv
<1>4. FrameAnswers(f)'
  <2>1. CASE f = Idle
    BY <2>1 DEF Idle, FrameAnswers
  <2>2. CASE f = Answering(requests[r].reply)
    BY <1>3, <2>2, FrameFields DEF FrameAnswers
  <2>3. CASE f = Saving(requests[r].copies \ {e}, requests[r].reply)
    <3>1. /\ f.step = "save" /\ f.copies = requests[r].copies \ {e}
          /\ f.reply = requests[r].reply /\ f.write = {}
      BY <2>3, FrameFields
    <3> QED
      BY <1>3, <3>1 DEF FrameAnswers
  <2> QED
    BY <1>1, <2>1, <2>2, <2>3
<1>5. ASSUME NEW q \in Request, q # r
      PROVE  FrameAnswers(requests[q])'
  <2>1. requests'[q] = requests[q] /\ FrameAnswers(requests[q])
    BY <1>2, <1>5 DEF AnswerInv
  <2> QED
    BY <2>1 DEF FrameAnswers, EnteredFor
<1> QED
  BY <1>2, <1>4, <1>5 DEF AnswerInv

\* Initially there are neither rows nor handlers.
LEMMA InitAnswerInv == Init => AnswerInv
<1> SUFFICES ASSUME Init
             PROVE  AnswerInv
  OBVIOUS
<1>1. \A p \in Payment : payments[p].status = "absent"
  BY DEF Init, NoRow
<1>2. \A r \in Request : requests[r].reply = {}
  BY DEF Init, Idle
<1> QED
  BY <1>1, <1>2, NothingAnswered DEF AnswerInv

\* While nothing disturbs it, every step preserves the invariant.
LEMMA NextAnswerInv ==
    ASSUME Undisturbed, TypeOK, FramesOK, BackedInv, ReferenceInv, AnswerInv,
           [Next]_vars
    PROVE  AnswerInv'
<1> USE ConstantsAssumption
<1>a. \A p \in Payment : payments[p] \in Entity /\ payments[p].id = p
  BY DEF TypeOK
<1>b. \A r \in Request : /\ requests[r] \in Frame /\ FrameReferenced(requests[r])
                         /\ FrameAnswers(requests[r])
                         /\ \A e \in requests[r].copies : e \in Entity /\ e.id \in Payment
  BY DEF TypeOK, Frame, Entity, ReferenceInv, AnswerInv
<1>c. Idle \in Frame /\ FrameAnswers(Idle)
  <2>1. Idle \in Frame
    BY FrameTypes
  <2> QED
    BY <2>1 DEF Idle, FrameAnswers
<1>1. ASSUME NEW p \in Payment, Create(p, Plain)
      PROVE  AnswerInv'
  <2>1. /\ \A q \in Payment : q # p => payments'[q] = payments[q]
        /\ entered' = IF payments'[p].status = "held" THEN entered \cup {p} ELSE entered
        /\ requests' = requests
    BY <1>1, CreatedRow
  <2>2. \A q \in Payment : payments'[q].status = "held" => q \in entered'
    BY <2>1 DEF AnswerInv
  <2>3. \A r \in Request : FrameAnswers(requests[r])'
    BY <1>b, <2>1 DEF FrameAnswers, EnteredFor
  <2> QED
    BY <2>2, <2>3 DEF AnswerInv
<1>2. ASSUME NEW r \in Request, NEW p \in Payment, ReleasePayment(r, p)
      PROVE  AnswerInv'
  <2> DEFINE e == SetStatus(payments[p], "released")
             f == Saving({e}, {})
  <2>1. e \in Entity
    BY <1>a, SetStatusEntity DEF PaymentStatus
  <2>2. Begin(r, f)
    BY <1>2 DEF ReleasePayment
  <2> HIDE DEF e
  <2>3. f \in Frame /\ f.reply = {}
    BY <2>1, FrameTypes, FrameFields
  <2> HIDE DEF f
  <2> QED
    BY <2>2, <2>3, NothingAnswered, AnswerStep
<1>3. ASSUME NEW r \in Request, NEW p \in Payment,
             InitiatePayment(r, p) \/ VerifyPayment(r, p)
      PROVE  AnswerInv'
  <2>1. PICK step \in {"initiate", "verify"} : Begin(r, Awaiting(step, payments[p]))
    BY <1>3 DEF InitiatePayment, VerifyPayment
  <2> DEFINE f == Awaiting(step, payments[p])
  <2>2. f \in Frame /\ f.reply = {}
    BY <1>a, AwaitingFields
  <2>3. Begin(r, f)
    BY <2>1
  <2> HIDE DEF f
  <2> QED
    BY <2>2, <2>3, NothingAnswered, AnswerStep
<1>4. ASSUME NEW r \in Request, NEW c \in Condition, ConditionMet(r, c)
      PROVE  AnswerInv'
  <2>1. PICK S \in SUBSET Entity : Begin(r, Saving(S, {}))
    BY <1>4, ReleasedEntities
  <2> DEFINE f == Saving(S, {})
  <2>2. f \in Frame /\ f.reply = {}
    BY FrameTypes, FrameFields
  <2>3. Begin(r, f)
    BY <2>1
  <2> HIDE DEF f
  <2> QED
    BY <2>2, <2>3, NothingAnswered, AnswerStep
<1>5. ASSUME NEW r \in Request, NEW m \in events, Webhook(r, m)
      PROVE  AnswerInv'
  <2>1. PICK p \in Found(m) : Begin(r, Saving({Apply(m.kind, payments[p])}, {m}))
    BY <1>5, EventFound DEF Webhook
  <2>2. m \in Event /\ {m} \in SUBSET Reply /\ p = m.payment /\ p \in Payment
    BY EventFound
  <2> DEFINE e == Apply(m.kind, payments[p])
             f == Saving({e}, {m})
  <2>3. e \in Entity /\ e.id = m.payment /\ (m.kind = "charge_ok" => e.status = "held")
    BY <1>a, <2>2, ApplyEntity
  <2>4. Begin(r, f)
    BY <2>1
  <2> HIDE DEF e
  <2>5. /\ f \in Frame /\ f.step = "save" /\ f.copies = {e}
        /\ f.write = {} /\ f.reply = {m}
    BY <2>2, <2>3, FrameTypes, FrameFields
  <2> HIDE DEF f
  <2>6. FrameAnswers(f)
    BY <2>3, <2>5 DEF FrameAnswers
  <2> QED
    BY <2>4, <2>5, <2>6, AnswerStep
<1>6. ASSUME NEW r \in Request, InitiateReply(r)
      PROVE  AnswerInv'
  <2>1. PICK e \in requests[r].copies :
           \/ Continue(r, Saving({Referenced(e)}, {Link(e.id)}))
           \/ Continue(r, Idle)
    BY <1>6 DEF InitiateReply
  <2> DEFINE d == Referenced(e)
             m == Link(e.id)
             f == Saving({d}, {m})
  <2>2. /\ {d} \in SUBSET Entity
        /\ {m} \in SUBSET Reply /\ m.kind = "link"
    BY <1>b, ReferencedEntity DEF Link, Reply
  <2>3. Continue(r, f) \/ Continue(r, Idle)
    BY <2>1
  <2> HIDE DEF d, m
  <2>4. f \in Frame /\ f.step = "save" /\ f.write = {} /\ f.reply = {m}
    <3>1. Saving({d}, {m}) \in Frame
      BY <2>2, FrameTypes
    <3> QED
      BY <3>1 DEF Saving, Idle
  <2> HIDE DEF f
  <2>5. FrameAnswers(f)
    BY <2>2, <2>4 DEF FrameAnswers
  <2> QED
    BY <1>c, <2>3, <2>4, <2>5, AnswerStep
<1>7. ASSUME NEW r \in Request, VerifyReply(r)
      PROVE  AnswerInv'
  <2>1. PICK e \in requests[r].copies :
           \/ Continue(r, Saving({SetStatus(e, "held")}, {}))
           \/ Continue(r, Idle)
    BY <1>7 DEF VerifyReply
  <2> DEFINE d == SetStatus(e, "held")
             f == Saving({d}, {})
  <2>2. d \in Entity
    BY <1>b, SetStatusEntity DEF PaymentStatus
  <2>3. Continue(r, f) \/ Continue(r, Idle)
    BY <2>1
  <2> HIDE DEF d
  <2>4. f \in Frame /\ f.reply = {}
    BY <2>2, FrameTypes, FrameFields
  <2> HIDE DEF f
  <2> QED
    BY <1>c, <2>3, <2>4, NothingAnswered, AnswerStep
<1>8. ASSUME NEW r \in Request, SaveCompare(r)
      PROVE  AnswerInv'
  <2> DEFINE D(e) == Dirty(e, payments[e.id]) \cap requests[r].defined
             f(e) == [requests[r] EXCEPT !.write = {[entity |-> e, columns |-> D(e)]}]
  <2>1. PICK e \in requests[r].copies :
           \/ Continue(r, f(e))
           \/ /\ D(e) = {} /\ Saved(r, e)
              /\ UNCHANGED <<payments, events, replies, entered, restarts>>
    BY <1>8 DEF SaveCompare
  <2>2. /\ requests[r] \in Frame /\ requests[r].step = "save"
        /\ e \in Entity /\ payments[e.id] \in Entity /\ e.id \in Payment
        /\ requests[r].defined = Columns /\ FrameAnswers(requests[r])
    BY <1>8, <1>a, <1>b DEF SaveCompare, FrameReferenced
  <2>3. D(e) = Dirty(e, payments[e.id]) /\ D(e) \subseteq Columns
    BY <2>2, DirtyColumns
  <2>4. ASSUME "status" \notin D(e), NEW m \in requests[r].reply
        PROVE  EnteredFor(m)
    <3>1. e.status = payments[e.id].status
      BY <2>2, <2>3, <2>4, DirtyColumns
    <3> QED
      BY <2>2, <3>1 DEF FrameAnswers, EnteredFor, AnswerInv
  <2>5. CASE /\ D(e) = {} /\ Saved(r, e)
             /\ UNCHANGED <<payments, events, replies, entered, restarts>>
    <3>1. \A m \in requests[r].reply : EnteredFor(m)'
      BY <2>4, <2>5 DEF EnteredFor
    <3> QED
      BY <2>2, <2>5, <3>1, SavedAnswers DEF AnswerInv
  <2>6. CASE Continue(r, f(e))
    <3>1. /\ f(e) \in Frame /\ f(e).copies = requests[r].copies
          /\ f(e).step = "save" /\ f(e).write = {[entity |-> e, columns |-> D(e)]}
          /\ f(e).reply = requests[r].reply
      BY <2>2, <2>3 DEF Frame
    <3>2. FrameAnswers(f(e))
      BY <2>2, <2>4, <3>1 DEF FrameAnswers
    <3> QED
      BY <2>6, <3>1, <3>2, AnswerStep
  <2> QED
    BY <2>1, <2>5, <2>6
<1>9. ASSUME NEW r \in Request, SaveUpdate(r)
      PROVE  AnswerInv'
  <2>1. PICK w \in requests[r].write :
           /\ Store(w.entity.id, Flush(w.entity, w.columns, payments[w.entity.id]))
           /\ Saved(r, w.entity)
           /\ UNCHANGED <<events, replies, restarts>>
    BY <1>9 DEF SaveUpdate
  <2> DEFINE e == w.entity
             p == w.entity.id
  <2>2. /\ e \in requests[r].copies /\ p \in Payment
        /\ payments'[p].status =
              IF "status" \in w.columns THEN e.status ELSE payments[p].status
        /\ \A q \in Payment : q # p => payments'[q] = payments[q]
        /\ entered' = IF payments'[p].status = "held" THEN entered \cup {p} ELSE entered
    BY <2>1, UpdatedRow
  <2>3. requests[r].step = "save"
    BY <1>b, <2>1 DEF FrameReferenced
  <2>4. \A q \in Payment : payments'[q].status = "held" => q \in entered'
    BY <2>2 DEF AnswerInv
  <2>5. ASSUME NEW m \in requests[r].reply
        PROVE  EnteredFor(m)'
    <3>1. CASE "status" \in w.columns
      BY <1>b, <2>2, <2>3, <3>1 DEF FrameAnswers, EnteredFor
    <3>2. CASE "status" \notin w.columns
      BY <1>b, <2>1, <2>2, <3>2 DEF FrameAnswers, EnteredFor
    <3> QED
      BY <3>1, <3>2
  <2> QED
    BY <2>1, <2>2, <2>3, <2>4, <2>5, SavedAnswers
<1>10. ASSUME Restart \/ \E r \in Request : Answer(r)
       PROVE  AnswerInv'
  <2>1. /\ \A q \in Request : requests'[q] = requests[q] \/ requests'[q] = Idle
        /\ payments' = payments /\ entered' = entered
    BY <1>10 DEF Restart, Answer, TypeOK
  <2>2. \A q \in Request : FrameAnswers(requests[q])'
    BY <1>b, <1>c, <2>1 DEF FrameAnswers, EnteredFor
  <2> QED
    BY <2>1, <2>2 DEF AnswerInv
<1>11. ASSUME UNCHANGED vars \/ \E kind \in EventKind, p \in Payment : Gateway(kind, p)
       PROVE  AnswerInv'
  <2>1. payments' = payments /\ entered' = entered /\ requests' = requests
    BY <1>11 DEF Gateway, vars
  <2> QED
    BY <2>1 DEF AnswerInv, FrameAnswers, EnteredFor
<1>12. Body = {}
  BY DEF Undisturbed
<1> QED
  BY <1>1, <1>2, <1>3, <1>4, <1>5, <1>6, <1>7, <1>8, <1>9, <1>10, <1>11, <1>12 DEF Next

\* What the ledger shows of a payment depends on its row's status alone.
LEMMA ShowsStatus ==
    /\ \A p \in Payment : payments'[p].status = payments[p].status => Shows(p)' = Shows(p)
    /\ \A p \in Payment : payments[p].status = "absent" <=> Shows(p) = "none"
    /\ \A p \in Payment : payments[p].status \in Funded => Shows(p) = payments[p].status
    /\ \A p \in Payment : payments[p].status \notin Funded \cup {"absent"} => Shows(p) = "open"
  BY DEF Shows, Funded

\* A step that leaves rows, charges and acknowledgements alone is a stutter.
LEMMA EscrowStutter ==
    ASSUME \A p \in Payment : Shows(p)' = Shows(p),
           \A p \in Payment : Happened("charge_ok", p)' <=> Happened("charge_ok", p),
           \A p \in Payment : Told(p)' <=> Told(p),
           entered' = entered
    PROVE  UNCHANGED Ledger!escrow
  BY DEF Ledger!escrow

\* A step that writes one row shows that payment differently.
LEMMA EscrowShow ==
    ASSUME NEW i \in Payment, NEW s, Shows(i)' = s,
           \A p \in Payment : p # i => Shows(p)' = Shows(p)
    PROVE  Ledger!Show(i, s)
  BY DEF Ledger!Show

\* A handler that begins or goes on without saving does not touch the ledger.
LEMMA EscrowContinue ==
    ASSUME UNCHANGED <<payments, events, replies, entered>>
    PROVE  UNCHANGED Ledger!escrow
  BY EscrowStutter, ShowsStatus DEF Happened, Told

\* Every step of the handlers is a step of the abstract ledger or a stutter.
LEMMA NextEscrow ==
    ASSUME Undisturbed, TypeOK, FramesOK, BackedInv, ReferenceInv, AnswerInv,
           [Next]_vars
    PROVE  [Ledger!Next]_(Ledger!escrow)
<1> USE ConstantsAssumption
<1>a. \A p \in Payment : \A s : Charged(p, s) => Happened("charge_ok", p)
  BY DEF Charged, OwnReference, EventsNamed, Undisturbed
<1>b. Quiet /\ Body = {}
  BY DEF Quiet, Undisturbed
<1>1. ASSUME NEW p \in Payment, Create(p, Plain)
      PROVE  Ledger!Next
  <2>1. /\ payments[p].status = "absent"
        /\ UNCHANGED <<events, replies>>
    BY <1>1 DEF Create, Exists
  <2>2. /\ payments'[p].status = "pending"
        /\ \A q \in Payment : q # p => payments'[q] = payments[q]
        /\ entered' = entered
    <3>1. DOMAIN Plain = {"status"} /\ Plain.status = "pending"
      BY DEF Plain
    <3>2. Plain \in Body \cup {Plain}
      OBVIOUS
    <3> QED
      BY <1>1, <3>1, <3>2, CreatedRow
  <2>3. Shows(p) = "none" /\ Shows(p)' = "open"
    BY <2>1, <2>2 DEF Shows, Funded
  <2>4. \A q \in Payment : q # p => Shows(q)' = Shows(q)
    BY <2>2, ShowsStatus
  <2>5. Ledger!Show(p, "open")
    BY <2>3, <2>4, EscrowShow
  <2>6. Ledger!Agree(p)
    BY <2>1, <2>2, <2>3, <2>5 DEF Ledger!Agree, Happened, Told
  <2> QED
    BY <2>6 DEF Ledger!Next
<1>2. ASSUME NEW r \in Request, NEW p \in Payment,
             ReleasePayment(r, p) \/ InitiatePayment(r, p) \/ VerifyPayment(r, p)
      PROVE  UNCHANGED Ledger!escrow
  BY <1>2, EscrowContinue DEF ReleasePayment, InitiatePayment, VerifyPayment, Begin
<1>3. ASSUME NEW r \in Request, NEW c \in Condition, ConditionMet(r, c)
      PROVE  UNCHANGED Ledger!escrow
  BY <1>3, EscrowContinue DEF ConditionMet, Begin
<1>4. ASSUME NEW r \in Request, NEW m \in events, Webhook(r, m)
      PROVE  UNCHANGED Ledger!escrow
  BY <1>4, EscrowContinue DEF Webhook, Begin
<1>5. ASSUME NEW r \in Request, InitiateReply(r) \/ VerifyReply(r)
      PROVE  UNCHANGED Ledger!escrow
  BY <1>5, EscrowContinue DEF InitiateReply, VerifyReply, Continue
<1>6. ASSUME NEW r \in Request, SaveCompare(r)
      PROVE  UNCHANGED Ledger!escrow
  BY <1>6, EscrowContinue DEF SaveCompare, Continue
<1>7. ASSUME NEW r \in Request, SaveUpdate(r)
      PROVE  [Ledger!Next]_(Ledger!escrow)
  <2>1. PICK w \in requests[r].write :
           /\ Store(w.entity.id, Flush(w.entity, w.columns, payments[w.entity.id]))
           /\ UNCHANGED <<events, replies>>
    BY <1>7 DEF SaveUpdate
  <2> DEFINE e == w.entity
             i == e.id
  <2>2. /\ e \in requests[r].copies /\ i \in Payment /\ payments[i].id = i
        /\ payments'[i].status \in {e.status, payments[i].status}
        /\ \A q \in Payment : q # i => payments'[q] = payments[q]
        /\ entered' = IF payments'[i].status = "held" THEN entered \cup {i} ELSE entered
    BY <2>1, UpdatedRow DEF TypeOK
  <2>3. Backed(e) /\ Backed(payments[i]) /\ Present(e)
    BY <2>2 DEF BackedInv, FrameBacked, ReferenceInv, FrameReferenced
  <2>4. payments'[i].status \in Funded => Happened("charge_ok", i)
    BY <1>a, <1>b, <2>2, <2>3 DEF Backed
  <2>5. payments[i].status # "absent" /\ payments'[i].status # "absent"
    BY <2>2, <2>3 DEF Present, Exists
  <2>6. \A q \in Payment : q # i => Shows(q)' = Shows(q)
    BY <2>2, ShowsStatus
  <2>7. /\ \A q \in Payment : Happened("charge_ok", q)' <=> Happened("charge_ok", q)
        /\ \A q \in Payment : Told(q)' <=> Told(q)
    BY <2>1 DEF Happened, Told
  <2> HIDE DEF i
  <2>8. CASE payments'[i].status = "held"
    <3>1. Shows(i)' = "held"
      BY <2>8 DEF Shows, Funded
    <3>2. Ledger!Show(i, "held")
      BY <2>2, <2>6, <3>1, EscrowShow
    <3>3. Ledger!Enter(i)
      BY <2>2, <2>4, <2>7, <2>8, <3>2 DEF Ledger!Enter, Funded
    <3> QED
      BY <2>2, <3>3 DEF Ledger!Next
  <2>9. CASE payments'[i].status = "released"
    <3>1. Shows(i)' = "released"
      BY <2>9 DEF Shows, Funded
    <3>2. Ledger!Show(i, "released")
      BY <2>2, <2>6, <3>1, EscrowShow
    <3>3. Ledger!Enter(i)
      BY <2>2, <2>4, <2>7, <2>9, <3>2 DEF Ledger!Enter, Funded
    <3> QED
      BY <2>2, <3>3 DEF Ledger!Next
  <2>10. CASE payments'[i].status \notin Funded /\ payments[i].status \in Funded
    <3>1. Shows(i)' = "open" /\ Shows(i) \in {"held", "released"}
      BY <2>5, <2>10 DEF Shows, Funded
    <3>2. Ledger!Show(i, "open")
      BY <2>2, <2>6, <3>1, EscrowShow
    <3>3. Ledger!Withdraw(i)
      BY <2>2, <2>7, <2>10, <3>1, <3>2 DEF Ledger!Withdraw, Funded
    <3> QED
      BY <2>2, <3>3 DEF Ledger!Next
  <2>11. CASE payments'[i].status \notin Funded /\ payments[i].status \notin Funded
    <3>1. Shows(i)' = Shows(i)
      BY <2>5, <2>11 DEF Shows, Funded
    <3>2. entered' = entered
      BY <2>2, <2>11 DEF Funded
    <3> QED
      BY <2>6, <2>7, <3>1, <3>2, EscrowStutter
  <2> QED
    BY <2>8, <2>9, <2>10, <2>11 DEF Funded
<1>8. ASSUME NEW r \in Request, Answer(r)
      PROVE  [Ledger!Next]_(Ledger!escrow)
  <2>1. /\ requests[r].step = "answer" /\ replies' = replies \cup requests[r].reply
        /\ UNCHANGED <<payments, events, entered>>
    BY <1>8 DEF Answer
  <2>2. /\ \A q \in Payment : Happened("charge_ok", q)' <=> Happened("charge_ok", q)
        /\ \A q \in Payment : Shows(q)' = Shows(q)
    BY <2>1, ShowsStatus DEF Happened
  <2>3. FrameAnswers(requests[r]) /\ requests[r].reply \subseteq Reply
    BY DEF AnswerInv, TypeOK, Frame
  <2>4. CASE \E m \in requests[r].reply : m.kind = "charge_ok"
    <3>1. PICK m \in requests[r].reply : m.kind = "charge_ok"
      BY <2>4
    <3>2. m.payment \in Payment /\ m.payment \in entered
      BY <2>1, <2>3, <3>1 DEF FrameAnswers, EnteredFor, Reply
    <3>3. \A q \in Payment : Told(q)' <=> Told(q) \/ q = m.payment
      BY <2>1, <2>3, <3>1 DEF Told, FrameAnswers
    <3>4. Ledger!Acknowledge(m.payment)
      BY <2>1, <2>2, <3>2, <3>3 DEF Ledger!Acknowledge
    <3> QED
      BY <3>2, <3>4 DEF Ledger!Next
  <2>5. CASE ~ \E m \in requests[r].reply : m.kind = "charge_ok"
    <3>1. \A q \in Payment : Told(q)' <=> Told(q)
      BY <2>1, <2>5 DEF Told
    <3> QED
      BY <2>1, <2>2, <3>1, EscrowStutter
  <2> QED
    BY <2>4, <2>5
<1>9. ASSUME NEW kind \in EventKind, NEW p \in Payment, Gateway(kind, p)
      PROVE  [Ledger!Next]_(Ledger!escrow)
  <2>1. PICK named \in BOOLEAN :
           events' = events \cup {[kind |-> kind, payment |-> p, named |-> named]}
    BY <1>9 DEF Gateway
  <2>2. UNCHANGED <<payments, replies, entered>>
    BY <1>9 DEF Gateway
  <2>3. /\ \A q \in Payment : Shows(q)' = Shows(q)
        /\ \A q \in Payment : Told(q)' <=> Told(q)
    BY <2>2, ShowsStatus DEF Told
  <2>4. CASE kind = "charge_ok"
    <3>1. Link(p) \in replies
      BY <1>9, <2>4 DEF Gateway
    <3>2. Exists(p)
      BY <3>1 DEF Link, ReferenceInv, RowReferenced
    <3>3. Shows(p) # "none"
      BY <3>2, ShowsStatus DEF Exists
    <3>4. \A q \in Payment : Happened("charge_ok", q)' <=> Happened("charge_ok", q) \/ q = p
      <4> DEFINE m == [kind |-> kind, payment |-> p, named |-> named]
      <4>1. m.kind = "charge_ok" /\ m.payment = p /\ events' = events \cup {m}
        BY <2>1, <2>4
      <4> HIDE DEF m
      <4> QED
        BY <4>1 DEF Happened
    <3>5. Ledger!Take(p)
      BY <2>2, <2>3, <3>3, <3>4 DEF Ledger!Take
    <3> QED
      BY <3>5 DEF Ledger!Next
  <2>5. CASE kind # "charge_ok"
    <3>1. \A q \in Payment : Happened("charge_ok", q)' <=> Happened("charge_ok", q)
      BY <2>1, <2>5 DEF Happened
    <3> QED
      BY <2>2, <2>3, <3>1, EscrowStutter
  <2> QED
    BY <2>4, <2>5
<1>10. CASE Restart \/ UNCHANGED vars
  BY <1>10, EscrowContinue DEF Restart, vars
<1> QED
  BY <1>b, <1>1, <1>2, <1>3, <1>4, <1>5, <1>6, <1>7, <1>8, <1>9, <1>10 DEF Next

-----------------------------------------------------------------------------
(* The theorems.                                                           *)

\* Every reachable state of the ledger, its handlers and the gateway is
\* well-typed, whatever bodies clients send; in particular no handler writes a
\* status the column's enum does not have, and no save changes the id under
\* which a row is stored.
THEOREM PaymentsTypeOK == Spec => []TypeOK
<1>1. Init => TypeOK /\ FramesOK /\ BackedInv
  BY InitTypeOK, InitBackedInv
<1>2. TypeOK /\ FramesOK /\ BackedInv /\ [Next]_vars
        => (TypeOK /\ FramesOK /\ BackedInv)'
  BY NextTypeOK, NextBackedInv
<1> QED
  BY <1>1, <1>2, PTL DEF Spec

\* Escrow is backed: as long as clients do not write held or released
\* themselves, no interleaving of webhooks, verifications, releases, bodies
\* that write other columns, saves of old copies and restarts shows money in
\* escrow, or released from it, while the gateway took none; and none that it
\* did not take for this very payment, if no body names its id or gives it
\* another reference and events name their transaction.
THEOREM PaymentsEscrowBacked == Spec => []EscrowBacked
<1>1. Init => TypeOK /\ FramesOK /\ BackedInv
  BY InitTypeOK, InitBackedInv
<1>2. TypeOK /\ FramesOK /\ BackedInv /\ [Next]_vars
        => (TypeOK /\ FramesOK /\ BackedInv)'
  BY NextTypeOK, NextBackedInv
<1>3. TypeOK /\ BackedInv => EscrowBacked
  BY DEF TypeOK, BackedInv, Backed, EscrowBacked
<1> QED
  BY <1>1, <1>2, <1>3, PTL DEF Spec

\* References are kept: while nothing disturbs it, a payment with any gateway
\* event is findable by its reference, so no webhook is dropped.
THEOREM PaymentsReferenceKept == Spec => []ReferenceKept
<1>1. CASE Undisturbed
  <2>1. Init => TypeOK /\ FramesOK /\ BackedInv /\ ReferenceInv
    BY InitTypeOK, InitBackedInv, InitReferenceInv
  <2>2. TypeOK /\ FramesOK /\ BackedInv /\ ReferenceInv /\ [Next]_vars
          => (TypeOK /\ FramesOK /\ BackedInv /\ ReferenceInv)'
    BY <1>1, NextTypeOK, NextBackedInv, NextReferenceInv
  <2>3. ReferenceInv => ReferenceKept
    BY DEF ReferenceInv, ReferenceKept, ReferenceRequired, Referred
  <2> QED
    BY <2>1, <2>2, <2>3, PTL DEF Spec
<1>2. CASE ~ Undisturbed
  <2>1. ReferenceKept
    BY <1>2 DEF ReferenceKept
  <2> QED
    BY <2>1, PTL
<1> QED
  BY <1>1, <1>2

\* While nothing disturbs them, the handlers, their copies, late events and
\* restarts implement the ledger of module Escrow: money is shown only once it
\* is taken, and a charge is acknowledged only after its payment was stored as
\* held, although the UPDATE and the answer are two steps, the UPDATE may
\* leave the status alone, and others write the row between them.
THEOREM PaymentsImplementsEscrow ==
    ASSUME Undisturbed
    PROVE  Spec => ImplementsEscrow
<1>1. Init => TypeOK /\ FramesOK /\ BackedInv /\ ReferenceInv /\ AnswerInv
  BY InitTypeOK, InitBackedInv, InitReferenceInv, InitAnswerInv
<1>2. TypeOK /\ FramesOK /\ BackedInv /\ ReferenceInv /\ AnswerInv /\ [Next]_vars
        => (TypeOK /\ FramesOK /\ BackedInv /\ ReferenceInv /\ AnswerInv)'
  BY NextTypeOK, NextBackedInv, NextReferenceInv, NextAnswerInv
<1>3. Init => Ledger!Init
  <2> SUFFICES ASSUME Init PROVE Ledger!Init
    OBVIOUS
  <2>1. \A p \in Payment : payments[p].status = "absent"
    BY DEF Init, NoRow
  <2>2. \A p \in Payment : Shows(p) = "none"
    BY <2>1, ShowsStatus
  <2>3. events = {} /\ replies = {} /\ entered = {}
    BY DEF Init
  <2> QED
    BY <2>2, <2>3 DEF Ledger!Init, Happened, Told
<1>4. TypeOK /\ FramesOK /\ BackedInv /\ ReferenceInv /\ AnswerInv /\ [Next]_vars
        => [Ledger!Next]_(Ledger!escrow)
  BY NextEscrow
<1> QED
  BY <1>1, <1>2, <1>3, <1>4, PTL DEF Spec, ImplementsEscrow, Ledger!Spec

=============================================================================
