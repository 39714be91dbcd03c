----------------------------- MODULE RfqsProofs -----------------------------
(***************************************************************************)
(* Proofs about module Rfqs, for any RFQs, any finite set of quotations,   *)
(* any deals and any number of handlers, whether or not calls may fail.    *)
(***************************************************************************)
EXTENDS Rfqs, FiniteSetTheorems, TLAPS

-----------------------------------------------------------------------------
(* The inductive invariants.                                               *)

\* Every count, in the table and in the copies in flight, is covered by
\* quotations received.
RowsCovered == \A x \in Rfq : rfqs[x].count <= Cardinality(Received(x))

FrameCovered(f) == \A e \in f.copies : e.count <= Cardinality(Received(e.id))

\* A quotation about to be inserted is new, nobody else is about to insert
\* or accept it, and it answers the RFQ that will count it.
FrameQuotes(r) ==
    requests[r].step = "quote" =>
        \A q \in requests[r].quotes :
            /\ quotes[q] = "absent"
            /\ \A e \in requests[r].copies : RfqOf[q] = e.id
            /\ \A s \in Request : s # r => q \notin requests[s].quotes

CountInv ==
    /\ RowsCovered
    /\ \A r \in Request : FrameCovered(requests[r])
    /\ \A r \in Request : FrameQuotes(r)

\* An RFQ that has left the state it was created in.
Open(x) == rfqs[x].status \notin {"absent", "draft"}

\* The quotations a handler inserts or accepts answer RFQs that are open, and
\* apart from the matching workflow, which writes a status of its own, no
\* handler holds a copy of an RFQ that is not.
FramePublished(f) ==
    /\ \A q \in f.quotes : Open(RfqOf[q])
    /\ f.step \notin {"match", "invite"} =>
          \A e \in f.copies : e.status \notin {"absent", "draft"}

PublishedInv ==
    /\ QuotedOnlyOncePublished
    /\ \A r \in Request : FramePublished(requests[r])

\* A handler that is about to commit its deal has announced it.
AwardInv ==
    /\ AcceptedHaveDeals
    /\ DealsAnnounced
    /\ \A r \in Request :
          requests[r].step = "commit" => requests[r].deals \subseteq announced

\* An acceptance has one deal, whose id nobody else uses or has used, and
\* which is not known to anybody until it is announced.
FrameDeals(r) ==
    \A d \in requests[r].deals :
        /\ requests[r].deals = {d}
        /\ \A c \in deals : c.id # d
        /\ requests[r].step # "commit" => d \notin announced
        /\ \A s \in Request : s # r => d \notin requests[s].deals

\* A handler has one copy.  An acceptance is of a quotation that came in, and
\* saves the RFQ which that answers; the save of a draft changes its status.
FrameAwards(f) ==
    /\ \A c, e \in f.copies : c = e
    /\ f.step \in {"begin", "award", "lock", "announce", "commit"} =>
          \A q \in f.quotes : quotes[q] # "absent"
    /\ f.step \in {"award", "lock", "announce", "commit"} =>
          \A q \in f.quotes, e \in f.copies : e.id = RfqOf[q]
    /\ f.step = "update" =>
          \A e \in f.copies : Open(e.id) \/ "status" \in f.columns

AcceptanceInv == \A r \in Request : FrameDeals(r) /\ FrameAwards(requests[r])

-----------------------------------------------------------------------------
(* Lemmas about the operators.                                             *)

\* Comparing and flushing yields an entity again, each of whose columns is
\* the saved entity's if it was dirty and the row's otherwise.
LEMMA FlushEntity ==
    ASSUME NEW e \in Entity, NEW row \in Entity, NEW D
    PROVE  /\ Flush(e, D, row) \in Entity
           /\ Flush(e, D, row).id = IF "id" \in D THEN e.id ELSE row.id
           /\ Flush(e, D, row).status = IF "status" \in D THEN e.status ELSE row.status
           /\ Flush(e, D, row).count = IF "count" \in D THEN e.count ELSE row.count
<1> DEFINE merged == [id     |-> IF "id" \in D THEN e.id ELSE row.id,
                      status |-> IF "status" \in D THEN e.status ELSE row.status,
                      count  |-> IF "count" \in D THEN e.count ELSE row.count]
<1>1. DOMAIN row = {"id", "status", "count"}
  BY DEF Entity
<1>2. Flush(e, D, row) = merged
  BY <1>1 DEF Flush
<1>3. merged \in Entity
  BY DEF Entity
<1> QED
  BY <1>2, <1>3

\* The dirty columns are columns.
LEMMA DirtyColumns ==
    ASSUME NEW e, NEW row \in Entity
    PROVE  Dirty(e, row) \subseteq Columns
<1>1. DOMAIN row = {"id", "status", "count"}
  BY DEF Entity
<1> QED
  BY <1>1 DEF Dirty, Columns

\* Changing the status of an entity changes nothing else.
LEMMA SetStatusEntity ==
    ASSUME NEW e \in Entity, NEW s \in RfqStatus
    PROVE  /\ SetStatus(e, s) \in Entity
           /\ SetStatus(e, s).id = e.id
           /\ SetStatus(e, s).status = s
           /\ SetStatus(e, s).count = e.count
  BY DEF SetStatus, Entity

\* Counting one quotation more changes nothing else.
LEMMA CountedEntity ==
    ASSUME NEW e \in Entity
    PROVE  /\ Counted(e) \in Entity
           /\ Counted(e).id = e.id
           /\ Counted(e).status = e.status
           /\ Counted(e).count = e.count + 1
  BY DEF Counted, Entity

\* The frames that handlers build: what is in them.
LEMMA NewFrames ==
    ASSUME NEW e \in Entity, NEW q \in Quote, NEW d \in Deal
    PROVE  /\ Idle \in Frame /\ Idle.step = "idle" /\ Idle.copies = {}
           /\ Idle.quotes = {} /\ Idle.deals = {}
           /\ \A step \in {"invite", "save"} :
                 /\ At(step, e) \in Frame
                 /\ At(step, e).step = step /\ At(step, e).copies = {e}
                 /\ At(step, e).quotes = {} /\ At(step, e).deals = {}
           /\ Quoting(e, q) \in Frame
           /\ Quoting(e, q).step = "quote" /\ Quoting(e, q).copies = {e}
           /\ Quoting(e, q).quotes = {q} /\ Quoting(e, q).deals = {}
           /\ Awarding(e, q, d) \in Frame
           /\ Awarding(e, q, d).step = "award" /\ Awarding(e, q, d).copies = {e}
           /\ Awarding(e, q, d).quotes = {q} /\ Awarding(e, q, d).deals = {d}
  BY DEF Idle, At, Quoting, Awarding, Frame

\* An acceptance begins without a copy of the RFQ.
LEMMA AcceptingFrame ==
    ASSUME NEW q \in Quote, NEW d \in Deal
    PROVE  /\ Accepting(q, d) \in Frame
           /\ Accepting(q, d).step = "begin" /\ Accepting(q, d).copies = {}
           /\ Accepting(q, d).quotes = {q} /\ Accepting(q, d).deals = {d}
  BY DEF Accepting, Idle, Frame

\* The same for a quotation, without a deal.
LEMMA QuotingFrame ==
    ASSUME NEW e \in Entity, NEW q \in Quote PROVE Quoting(e, q) \in Frame
  BY DEF Quoting, At, Idle, Frame

\* The empty frame needs no witnesses.
LEMMA IdleFrame ==
    /\ Idle \in Frame /\ Idle.step = "idle" /\ Idle.copies = {}
    /\ Idle.quotes = {} /\ Idle.deals = {}
  BY DEF Idle, Frame

\* The frame in which publish saves is one that saves, too.
LEMMA PublishFrame ==
    ASSUME NEW e \in Entity, NEW f, f = [At("save", e) EXCEPT !.next = "match"]
    PROVE  f \in Frame /\ f.step = "save" /\ f.copies = {e} /\ f.quotes = {}
  BY DEF At, Idle, Frame

\* The frames that handlers go on with: a new step, with or without columns.
LEMMA ColumnsFrame ==
    ASSUME NEW f \in Frame, NEW D \in SUBSET Columns, NEW step \in {"update", "lock"}
    PROVE  LET g == [f EXCEPT !.step = step, !.columns = D]
           IN  /\ g \in Frame /\ g.step = step /\ g.copies = f.copies
               /\ g.quotes = f.quotes /\ g.deals = f.deals
  BY DEF Frame

\* The same for a handler that only goes on to another step.
LEMMA StepFrame ==
    ASSUME NEW f \in Frame, NEW step \in {"announce", "commit"}
    PROVE  LET g == [f EXCEPT !.step = step]
           IN  /\ g \in Frame /\ g.step = step /\ g.copies = f.copies
               /\ g.quotes = f.quotes /\ g.deals = f.deals
  BY DEF Frame

\* After a save a handler is idle or starts matching; it has no quotation.
LEMMA SavedFrame ==
    ASSUME NEW r \in Request, requests[r] \in Frame
    PROVE  /\ Saved(r) \in Frame
           /\ Saved(r).step \in {"idle", "match"}
           /\ Saved(r).copies \subseteq requests[r].copies
           /\ Saved(r).quotes = {}
<1>1. CASE requests[r].next = "match"
  <2> DEFINE f == [Idle EXCEPT !.step = "match", !.copies = requests[r].copies]
  <2>1. Saved(r) = f
    BY <1>1 DEF Saved
  <2>2. f \in Frame /\ f.step = "match" /\ f.quotes = {} /\ f.copies = requests[r].copies
    BY DEF Idle, Frame
  <2> QED
    BY <2>1, <2>2
<1>2. CASE requests[r].next # "match"
  BY <1>2, IdleFrame DEF Saved
<1> QED
  BY <1>1, <1>2

\* What an acceptance does to the quotations: it accepts one and touches no
\* other, because the condition of "Reject other quotes" names the accepted
\* quotation itself, which is no longer "sent".
LEMMA AcceptedQuotes ==
    ASSUME NEW x \in Rfq, NEW q \in Quote, NEW o \in Quote,
           quotes \in [Quote -> QuoteStatus \cup {"absent"}]
    PROVE  Accepted(x, q)[o] = IF o = q THEN "accepted" ELSE quotes[o]
  BY DEF Accepted, QuoteStatus

-----------------------------------------------------------------------------
(* Type correctness.                                                       *)

\* The initial state has the right type.
LEMMA InitTypeOK == Init => TypeOK
  BY IdleFrame DEF Init, TypeOK, Entity

\* Writing a frame into a slot preserves the type.
LEMMA ContinueTypeOK ==
    ASSUME TypeOK, NEW r \in Request, NEW f \in Frame,
           Continue(r, f) \/ Begin(r, f)
    PROVE  TypeOK'
  BY DEF TypeOK, Continue, Begin

\* Every step preserves the type.
LEMMA NextTypeOK == TypeOK /\ [Next]_vars => TypeOK'
<1> SUFFICES ASSUME TypeOK, [Next]_vars
             PROVE  TypeOK'
  OBVIOUS
<1> USE ConstantsAssumption
<1>a. ASSUME NEW r \in Request
      PROVE  /\ requests[r] \in Frame
             /\ requests[r].copies \subseteq Entity
             /\ requests[r].columns \subseteq Columns
             /\ requests[r].quotes \subseteq Quote
             /\ requests[r].deals \subseteq Deal
  BY DEF TypeOK, Frame
<1>b. ASSUME NEW e \in Entity
      PROVE  e.id \in Rfq /\ rfqs[e.id] \in Entity /\ rfqs[e.id].id = e.id
  BY DEF TypeOK, Entity
<1>c. ASSUME NEW x \in Rfq
      PROVE  rfqs[x] \in Entity /\ rfqs[x].id = x
  BY DEF TypeOK
<1>d. ASSUME NEW q \in Quote
      PROVE  RfqOf[q] \in Rfq
  OBVIOUS
<1>1. ASSUME NEW x \in Rfq, CreateRfq(x)
      PROVE  TypeOK'
  BY <1>1 DEF CreateRfq, TypeOK, Entity, RfqStatus
<1>2. ASSUME NEW r \in Request, NEW x \in Rfq, Publish(r, x)
      PROVE  TypeOK'
  <2>1. SetStatus(rfqs[x], "published") \in Entity
    BY <1>c, SetStatusEntity DEF RfqStatus
  <2>2. [At("save", SetStatus(rfqs[x], "published")) EXCEPT !.next = "match"] \in Frame
    BY <2>1, PublishFrame
  <2> QED
    BY <1>2, <2>2, ContinueTypeOK DEF Publish
<1>3. ASSUME NEW r \in Request, NEW x \in Rfq, TriggerMatch(r, x)
      PROVE  TypeOK'
  <2>1. At("invite", rfqs[x]) \in Frame
    BY <1>c DEF At, Idle, Frame
  <2> QED
    BY <1>3, <2>1, ContinueTypeOK DEF TriggerMatch
<1>4. ASSUME NEW r \in Request, NEW q \in Quote, SubmitQuote(r, q)
      PROVE  TypeOK'
  <2>1. rfqs[RfqOf[q]] \in Entity
    BY <1>c, <1>d
  <2>2. Quoting(rfqs[RfqOf[q]], q) \in Frame
    BY <2>1, QuotingFrame
  <2> QED
    BY <1>4, <2>2, ContinueTypeOK DEF SubmitQuote
<1>5. ASSUME NEW r \in Request, NEW q \in Quote, NEW d \in Deal, AcceptQuote(r, q, d)
      PROVE  TypeOK'
  BY <1>5, AcceptingFrame, ContinueTypeOK DEF AcceptQuote
<1>6. ASSUME NEW r \in Request, Match(r)
      PROVE  TypeOK'
  <2>1. PICK e \in requests[r].copies : Continue(r, At("invite", rfqs[e.id]))
    BY <1>6 DEF Match
  <2>2. rfqs[e.id] \in Entity
    BY <1>a, <1>b
  <2>3. At("invite", rfqs[e.id]) \in Frame
    BY <2>2 DEF At, Idle, Frame
  <2> QED
    BY <2>1, <2>3, ContinueTypeOK
<1>7. ASSUME NEW r \in Request, NotifySuppliers(r)
      PROVE  TypeOK'
  <2>1. PICK e \in requests[r].copies :
           /\ invited' \in {invited, invited \cup {e.id}}
           /\ requests' = [requests EXCEPT ![r] = At("save", SetStatus(e, "matching"))]
    BY <1>7 DEF NotifySuppliers
  <2>2. e \in Entity /\ e.id \in Rfq
    BY <1>a, <1>b
  <2>3. SetStatus(e, "matching") \in Entity
    BY <2>2, SetStatusEntity DEF RfqStatus
  <2>4. At("save", SetStatus(e, "matching")) \in Frame
    BY <2>3 DEF At, Idle, Frame
  <2> QED
    BY <1>7, <2>1, <2>2, <2>4 DEF NotifySuppliers, TypeOK
<1>8. ASSUME NEW r \in Request, InsertQuote(r)
      PROVE  TypeOK'
  <2>1. PICK q \in requests[r].quotes, e \in requests[r].copies :
           /\ quotes' = [quotes EXCEPT ![q] = "sent"]
           /\ requests' = [requests EXCEPT ![r] = At("save", Counted(e))]
    BY <1>8 DEF InsertQuote
  <2>2. At("save", Counted(e)) \in Frame
    BY <1>a, CountedEntity DEF At, Idle, Frame
  <2> QED
    BY <1>8, <2>1, <2>2 DEF InsertQuote, TypeOK, QuoteStatus
<1>9. ASSUME NEW r \in Request, SaveCompare(r)
      PROVE  TypeOK'
  <2>1. PICK e \in requests[r].copies :
           \/ Continue(r, Saved(r))
           \/ Continue(r, [requests[r] EXCEPT !.step = "update",
                                              !.columns = Dirty(e, rfqs[e.id])])
    BY <1>9 DEF SaveCompare
  <2>2. Dirty(e, rfqs[e.id]) \in SUBSET Columns
    BY <1>a, <1>b, DirtyColumns
  <2>3. [requests[r] EXCEPT !.step = "update", !.columns = Dirty(e, rfqs[e.id])] \in Frame
    BY <1>a, <2>2, ColumnsFrame
  <2>4. Saved(r) \in Frame
    BY <1>a, SavedFrame
  <2> QED
    BY <2>1, <2>3, <2>4, ContinueTypeOK
<1>10. ASSUME NEW r \in Request, SaveUpdate(r)
       PROVE  TypeOK'
  <2>1. PICK e \in requests[r].copies :
           rfqs' = [rfqs EXCEPT ![e.id] = Flush(e, requests[r].columns, @)]
    BY <1>10 DEF SaveUpdate
  <2>2. e \in Entity /\ e.id \in Rfq /\ rfqs[e.id] \in Entity /\ rfqs[e.id].id = e.id
    BY <1>a, <1>b
  <2>3. /\ Flush(e, requests[r].columns, rfqs[e.id]) \in Entity
        /\ Flush(e, requests[r].columns, rfqs[e.id]).id = e.id
    BY <2>2, FlushEntity
  <2>4. Saved(r) \in Frame
    BY <1>a, SavedFrame
  <2> QED
    BY <1>10, <2>1, <2>2, <2>3, <2>4 DEF SaveUpdate, TypeOK
<1>11. ASSUME NEW r \in Request, AwardCompare(r)
       PROVE  TypeOK'
  <2>1. PICK e \in requests[r].copies :
           Continue(r, [requests[r] EXCEPT !.step = "lock",
                                           !.columns = Dirty(e, rfqs[e.id])])
    BY <1>11 DEF AwardCompare
  <2>2. Dirty(e, rfqs[e.id]) \in SUBSET Columns
    BY <1>a, <1>b, DirtyColumns
  <2>3. [requests[r] EXCEPT !.step = "lock", !.columns = Dirty(e, rfqs[e.id])] \in Frame
    BY <1>a, <2>2, ColumnsFrame
  <2> QED
    BY <2>1, <2>3, ContinueTypeOK
<1>12. ASSUME NEW r \in Request, AwardLock(r)
       PROVE  TypeOK'
  <2>1. [requests[r] EXCEPT !.step = "announce"] \in Frame
    BY <1>a, StepFrame
  <2> QED
    BY <1>12, <2>1, ContinueTypeOK DEF AwardLock
<1>13. ASSUME NEW r \in Request, AnnounceDeal(r)
       PROVE  TypeOK'
  <2>1. [requests[r] EXCEPT !.step = "commit"] \in Frame
    BY <1>a, StepFrame
  <2>2. requests' = [requests EXCEPT ![r] = [requests[r] EXCEPT !.step = "commit"]]
    BY <1>13 DEF AnnounceDeal
  <2> QED
    BY <1>a, <1>13, <2>1, <2>2 DEF AnnounceDeal, TypeOK
<1>14. ASSUME NEW r \in Request, Commit(r)
       PROVE  TypeOK'
  <2>1. PICK q \in requests[r].quotes, d \in requests[r].deals, e \in requests[r].copies :
           /\ rfqs' = [rfqs EXCEPT ![e.id] = Flush(e, requests[r].columns, @)]
           /\ quotes' = Accepted(e.id, q)
           /\ deals' = deals \cup {[id |-> d, quote |-> q]}
    BY <1>14, Zenon DEF Commit
  <2>2. /\ e \in Entity /\ e.id \in Rfq /\ rfqs[e.id] \in Entity /\ rfqs[e.id].id = e.id
        /\ q \in Quote /\ d \in Deal
    BY <1>a, <1>b
  <2>3. /\ Flush(e, requests[r].columns, rfqs[e.id]) \in Entity
        /\ Flush(e, requests[r].columns, rfqs[e.id]).id = e.id
    BY <2>2, FlushEntity
  <2>4. quotes' \in [Quote -> QuoteStatus \cup {"absent"}]
    <3>1. DOMAIN Accepted(e.id, q) = Quote /\ Accepted(e.id, q) = [o \in Quote |-> Accepted(e.id, q)[o]]
      BY DEF Accepted
    <3>2. \A o \in Quote : Accepted(e.id, q)[o] \in QuoteStatus \cup {"absent"}
      BY <2>2, AcceptedQuotes DEF TypeOK, QuoteStatus
    <3> QED
      BY <2>1, <3>1, <3>2
  <2>5. requests' \in [Request -> Frame] /\ UNCHANGED <<invited, announced>>
    BY <1>14, IdleFrame DEF Commit, TypeOK
  <2>6. rfqs' \in [Rfq -> Entity] /\ \A x \in Rfq : rfqs'[x].id = x
    BY <2>1, <2>2, <2>3 DEF TypeOK
  <2>7. deals' \subseteq [id : Deal, quote : Quote]
    BY <2>1, <2>2 DEF TypeOK
  <2> QED
    BY <2>4, <2>5, <2>6, <2>7 DEF TypeOK
<1>15. ASSUME NEW r \in Request, Timeout(r) \/ Fail(r)
       PROVE  TypeOK'
  BY <1>15, IdleFrame, ContinueTypeOK DEF Timeout, Fail
<1>16. ASSUME NEW r \in Request, ReadQuote(r)
       PROVE  TypeOK'
  <2>1. PICK q \in requests[r].quotes, d \in requests[r].deals :
           Continue(r, Awarding(SetStatus(rfqs[RfqOf[q]], "awarded"), q, d))
    BY <1>16 DEF ReadQuote
  <2>2. q \in Quote /\ d \in Deal
    BY <1>a
  <2>3. SetStatus(rfqs[RfqOf[q]], "awarded") \in Entity
    BY <1>c, <1>d, <2>2, SetStatusEntity DEF RfqStatus
  <2>4. Awarding(SetStatus(rfqs[RfqOf[q]], "awarded"), q, d) \in Frame
    BY <2>2, <2>3, NewFrames
  <2> QED
    BY <2>1, <2>4, ContinueTypeOK
<1>17. CASE UNCHANGED vars
  BY <1>17 DEF vars, TypeOK
<1> QED
  BY <1>1, <1>2, <1>3, <1>4, <1>5, <1>6, <1>7, <1>8, <1>9, <1>10, <1>11, <1>12,
     <1>13, <1>14, <1>15, <1>16, <1>17 DEF Next

\* The tables, the copies in flight and every frame are what they claim to be.
THEOREM RfqsTypeOK == Spec => []TypeOK
<1>1. Init => TypeOK
  BY InitTypeOK
<1>2. TypeOK /\ [Next]_vars => TypeOK'
  BY NextTypeOK
<1> QED
  BY <1>1, <1>2, PTL DEF Spec

-----------------------------------------------------------------------------
(* No more quotations are counted than were received.                      *)

\* A quotation received stays received, so the number received only grows.
LEMMA ReceivedGrows ==
    ASSUME \A q \in Quote : quotes[q] # "absent" => quotes'[q] # "absent"
    PROVE  \A x \in Rfq : /\ Cardinality(Received(x)) \in Nat
                          /\ Cardinality(Received(x)') \in Nat
                          /\ Cardinality(Received(x)) <= Cardinality(Received(x)')
<1> SUFFICES ASSUME NEW x \in Rfq
             PROVE  /\ Cardinality(Received(x)) \in Nat
                    /\ Cardinality(Received(x)') \in Nat
                    /\ Cardinality(Received(x)) <= Cardinality(Received(x)')
  OBVIOUS
<1>1. Received(x)' \in SUBSET Quote /\ Received(x) \in SUBSET Received(x)'
  BY DEF Received
<1>2. IsFiniteSet(Received(x)')
  BY <1>1, ConstantsAssumption, FS_Subset
<1>3. IsFiniteSet(Received(x)) /\ Cardinality(Received(x)) <= Cardinality(Received(x)')
  BY <1>1, <1>2, FS_Subset
<1> QED
  BY <1>2, <1>3, FS_CardinalityType

\* A step of one handler that is not about to insert a quotation afterwards,
\* that inserts at most the ones it had picked, and that leaves in the table
\* and in its own frame only counts that are covered.
LEMMA CountStep ==
    ASSUME TypeOK, CountInv, NEW r \in Request, NEW f \in Frame,
           requests' = [requests EXCEPT ![r] = f],
           f.step # "quote",
           \A q \in f.quotes : q \in requests[r].quotes \/ quotes[q] # "absent",
           \A q \in Quote : quotes[q] # "absent" => quotes'[q] # "absent",
           \A q \in Quote : quotes[q] = "absent" /\ q \notin requests[r].quotes
                               => quotes'[q] = "absent",
           RowsCovered',
           \A e \in f.copies : e.count <= Cardinality(Received(e.id)')
    PROVE  CountInv'
<1>1. ASSUME NEW s \in Request
      PROVE  /\ requests'[s] = IF s = r THEN f ELSE requests[s]
             /\ requests[s] \in Frame
  BY DEF TypeOK
<1>2. ASSUME NEW s \in Request
      PROVE  FrameCovered(requests[s])'
  <2>1. CASE s = r
    BY <1>1, <2>1 DEF FrameCovered
  <2>2. CASE s # r
    <3> SUFFICES ASSUME NEW e \in requests[s].copies
                 PROVE  e.count <= Cardinality(Received(e.id)')
      BY <1>1, <2>2 DEF FrameCovered
    <3>1. e.count \in Nat /\ e.id \in Rfq
      BY <1>1 DEF Frame, Entity
    <3>2. e.count <= Cardinality(Received(e.id))
      BY DEF CountInv, FrameCovered
    <3> QED
      BY <3>1, <3>2, ReceivedGrows
  <2> QED
    BY <2>1, <2>2
<1>3. ASSUME NEW s \in Request
      PROVE  FrameQuotes(s)'
  <2>1. CASE s = r
    BY <1>1, <2>1 DEF FrameQuotes
  <2>2. CASE s # r
    <3> SUFFICES ASSUME requests[s].step = "quote", NEW q \in requests[s].quotes
                 PROVE  /\ quotes'[q] = "absent"
                        /\ \A e \in requests[s].copies : RfqOf[q] = e.id
                        /\ \A u \in Request : u # s => q \notin requests'[u].quotes
      BY <1>1, <2>2 DEF FrameQuotes
    <3>1. /\ quotes[q] = "absent" /\ q \in Quote
          /\ \A e \in requests[s].copies : RfqOf[q] = e.id
          /\ \A u \in Request : u # s => q \notin requests[u].quotes
      BY <1>1 DEF CountInv, FrameQuotes, Frame
    <3>2. quotes'[q] = "absent" /\ q \notin f.quotes
      BY <2>2, <3>1
    <3> QED
      BY <1>1, <3>1, <3>2
  <2> QED
    BY <2>1, <2>2
<1> QED
  BY <1>2, <1>3 DEF CountInv

\* The special case of a handler that writes nothing.
LEMMA CountContinue ==
    ASSUME TypeOK, CountInv, NEW r \in Request, NEW f \in Frame,
           requests' = [requests EXCEPT ![r] = f],
           UNCHANGED <<rfqs, quotes>>,
           f.step # "quote",
           \A q \in f.quotes : q \in requests[r].quotes \/ quotes[q] # "absent",
           FrameCovered(f)
    PROVE  CountInv'
<1>1. \A x : Received(x)' = Received(x)
  BY DEF Received
<1>2. RowsCovered'
  BY <1>1 DEF RowsCovered, CountInv
<1>3. \A e \in f.copies : e.count <= Cardinality(Received(e.id)')
  BY <1>1 DEF FrameCovered
<1> QED
  BY <1>2, <1>3, CountStep

\* Saving a copy whose count is covered leaves a row whose count is covered.
LEMMA FlushCovered ==
    ASSUME TypeOK, CountInv, NEW r \in Request, NEW e \in requests[r].copies,
           rfqs' = [rfqs EXCEPT ![e.id] = Flush(e, requests[r].columns, @)],
           \A q \in Quote : quotes[q] # "absent" => quotes'[q] # "absent"
    PROVE  RowsCovered'
<1> SUFFICES ASSUME NEW x \in Rfq
             PROVE  rfqs'[x].count <= Cardinality(Received(x)')
  BY DEF RowsCovered
<1>1. e \in Entity /\ e.id \in Rfq /\ e.count \in Nat
  BY DEF TypeOK, Frame, Entity
<1>2. e.count <= Cardinality(Received(e.id))
  BY DEF CountInv, FrameCovered
<1>3. rfqs[x] \in Entity /\ rfqs[x].count \in Nat /\ rfqs[x].count <= Cardinality(Received(x))
  BY DEF TypeOK, Entity, CountInv, RowsCovered
<1>4. CASE x = e.id
  <2>1. rfqs'[x] = Flush(e, requests[r].columns, rfqs[x])
    BY <1>1, <1>4 DEF TypeOK
  <2>2. rfqs'[x].count \in {e.count, rfqs[x].count}
    BY <1>1, <1>3, <2>1, FlushEntity
  <2> QED
    BY <1>1, <1>2, <1>3, <1>4, <2>2, ReceivedGrows
<1>5. CASE x # e.id
  <2>1. rfqs'[x] = rfqs[x]
    BY <1>5 DEF TypeOK
  <2> QED
    BY <1>3, <2>1, ReceivedGrows
<1> QED
  BY <1>4, <1>5

\* Initially nothing is counted.
LEMMA InitCountInv == Init => CountInv
<1> SUFFICES ASSUME Init PROVE CountInv
  OBVIOUS
<1>1. \A x \in Rfq : Received(x) = {}
  BY DEF Received, Init
<1>2. RowsCovered
  BY <1>1, FS_EmptySet DEF RowsCovered, Init
<1> QED
  BY <1>2, IdleFrame DEF CountInv, FrameCovered, FrameQuotes, Init

\* Every step preserves the count invariant.
LEMMA NextCountInv == TypeOK /\ CountInv /\ [Next]_vars => CountInv'
<1> SUFFICES ASSUME TypeOK, CountInv, [Next]_vars
             PROVE  CountInv'
  OBVIOUS
<1> USE ConstantsAssumption
<1>a. ASSUME NEW r \in Request
      PROVE  /\ requests[r] \in Frame
             /\ requests[r].quotes \subseteq Quote
             /\ \A e \in requests[r].copies :
                   /\ e \in Entity
                   /\ e.id \in Rfq
                   /\ rfqs[e.id] \in Entity
                   /\ rfqs[e.id].id = e.id
                   /\ e.count <= Cardinality(Received(e.id))
  BY DEF TypeOK, Frame, Entity, CountInv, FrameCovered
<1>c. ASSUME NEW x \in Rfq
      PROVE  /\ rfqs[x] \in Entity /\ rfqs[x].id = x
             /\ rfqs[x].count <= Cardinality(Received(rfqs[x].id))
  BY DEF TypeOK, CountInv, RowsCovered
<1>1. ASSUME NEW x \in Rfq, CreateRfq(x)
      PROVE  CountInv'
  <2>1. /\ rfqs' = [rfqs EXCEPT ![x].status = "draft"]
        /\ UNCHANGED <<quotes, requests>>
    BY <1>1 DEF CreateRfq
  <2>2. \A y \in Rfq : rfqs'[y].count = rfqs[y].count /\ Received(y)' = Received(y)
    BY <2>1 DEF TypeOK, Entity, Received
  <2>3. RowsCovered'
    BY <2>2 DEF RowsCovered, CountInv
  <2>4. \A r \in Request : FrameCovered(requests[r])' /\ FrameQuotes(r)'
    BY <2>1 DEF FrameCovered, FrameQuotes, CountInv, Received
  <2> QED
    BY <2>3, <2>4 DEF CountInv
<1>2. ASSUME NEW r \in Request, NEW x \in Rfq, Publish(r, x)
      PROVE  CountInv'
  <2> DEFINE f == [At("save", SetStatus(rfqs[x], "published")) EXCEPT !.next = "match"]
  <2>1. /\ SetStatus(rfqs[x], "published") \in Entity
        /\ FrameCovered([copies |-> {SetStatus(rfqs[x], "published")}])
    BY <1>c, SetStatusEntity DEF RfqStatus, FrameCovered
  <2>2. f \in Frame /\ f.step = "save" /\ f.quotes = {} /\ FrameCovered(f)
    BY <2>1, PublishFrame DEF FrameCovered
  <2>3. requests' = [requests EXCEPT ![r] = f] /\ UNCHANGED <<rfqs, quotes>>
    BY <1>2 DEF Publish, Begin, Continue
  <2> QED
    BY <2>2, <2>3, CountContinue
<1>3. ASSUME NEW r \in Request, NEW x \in Rfq, TriggerMatch(r, x)
      PROVE  CountInv'
  <2>1. /\ At("invite", rfqs[x]) \in Frame /\ At("invite", rfqs[x]).step = "invite"
        /\ At("invite", rfqs[x]).quotes = {}
        /\ At("invite", rfqs[x]).copies = {rfqs[x]}
    BY <1>c DEF At, Idle, Frame
  <2>2. FrameCovered(At("invite", rfqs[x]))
    BY <1>c, <2>1 DEF FrameCovered
  <2>3. requests' = [requests EXCEPT ![r] = At("invite", rfqs[x])] /\ UNCHANGED <<rfqs, quotes>>
    BY <1>3 DEF TriggerMatch, Begin, Continue
  <2> QED
    BY <2>1, <2>2, <2>3, CountContinue
<1>4. ASSUME NEW r \in Request, NEW q \in Quote, SubmitQuote(r, q)
      PROVE  CountInv'
  <2> DEFINE f == Quoting(rfqs[RfqOf[q]], q)
  <2>1. f.copies = {rfqs[RfqOf[q]]} /\ f.quotes = {q} /\ rfqs[RfqOf[q]].id = RfqOf[q]
    BY <1>c DEF Quoting, At, Idle
  <2>2. /\ requests' = [requests EXCEPT ![r] = f]
        /\ UNCHANGED <<rfqs, quotes>>
        /\ quotes[q] = "absent"
        /\ \A s \in Request : q \notin requests[s].quotes
    BY <1>4 DEF SubmitQuote, NewQuote, Begin, Continue
  <2> HIDE DEF f
  <2>3. \A s \in Request : requests'[s] = IF s = r THEN f ELSE requests[s]
    BY <2>2 DEF TypeOK
  <2>4. RowsCovered' /\ \A x : Received(x)' = Received(x)
    BY <2>2 DEF CountInv, RowsCovered, Received
  <2>5. FrameCovered(f)
    BY <1>c, <2>1 DEF FrameCovered
  <2>6. ASSUME NEW s \in Request
        PROVE  FrameCovered(requests[s])'
    BY <2>3, <2>4, <2>5 DEF CountInv, FrameCovered
  <2>7. ASSUME NEW s \in Request
        PROVE  FrameQuotes(s)'
    <3>1. CASE s = r
      BY <2>1, <2>2, <2>3, <3>1 DEF FrameQuotes
    <3>2. CASE s # r
      BY <2>1, <2>2, <2>3, <3>2 DEF FrameQuotes, CountInv
    <3> QED
      BY <3>1, <3>2
  <2> QED
    BY <2>4, <2>6, <2>7 DEF CountInv
<1>5. ASSUME NEW r \in Request, NEW q \in Quote, NEW d \in Deal, AcceptQuote(r, q, d)
      PROVE  CountInv'
  <2>1. /\ requests' = [requests EXCEPT ![r] = Accepting(q, d)]
        /\ UNCHANGED <<rfqs, quotes>>
        /\ quotes[q] # "absent"
    BY <1>5 DEF AcceptQuote, Begin, Continue
  <2>2. /\ Accepting(q, d) \in Frame /\ Accepting(q, d).step # "quote"
        /\ \A o \in Accepting(q, d).quotes : quotes[o] # "absent"
        /\ FrameCovered(Accepting(q, d))
    BY <2>1, AcceptingFrame DEF FrameCovered
  <2> QED
    BY <2>1, <2>2, CountContinue
<1>6. ASSUME NEW r \in Request, Match(r)
      PROVE  CountInv'
  <2>1. PICK e \in requests[r].copies : Continue(r, At("invite", rfqs[e.id]))
    BY <1>6 DEF Match
  <2> DEFINE f == At("invite", rfqs[e.id])
  <2>2. e.id \in Rfq
    BY <1>a
  <2>3. f \in Frame /\ f.step = "invite" /\ f.quotes = {} /\ f.copies = {rfqs[e.id]}
    BY <1>c, <2>2 DEF At, Idle, Frame
  <2>4. requests' = [requests EXCEPT ![r] = f] /\ UNCHANGED <<rfqs, quotes>>
    BY <2>1 DEF Continue
  <2> HIDE DEF f
  <2>5. FrameCovered(f)
    BY <1>c, <2>2, <2>3 DEF FrameCovered
  <2> QED
    BY <2>3, <2>4, <2>5, CountContinue
<1>7. ASSUME NEW r \in Request, NotifySuppliers(r)
      PROVE  CountInv'
  <2>1. PICK e \in requests[r].copies :
           requests' = [requests EXCEPT ![r] = At("save", SetStatus(e, "matching"))]
    BY <1>7 DEF NotifySuppliers
  <2> DEFINE c == SetStatus(e, "matching")
  <2>2. c \in Entity /\ c.count <= Cardinality(Received(c.id))
    BY <1>a, SetStatusEntity DEF RfqStatus
  <2> HIDE DEF c
  <2>3. /\ At("save", c) \in Frame /\ At("save", c).step = "save"
        /\ At("save", c).quotes = {} /\ At("save", c).copies = {c}
    BY <2>2 DEF At, Idle, Frame
  <2>4. requests' = [requests EXCEPT ![r] = At("save", c)] /\ UNCHANGED <<rfqs, quotes>>
    BY <1>7, <2>1 DEF NotifySuppliers, c
  <2>5. FrameCovered(At("save", c))
    BY <2>2, <2>3 DEF FrameCovered
  <2> QED
    BY <2>3, <2>4, <2>5, CountContinue
<1>8. ASSUME NEW r \in Request, InsertQuote(r)
      PROVE  CountInv'
  <2>1. PICK q \in requests[r].quotes, e \in requests[r].copies :
           /\ quotes' = [quotes EXCEPT ![q] = "sent"]
           /\ requests' = [requests EXCEPT ![r] = At("save", Counted(e))]
    BY <1>8 DEF InsertQuote
  <2> DEFINE f == At("save", Counted(e))
  <2>2. /\ e \in Entity /\ e.count \in Nat /\ e.id \in Rfq
        /\ e.count <= Cardinality(Received(e.id))
        /\ q \in Quote /\ quotes[q] = "absent" /\ RfqOf[q] = e.id
    BY <1>a, <1>8 DEF Entity, CountInv, FrameQuotes, InsertQuote
  <2>3. /\ f \in Frame /\ f.step = "save" /\ f.quotes = {} /\ f.copies = {Counted(e)}
    BY <2>2, CountedEntity DEF At, Idle, Frame
  <2>4. \A o \in Quote : quotes'[o] = IF o = q THEN "sent" ELSE quotes[o]
    BY <2>1 DEF TypeOK
  <2>5. \A o \in Quote : quotes[o] # "absent" => quotes'[o] # "absent"
    BY <2>4
  <2>6. \A o \in Quote : quotes[o] = "absent" /\ o \notin requests[r].quotes
                            => quotes'[o] = "absent"
    BY <2>4
  <2>7. RowsCovered'
    <3> SUFFICES ASSUME NEW x \in Rfq
                 PROVE  rfqs'[x].count <= Cardinality(Received(x)')
      BY DEF RowsCovered
    <3>1. rfqs'[x] = rfqs[x]
      BY <1>8 DEF InsertQuote
    <3>2. rfqs[x].count \in Nat /\ rfqs[x].count <= Cardinality(Received(x))
      BY <1>c DEF Entity
    <3> QED
      BY <2>5, <3>1, <3>2, ReceivedGrows
  <2>8. Cardinality(Received(e.id)') = Cardinality(Received(e.id)) + 1
    <3>1. Received(e.id)' = Received(e.id) \cup {q} /\ q \notin Received(e.id)
      BY <2>2, <2>4 DEF Received
    <3>2. IsFiniteSet(Received(e.id))
      <4>1. Received(e.id) \in SUBSET Quote
        BY DEF Received
      <4> QED
        BY <4>1, FS_Subset
    <3> QED
      BY <3>1, <3>2, FS_AddElement
  <2>9. \A c \in f.copies : c.count <= Cardinality(Received(c.id)')
    <3>1. Cardinality(Received(e.id)) \in Nat
      BY <2>2, <2>5, ReceivedGrows
    <3>2. Counted(e).id = e.id /\ Counted(e).count = e.count + 1
      BY <2>2, CountedEntity
    <3>3. Counted(e).count <= Cardinality(Received(Counted(e).id)')
      BY <2>2, <2>8, <3>1, <3>2
    <3> QED
      BY <2>3, <3>3
  <2> HIDE DEF f
  <2>10. requests' = [requests EXCEPT ![r] = f]
    BY <2>1 DEF f
  <2> QED
    BY <2>3, <2>5, <2>6, <2>7, <2>9, <2>10, CountStep
<1>9. ASSUME NEW r \in Request, SaveCompare(r)
      PROVE  CountInv'
  <2>1. PICK e \in requests[r].copies :
           \/ Continue(r, Saved(r))
           \/ Continue(r, [requests[r] EXCEPT !.step = "update",
                                              !.columns = Dirty(e, rfqs[e.id])])
    BY <1>9 DEF SaveCompare
  <2> DEFINE f == [requests[r] EXCEPT !.step = "update", !.columns = Dirty(e, rfqs[e.id])]
  <2>2. Dirty(e, rfqs[e.id]) \in SUBSET Columns
    BY <1>a, DirtyColumns
  <2>3. /\ f \in Frame /\ f.step = "update"
        /\ f.quotes = requests[r].quotes /\ f.copies = requests[r].copies
    BY <1>a, <2>2 DEF Frame
  <2>4. /\ Saved(r) \in Frame /\ Saved(r).step # "quote" /\ Saved(r).quotes = {}
        /\ Saved(r).copies \subseteq requests[r].copies
    BY <1>a, SavedFrame
  <2> HIDE DEF f
  <2>5. FrameCovered(f) /\ FrameCovered(Saved(r))
    BY <2>3, <2>4 DEF FrameCovered, CountInv
  <2>6. \/ requests' = [requests EXCEPT ![r] = f]
        \/ requests' = [requests EXCEPT ![r] = Saved(r)]
    BY <2>1 DEF Continue, f
  <2>7. UNCHANGED <<rfqs, quotes>>
    BY <2>1 DEF Continue
  <2> QED
    BY <2>3, <2>4, <2>5, <2>6, <2>7, CountContinue
<1>10. ASSUME NEW r \in Request, SaveUpdate(r)
       PROVE  CountInv'
  <2>1. PICK e \in requests[r].copies :
           rfqs' = [rfqs EXCEPT ![e.id] = Flush(e, requests[r].columns, @)]
    BY <1>10 DEF SaveUpdate
  <2>2. quotes' = quotes /\ requests' = [requests EXCEPT ![r] = Saved(r)]
    BY <1>10 DEF SaveUpdate
  <2>3. RowsCovered'
    BY <2>1, <2>2, FlushCovered
  <2>4. /\ Saved(r) \in Frame /\ Saved(r).step # "quote" /\ Saved(r).quotes = {}
        /\ Saved(r).copies \subseteq requests[r].copies
    BY <1>a, SavedFrame
  <2>5. \A x : Received(x)' = Received(x)
    BY <2>2 DEF Received
  <2>6. \A c \in Saved(r).copies : c.count <= Cardinality(Received(c.id)')
    BY <1>a, <2>4, <2>5
  <2> QED
    BY <2>2, <2>3, <2>4, <2>6, CountStep
<1>11. ASSUME NEW r \in Request, AwardCompare(r)
       PROVE  CountInv'
  <2>1. PICK e \in requests[r].copies :
           Continue(r, [requests[r] EXCEPT !.step = "lock",
                                           !.columns = Dirty(e, rfqs[e.id])])
    BY <1>11 DEF AwardCompare
  <2> DEFINE f == [requests[r] EXCEPT !.step = "lock", !.columns = Dirty(e, rfqs[e.id])]
  <2>2. Dirty(e, rfqs[e.id]) \in SUBSET Columns
    BY <1>a, DirtyColumns
  <2>3. /\ f \in Frame /\ f.step = "lock"
        /\ f.quotes = requests[r].quotes /\ f.copies = requests[r].copies
    BY <1>a, <2>2 DEF Frame
  <2>4. requests' = [requests EXCEPT ![r] = f] /\ UNCHANGED <<rfqs, quotes>>
    BY <2>1 DEF Continue
  <2> HIDE DEF f
  <2>5. FrameCovered(f)
    BY <2>3 DEF FrameCovered, CountInv
  <2> QED
    BY <2>3, <2>4, <2>5, CountContinue
<1>12. ASSUME NEW r \in Request, AwardLock(r) \/ AnnounceDeal(r)
       PROVE  CountInv'
  <2>1. PICK step \in {"announce", "commit"} :
           requests' = [requests EXCEPT ![r] = [requests[r] EXCEPT !.step = step]]
    <3>1. CASE AwardLock(r)
      BY <3>1 DEF AwardLock, Continue
    <3>2. CASE AnnounceDeal(r)
      BY <3>2 DEF AnnounceDeal
    <3> QED
      BY <1>12, <3>1, <3>2
  <2> DEFINE f == [requests[r] EXCEPT !.step = step]
  <2>2. /\ f \in Frame /\ f.step = step
        /\ f.quotes = requests[r].quotes /\ f.copies = requests[r].copies
    BY <1>a DEF Frame
  <2>3. requests' = [requests EXCEPT ![r] = f]
    BY <2>1
  <2>4. UNCHANGED <<rfqs, quotes>>
    BY <1>12 DEF AwardLock, AnnounceDeal, Continue
  <2> HIDE DEF f
  <2>5. FrameCovered(f)
    BY <2>2 DEF FrameCovered, CountInv
  <2> QED
    BY <2>2, <2>3, <2>4, <2>5, CountContinue
<1>13. ASSUME NEW r \in Request, Commit(r)
       PROVE  CountInv'
  <2>1. PICK q \in requests[r].quotes, d \in requests[r].deals, e \in requests[r].copies :
           /\ rfqs' = [rfqs EXCEPT ![e.id] = Flush(e, requests[r].columns, @)]
           /\ quotes' = Accepted(e.id, q)
           /\ deals' = deals \cup {[id |-> d, quote |-> q]}
    BY <1>13, Zenon DEF Commit
  <2>2. q \in Quote /\ e.id \in Rfq
    BY <1>a
  <2>3. \A o \in Quote : quotes'[o] = IF o = q THEN "accepted" ELSE quotes[o]
    BY <2>1, <2>2, AcceptedQuotes DEF TypeOK
  <2>4. \A o \in Quote : quotes[o] # "absent" => quotes'[o] # "absent"
    BY <2>3
  <2>5. \A o \in Quote : quotes[o] = "absent" /\ o \notin requests[r].quotes
                            => quotes'[o] = "absent"
    BY <2>3
  <2>6. RowsCovered'
    BY <2>1, <2>4, FlushCovered
  <2>7. requests' = [requests EXCEPT ![r] = Idle]
    BY <1>13 DEF Commit
  <2> QED
    BY <2>4, <2>5, <2>6, <2>7, IdleFrame, CountStep
<1>14. ASSUME NEW r \in Request, Timeout(r) \/ Fail(r)
       PROVE  CountInv'
  <2>1. requests' = [requests EXCEPT ![r] = Idle] /\ UNCHANGED <<rfqs, quotes>>
    BY <1>14 DEF Timeout, Fail, Continue
  <2>2. FrameCovered(Idle)
    BY IdleFrame DEF FrameCovered
  <2> QED
    BY <2>1, <2>2, IdleFrame, CountContinue
<1>15. ASSUME NEW r \in Request, ReadQuote(r)
       PROVE  CountInv'
  <2>1. PICK q \in requests[r].quotes, d \in requests[r].deals :
           Continue(r, Awarding(SetStatus(rfqs[RfqOf[q]], "awarded"), q, d))
    BY <1>15 DEF ReadQuote
  <2> DEFINE e == SetStatus(rfqs[RfqOf[q]], "awarded")
  <2>2. q \in Quote /\ d \in Deal
    BY <1>a DEF Frame
  <2>3. e \in Entity /\ e.count <= Cardinality(Received(e.id))
    BY <1>c, <2>2, SetStatusEntity DEF RfqStatus
  <2>4. requests' = [requests EXCEPT ![r] = Awarding(e, q, d)] /\ UNCHANGED <<rfqs, quotes>>
    BY <2>1 DEF Continue
  <2> HIDE DEF e
  <2>5. /\ Awarding(e, q, d) \in Frame /\ Awarding(e, q, d).step = "award"
        /\ Awarding(e, q, d).quotes = {q} /\ FrameCovered(Awarding(e, q, d))
    BY <2>2, <2>3, NewFrames DEF FrameCovered
  <2> QED
    BY <2>4, <2>5, CountContinue
<1>16. CASE UNCHANGED vars
  <2>1. UNCHANGED <<rfqs, quotes, requests>>
    BY <1>16 DEF vars
  <2>2. \A x : Received(x)' = Received(x)
    BY <2>1 DEF Received
  <2> QED
    BY <2>1, <2>2 DEF CountInv, RowsCovered, FrameCovered, FrameQuotes
<1> QED
  BY <1>1, <1>2, <1>3, <1>4, <1>5, <1>6, <1>7, <1>8, <1>9, <1>10, <1>11, <1>12,
     <1>13, <1>14, <1>15, <1>16 DEF Next

\* No RFQ ever counts more quotations than were received for it, however the
\* saves of old copies interleave and whichever handlers fail.
THEOREM RfqsCountedReceived == Spec => []CountedReceived
<1>1. Init => TypeOK /\ CountInv
  BY InitTypeOK, InitCountInv
<1>2. TypeOK /\ CountInv /\ [Next]_vars => TypeOK' /\ CountInv'
  BY NextTypeOK, NextCountInv
<1>3. CountInv => CountedReceived
  BY DEF CountInv, RowsCovered, CountedReceived
<1> QED
  BY <1>1, <1>2, <1>3, PTL DEF Spec

-----------------------------------------------------------------------------
(* Deals, acceptances and notifications agree.                             *)

\* A step that neither accepts a quotation nor makes a deal, and that enters
\* the commit step only with its deal announced.
LEMMA AwardStep ==
    ASSUME TypeOK, AwardInv, NEW r \in Request, NEW f,
           requests' = [requests EXCEPT ![r] = f],
           UNCHANGED <<quotes, deals>>,
           announced \subseteq announced',
           f.step = "commit" => f.deals \subseteq announced'
    PROVE  AwardInv'
<1>1. AcceptedHaveDeals'
  BY DEF AwardInv, AcceptedHaveDeals
<1>2. DealsAnnounced'
  BY DEF AwardInv, DealsAnnounced
<1>3. ASSUME NEW s \in Request, requests'[s].step = "commit"
      PROVE  requests'[s].deals \subseteq announced'
  <2>1. requests'[s] = IF s = r THEN f ELSE requests[s]
    BY DEF TypeOK
  <2> QED
    BY <1>3, <2>1 DEF AwardInv
<1> QED
  BY <1>1, <1>2, <1>3 DEF AwardInv

\* Every step preserves the award invariant. A quotation is inserted only
\* when it is new (CountInv), so never over an accepted one.
LEMMA NextAwardInv == TypeOK /\ CountInv /\ AwardInv /\ [Next]_vars => AwardInv'
<1> SUFFICES ASSUME TypeOK, CountInv, AwardInv, [Next]_vars
             PROVE  AwardInv'
  OBVIOUS
<1> USE ConstantsAssumption
<1>1. ASSUME NEW x \in Rfq, CreateRfq(x)
      PROVE  AwardInv'
  BY <1>1 DEF CreateRfq, AwardInv, AcceptedHaveDeals, DealsAnnounced
<1>2. ASSUME NEW r \in Request, NEW f, Begin(r, f) \/ Continue(r, f), f.step # "commit"
      PROVE  AwardInv'
  BY <1>2, AwardStep DEF Begin, Continue
<1>3. ASSUME NEW r \in Request, NEW x \in Rfq, Publish(r, x)
      PROVE  AwardInv'
  <2>1. [At("save", SetStatus(rfqs[x], "published")) EXCEPT !.next = "match"].step # "commit"
    BY DEF At, Idle
  <2> QED
    BY <1>2, <1>3, <2>1 DEF Publish
<1>4. ASSUME NEW r \in Request, NEW x \in Rfq, TriggerMatch(r, x)
      PROVE  AwardInv'
  <2>1. At("invite", rfqs[x]).step # "commit"
    BY DEF At, Idle
  <2> QED
    BY <1>2, <1>4, <2>1 DEF TriggerMatch
<1>5. ASSUME NEW r \in Request, NEW q \in Quote, SubmitQuote(r, q)
      PROVE  AwardInv'
  <2>1. Quoting(rfqs[RfqOf[q]], q).step # "commit"
    BY DEF Quoting, At, Idle
  <2> QED
    BY <1>2, <1>5, <2>1 DEF SubmitQuote
<1>6. ASSUME NEW r \in Request, NEW q \in Quote, NEW d \in Deal, AcceptQuote(r, q, d)
      PROVE  AwardInv'
  BY <1>2, <1>6, AcceptingFrame DEF AcceptQuote
<1>7. ASSUME NEW r \in Request, Match(r)
      PROVE  AwardInv'
  <2>1. PICK e \in requests[r].copies : Continue(r, At("invite", rfqs[e.id]))
    BY <1>7 DEF Match
  <2>2. At("invite", rfqs[e.id]).step # "commit"
    BY DEF At, Idle
  <2> QED
    BY <1>2, <2>1, <2>2
<1>8. ASSUME NEW r \in Request, NotifySuppliers(r)
      PROVE  AwardInv'
  <2>1. PICK e \in requests[r].copies :
           requests' = [requests EXCEPT ![r] = At("save", SetStatus(e, "matching"))]
    BY <1>8 DEF NotifySuppliers
  <2>2. At("save", SetStatus(e, "matching")).step # "commit"
    BY DEF At, Idle
  <2>3. UNCHANGED <<quotes, deals, announced>>
    BY <1>8 DEF NotifySuppliers
  <2> QED
    BY <2>1, <2>2, <2>3, AwardStep
<1>9. ASSUME NEW r \in Request, InsertQuote(r)
      PROVE  AwardInv'
  <2>1. PICK q \in requests[r].quotes, e \in requests[r].copies :
           /\ quotes' = [quotes EXCEPT ![q] = "sent"]
           /\ requests' = [requests EXCEPT ![r] = At("save", Counted(e))]
    BY <1>9 DEF InsertQuote
  <2>2. q \in Quote /\ quotes[q] = "absent"
    BY <1>9 DEF InsertQuote, TypeOK, Frame, CountInv, FrameQuotes
  <2>3. \A o \in Quote : quotes'[o] = IF o = q THEN "sent" ELSE quotes[o]
    BY <2>1 DEF TypeOK
  <2>4. UNCHANGED <<deals, announced>>
    BY <1>9 DEF InsertQuote
  <2>5. \A o \in Quote : quotes'[o] = "accepted" <=> quotes[o] = "accepted"
    BY <2>2, <2>3
  <2>6. AcceptedHaveDeals'
    BY <2>4, <2>5 DEF AwardInv, AcceptedHaveDeals
  <2>7. DealsAnnounced'
    BY <2>4 DEF AwardInv, DealsAnnounced
  <2>8. ASSUME NEW s \in Request, requests'[s].step = "commit"
        PROVE  requests'[s].deals \subseteq announced'
    <3>1. At("save", Counted(e)).step # "commit"
      BY DEF At, Idle
    <3>2. requests'[s] = IF s = r THEN At("save", Counted(e)) ELSE requests[s]
      BY <2>1 DEF TypeOK
    <3> QED
      BY <2>4, <2>8, <3>1, <3>2 DEF AwardInv
  <2> QED
    BY <2>6, <2>7, <2>8 DEF AwardInv
<1>10. ASSUME NEW r \in Request, SaveCompare(r)
       PROVE  AwardInv'
  <2>1. PICK e \in requests[r].copies :
           \/ Continue(r, Saved(r))
           \/ Continue(r, [requests[r] EXCEPT !.step = "update",
                                              !.columns = Dirty(e, rfqs[e.id])])
    BY <1>10 DEF SaveCompare
  <2>2. requests[r] \in Frame
    BY DEF TypeOK
  <2>3. Saved(r).step # "commit"
    BY <2>2, SavedFrame
  <2>4. [requests[r] EXCEPT !.step = "update",
                            !.columns = Dirty(e, rfqs[e.id])].step # "commit"
    BY <2>2 DEF Frame
  <2> QED
    BY <1>2, <2>1, <2>3, <2>4
<1>11. ASSUME NEW r \in Request, SaveUpdate(r)
       PROVE  AwardInv'
  <2>1. Saved(r).step # "commit"
    BY SavedFrame DEF TypeOK
  <2>2. /\ requests' = [requests EXCEPT ![r] = Saved(r)]
        /\ UNCHANGED <<quotes, deals, announced>>
    BY <1>11 DEF SaveUpdate
  <2> QED
    BY <2>1, <2>2, AwardStep
<1>12. ASSUME NEW r \in Request, AwardCompare(r)
       PROVE  AwardInv'
  <2>1. PICK e \in requests[r].copies :
           Continue(r, [requests[r] EXCEPT !.step = "lock",
                                           !.columns = Dirty(e, rfqs[e.id])])
    BY <1>12 DEF AwardCompare
  <2>2. requests[r] \in Frame
    BY DEF TypeOK
  <2>3. [requests[r] EXCEPT !.step = "lock",
                            !.columns = Dirty(e, rfqs[e.id])].step # "commit"
    BY <2>2 DEF Frame
  <2> QED
    BY <1>2, <2>1, <2>3
<1>13. ASSUME NEW r \in Request, AwardLock(r)
       PROVE  AwardInv'
  <2>1. Continue(r, [requests[r] EXCEPT !.step = "announce"])
    BY <1>13 DEF AwardLock
  <2>2. requests[r] \in Frame
    BY DEF TypeOK
  <2>3. [requests[r] EXCEPT !.step = "announce"].step # "commit"
    BY <2>2 DEF Frame
  <2> QED
    BY <1>2, <2>1, <2>3
<1>14. ASSUME NEW r \in Request, AnnounceDeal(r)
       PROVE  AwardInv'
  <2> DEFINE f == [requests[r] EXCEPT !.step = "commit"]
  <2>1. /\ requests' = [requests EXCEPT ![r] = f]
        /\ announced' = announced \cup requests[r].deals
        /\ UNCHANGED <<quotes, deals>>
    BY <1>14 DEF AnnounceDeal
  <2>2. requests[r] \in Frame
    BY DEF TypeOK
  <2>3. f.deals = requests[r].deals
    BY <2>2 DEF Frame
  <2> HIDE DEF f
  <2> QED
    BY <2>1, <2>3, AwardStep
<1>15. ASSUME NEW r \in Request, Commit(r)
       PROVE  AwardInv'
  <2>1. PICK q \in requests[r].quotes, d \in requests[r].deals, e \in requests[r].copies :
           /\ rfqs' = [rfqs EXCEPT ![e.id] = Flush(e, requests[r].columns, @)]
           /\ quotes' = Accepted(e.id, q)
           /\ deals' = deals \cup {[id |-> d, quote |-> q]}
    BY <1>15, Zenon DEF Commit
  <2>2. q \in Quote /\ e.id \in Rfq
    BY DEF TypeOK, Frame, Entity
  <2>3. \A o \in Quote : quotes'[o] = IF o = q THEN "accepted" ELSE quotes[o]
    BY <2>1, <2>2, AcceptedQuotes DEF TypeOK
  <2>4. requests' = [requests EXCEPT ![r] = Idle] /\ announced' = announced
    BY <1>15 DEF Commit
  <2>5. requests[r].deals \subseteq announced
    BY <1>15 DEF Commit, AwardInv
  <2>6. AcceptedHaveDeals'
    <3> DEFINE new == [id |-> d, quote |-> q]
    <3>1. new.quote = q
      OBVIOUS
    <3> HIDE DEF new
    <3>2. deals' = deals \cup {new}
      BY <2>1 DEF new
    <3>3. ASSUME NEW o \in Quote
          PROVE  (\E c \in deals' : c.quote = o) <=> (o = q \/ \E c \in deals : c.quote = o)
      BY <3>1, <3>2
    <3>4. ASSUME NEW o \in Quote
          PROVE  quotes'[o] = "accepted" <=> (o = q \/ quotes[o] = "accepted")
      BY <2>3
    <3> QED
      BY <3>3, <3>4 DEF AwardInv, AcceptedHaveDeals
  <2>7. DealsAnnounced'
    BY <2>1, <2>4, <2>5 DEF AwardInv, DealsAnnounced
  <2>8. ASSUME NEW s \in Request, requests'[s].step = "commit"
        PROVE  requests'[s].deals \subseteq announced'
    <3>1. requests'[s] = IF s = r THEN Idle ELSE requests[s]
      BY <2>4 DEF TypeOK
    <3> QED
      BY <2>4, <2>8, <3>1, IdleFrame DEF AwardInv
  <2> QED
    BY <2>6, <2>7, <2>8 DEF AwardInv
<1>16. ASSUME NEW r \in Request, Timeout(r) \/ Fail(r)
       PROVE  AwardInv'
  BY <1>2, <1>16, IdleFrame DEF Timeout, Fail
<1>17. ASSUME NEW r \in Request, ReadQuote(r)
       PROVE  AwardInv'
  <2>1. PICK q \in requests[r].quotes, d \in requests[r].deals :
           Continue(r, Awarding(SetStatus(rfqs[RfqOf[q]], "awarded"), q, d))
    BY <1>17 DEF ReadQuote
  <2>2. Awarding(SetStatus(rfqs[RfqOf[q]], "awarded"), q, d).step # "commit"
    BY DEF Awarding, At, Idle
  <2> QED
    BY <1>2, <2>1, <2>2
<1>18. CASE UNCHANGED vars
  BY <1>18 DEF vars, AwardInv, AcceptedHaveDeals, DealsAnnounced
<1> QED
  BY <1>1, <1>3, <1>4, <1>5, <1>6, <1>7, <1>8, <1>9, <1>10, <1>11, <1>12,
     <1>13, <1>14, <1>15, <1>16, <1>17, <1>18 DEF Next

\* Initially there is no quotation and no deal.
LEMMA InitAwardInv == Init => AwardInv
  BY IdleFrame DEF Init, AwardInv, AcceptedHaveDeals, DealsAnnounced

\* A quotation is accepted exactly if a deal was made from it.
THEOREM RfqsAcceptedHaveDeals == Spec => []AcceptedHaveDeals
<1>1. Init => TypeOK /\ CountInv /\ AwardInv
  BY InitTypeOK, InitCountInv, InitAwardInv
<1>2. TypeOK /\ CountInv /\ AwardInv /\ [Next]_vars => TypeOK' /\ CountInv' /\ AwardInv'
  BY NextTypeOK, NextCountInv, NextAwardInv
<1>3. AwardInv => AcceptedHaveDeals
  BY DEF AwardInv
<1> QED
  BY <1>1, <1>2, <1>3, PTL DEF Spec

\* No deal is made whose parties have not been notified.
THEOREM RfqsDealsAnnounced == Spec => []DealsAnnounced
<1>1. Init => TypeOK /\ CountInv /\ AwardInv
  BY InitTypeOK, InitCountInv, InitAwardInv
<1>2. TypeOK /\ CountInv /\ AwardInv /\ [Next]_vars => TypeOK' /\ CountInv' /\ AwardInv'
  BY NextTypeOK, NextCountInv, NextAwardInv
<1>3. AwardInv => DealsAnnounced
  BY DEF AwardInv
<1> QED
  BY <1>1, <1>2, <1>3, PTL DEF Spec

-----------------------------------------------------------------------------
(* Quotations come after publication.                                      *)

\* A step of one handler that closes no RFQ again, and whose new quotations
\* are those the handler had picked.
LEMMA PublishedStep ==
    ASSUME TypeOK, PublishedInv, NEW r \in Request, NEW f \in Frame,
           requests' = [requests EXCEPT ![r] = f],
           FramePublished(f),
           \A x \in Rfq : Open(x) => Open(x)',
           \A q \in Quote : quotes'[q] # "absent" =>
              quotes[q] # "absent" \/ q \in requests[r].quotes
    PROVE  PublishedInv'
<1> USE ConstantsAssumption
<1>1. QuotedOnlyOncePublished'
  <2> SUFFICES ASSUME NEW q \in Quote, quotes'[q] # "absent"
               PROVE  Open(RfqOf[q])'
    BY DEF QuotedOnlyOncePublished, Open
  <2>1. Open(RfqOf[q])
    BY DEF PublishedInv, QuotedOnlyOncePublished, FramePublished, Open
  <2> QED
    BY <2>1
<1>2. ASSUME NEW s \in Request
      PROVE  FramePublished(requests[s])'
  <2>1. requests'[s] = IF s = r THEN f ELSE requests[s]
    BY DEF TypeOK
  <2>2. requests'[s] \in Frame /\ FramePublished(requests'[s])
    BY <2>1 DEF TypeOK, PublishedInv
  <2>3. requests'[s].quotes \subseteq Quote
    BY <2>2 DEF Frame
  <2>4. \A q \in requests'[s].quotes : Open(RfqOf[q])'
    BY <2>2, <2>3 DEF FramePublished
  <2> QED
    BY <2>2, <2>4 DEF FramePublished
<1> QED
  BY <1>1, <1>2 DEF PublishedInv

\* Saving a copy of an open RFQ closes none.
LEMMA FlushOpen ==
    ASSUME TypeOK, NEW e \in Entity, e.status \notin {"absent", "draft"}, NEW D,
           rfqs' = [rfqs EXCEPT ![e.id] = Flush(e, D, @)]
    PROVE  \A x \in Rfq : Open(x) => Open(x)'
<1> SUFFICES ASSUME NEW x \in Rfq, Open(x)
             PROVE  Open(x)'
  OBVIOUS
<1>1. CASE x = e.id
  <2>1. rfqs'[x] = Flush(e, D, rfqs[x]) /\ rfqs[x] \in Entity
    BY <1>1 DEF TypeOK
  <2>2. rfqs'[x].status \in {e.status, rfqs[x].status}
    BY <2>1, FlushEntity
  <2> QED
    BY <2>2 DEF Open
<1>2. CASE x # e.id
  <2>1. rfqs'[x] = rfqs[x]
    BY <1>2 DEF TypeOK
  <2> QED
    BY <2>1 DEF Open
<1> QED
  BY <1>1, <1>2

\* Every step preserves the invariant.
LEMMA NextPublishedInv == TypeOK /\ PublishedInv /\ [Next]_vars => PublishedInv'
<1> SUFFICES ASSUME TypeOK, PublishedInv, [Next]_vars
             PROVE  PublishedInv'
  OBVIOUS
<1> USE ConstantsAssumption
<1>a. ASSUME NEW r \in Request
      PROVE  /\ requests[r] \in Frame
             /\ FramePublished(requests[r])
             /\ requests[r].quotes \subseteq Quote
             /\ requests[r].deals \subseteq Deal
             /\ \A e \in requests[r].copies :
                   e \in Entity /\ e.id \in Rfq /\ rfqs[e.id] \in Entity
  BY DEF TypeOK, Frame, Entity, PublishedInv
<1>b. ASSUME NEW r \in Request, NEW f \in Frame, Begin(r, f) \/ Continue(r, f),
             FramePublished(f)
      PROVE  PublishedInv'
  <2>1. requests' = [requests EXCEPT ![r] = f] /\ UNCHANGED <<rfqs, quotes>>
    BY <1>b DEF Begin, Continue
  <2>2. \A x \in Rfq : Open(x) => Open(x)'
    BY <2>1 DEF Open
  <2> QED
    BY <1>b, <2>1, <2>2, PublishedStep
<1>1. ASSUME NEW x \in Rfq, CreateRfq(x)
      PROVE  PublishedInv'
  <2>1. /\ rfqs[x].status = "absent"
        /\ rfqs' = [rfqs EXCEPT ![x].status = "draft"]
        /\ UNCHANGED <<quotes, requests>>
    BY <1>1 DEF CreateRfq, Exists
  <2>2. \A y \in Rfq : Open(y) => Open(y)'
    BY <2>1 DEF TypeOK, Open
  <2>3. QuotedOnlyOncePublished'
    BY <2>1, <2>2 DEF PublishedInv, QuotedOnlyOncePublished, Open
  <2>4. \A r \in Request : FramePublished(requests[r])'
    BY <1>a, <2>1, <2>2 DEF FramePublished
  <2> QED
    BY <2>3, <2>4 DEF PublishedInv
<1>2. ASSUME NEW r \in Request, NEW x \in Rfq, Publish(r, x)
      PROVE  PublishedInv'
  <2> DEFINE f == [At("save", SetStatus(rfqs[x], "published")) EXCEPT !.next = "match"]
  <2>1. /\ SetStatus(rfqs[x], "published") \in Entity
        /\ SetStatus(rfqs[x], "published").status = "published"
    BY SetStatusEntity DEF RfqStatus, TypeOK
  <2>2. f \in Frame /\ f.quotes = {} /\ f.copies = {SetStatus(rfqs[x], "published")}
    BY <2>1, PublishFrame
  <2>3. Begin(r, f)
    BY <1>2 DEF Publish
  <2> HIDE DEF f
  <2>4. FramePublished(f)
    BY <2>1, <2>2 DEF FramePublished
  <2> QED
    BY <1>b, <2>2, <2>3, <2>4
<1>3. ASSUME NEW r \in Request, NEW e \in Entity,
             Begin(r, At("invite", e)) \/ Continue(r, At("invite", e))
      PROVE  PublishedInv'
  <2>1. /\ At("invite", e) \in Frame /\ At("invite", e).step = "invite"
        /\ At("invite", e).quotes = {}
    BY DEF At, Idle, Frame
  <2>2. FramePublished(At("invite", e))
    BY <2>1 DEF FramePublished
  <2> QED
    BY <1>3, <1>b, <2>1, <2>2
<1>4. ASSUME NEW r \in Request, NEW x \in Rfq, TriggerMatch(r, x)
      PROVE  PublishedInv'
  BY <1>3, <1>4 DEF TriggerMatch, TypeOK
<1>5. ASSUME NEW r \in Request, NEW q \in Quote, SubmitQuote(r, q)
      PROVE  PublishedInv'
  <2> DEFINE f == Quoting(rfqs[RfqOf[q]], q)
  <2>1. rfqs[RfqOf[q]] \in Entity
    BY DEF TypeOK
  <2>2. f \in Frame
    BY <2>1, QuotingFrame
  <2>3. f.quotes = {q} /\ f.copies = {rfqs[RfqOf[q]]}
    BY DEF Quoting, At, Idle
  <2>4. rfqs[RfqOf[q]].status = "published" /\ Begin(r, f)
    BY <1>5 DEF SubmitQuote
  <2> HIDE DEF f
  <2>5. FramePublished(f)
    BY <2>3, <2>4 DEF FramePublished, Open
  <2> QED
    BY <1>b, <2>2, <2>4, <2>5
<1>6. ASSUME NEW r \in Request, NEW q \in Quote, NEW d \in Deal, AcceptQuote(r, q, d)
      PROVE  PublishedInv'
  <2>1. quotes[q] # "absent" /\ Begin(r, Accepting(q, d))
    BY <1>6 DEF AcceptQuote
  <2>2. Open(RfqOf[q])
    BY <2>1 DEF PublishedInv, QuotedOnlyOncePublished, Open
  <2>3. FramePublished(Accepting(q, d))
    BY <2>2, AcceptingFrame DEF FramePublished
  <2> QED
    BY <1>b, <2>1, <2>3, AcceptingFrame
<1>7. ASSUME NEW r \in Request, ReadQuote(r)
      PROVE  PublishedInv'
  <2>1. PICK q \in requests[r].quotes, d \in requests[r].deals :
           Continue(r, Awarding(SetStatus(rfqs[RfqOf[q]], "awarded"), q, d))
    BY <1>7 DEF ReadQuote
  <2> DEFINE e == SetStatus(rfqs[RfqOf[q]], "awarded")
  <2>2. q \in Quote /\ d \in Deal /\ Open(RfqOf[q])
    BY <1>a DEF FramePublished
  <2>3. e \in Entity /\ e.status = "awarded"
    BY <2>2, SetStatusEntity DEF RfqStatus, TypeOK
  <2>4. Continue(r, Awarding(e, q, d))
    BY <2>1
  <2> HIDE DEF e
  <2>5. /\ Awarding(e, q, d) \in Frame /\ Awarding(e, q, d).quotes = {q}
        /\ Awarding(e, q, d).copies = {e}
    BY <2>2, <2>3, NewFrames
  <2>6. FramePublished(Awarding(e, q, d))
    BY <2>2, <2>3, <2>5 DEF FramePublished
  <2> QED
    BY <1>b, <2>4, <2>5, <2>6
<1>8. ASSUME NEW r \in Request, Match(r)
      PROVE  PublishedInv'
  <2>1. PICK e \in requests[r].copies : Continue(r, At("invite", rfqs[e.id]))
    BY <1>8 DEF Match
  <2> QED
    BY <1>3, <1>a, <2>1
<1>9. ASSUME NEW r \in Request, NotifySuppliers(r)
      PROVE  PublishedInv'
  <2>1. PICK e \in requests[r].copies :
           requests' = [requests EXCEPT ![r] = At("save", SetStatus(e, "matching"))]
    BY <1>9 DEF NotifySuppliers
  <2> DEFINE c == SetStatus(e, "matching")
  <2>2. c \in Entity /\ c.status = "matching"
    BY <1>a, SetStatusEntity DEF RfqStatus
  <2> HIDE DEF c
  <2>3. At("save", c) \in Frame /\ At("save", c).quotes = {} /\ At("save", c).copies = {c}
    BY <2>2 DEF At, Idle, Frame
  <2>4. requests' = [requests EXCEPT ![r] = At("save", c)] /\ UNCHANGED <<rfqs, quotes>>
    BY <1>9, <2>1 DEF NotifySuppliers, c
  <2>5. FramePublished(At("save", c)) /\ \A x \in Rfq : Open(x) => Open(x)'
    BY <2>2, <2>3, <2>4 DEF FramePublished, Open
  <2> QED
    BY <2>3, <2>4, <2>5, PublishedStep
<1>10. ASSUME NEW r \in Request, InsertQuote(r)
       PROVE  PublishedInv'
  <2>1. PICK q \in requests[r].quotes, e \in requests[r].copies :
           /\ quotes' = [quotes EXCEPT ![q] = "sent"]
           /\ requests' = [requests EXCEPT ![r] = At("save", Counted(e))]
    BY <1>10 DEF InsertQuote
  <2>2. e \in Entity /\ e.status \notin {"absent", "draft"}
    BY <1>10, <1>a DEF InsertQuote, FramePublished
  <2>3. /\ Counted(e).status \notin {"absent", "draft"}
        /\ At("save", Counted(e)) \in Frame
        /\ At("save", Counted(e)).quotes = {}
        /\ At("save", Counted(e)).copies = {Counted(e)}
    BY <2>2, CountedEntity DEF At, Idle, Frame
  <2>4. FramePublished(At("save", Counted(e)))
    BY <2>3 DEF FramePublished
  <2>5. rfqs' = rfqs
    BY <1>10 DEF InsertQuote
  <2>6. \A x \in Rfq : Open(x) => Open(x)'
    BY <2>5 DEF Open
  <2>7. \A o \in Quote : quotes'[o] # "absent" =>
           quotes[o] # "absent" \/ o \in requests[r].quotes
    BY <2>1 DEF TypeOK
  <2> QED
    BY <2>1, <2>3, <2>4, <2>6, <2>7, PublishedStep
<1>11. ASSUME NEW r \in Request, NEW f \in Frame, Begin(r, f) \/ Continue(r, f),
              requests[r].step \notin {"match", "invite"},
              f.quotes \subseteq requests[r].quotes,
              f.copies \subseteq requests[r].copies
       PROVE  PublishedInv'
  <2>1. FramePublished(f)
    BY <1>11, <1>a DEF FramePublished
  <2> QED
    BY <1>11, <1>b, <2>1
<1>12. ASSUME NEW r \in Request, SaveCompare(r)
       PROVE  PublishedInv'
  <2>1. PICK e \in requests[r].copies :
           \/ Continue(r, Saved(r))
           \/ Continue(r, [requests[r] EXCEPT !.step = "update",
                                              !.columns = Dirty(e, rfqs[e.id])])
    BY <1>12 DEF SaveCompare
  <2> DEFINE f == [requests[r] EXCEPT !.step = "update", !.columns = Dirty(e, rfqs[e.id])]
  <2>2. Dirty(e, rfqs[e.id]) \in SUBSET Columns
    BY <1>a, DirtyColumns
  <2>3. f \in Frame /\ f.quotes = requests[r].quotes /\ f.copies = requests[r].copies
    BY <1>a, <2>2 DEF Frame
  <2>4. Continue(r, Saved(r)) \/ Continue(r, f)
    BY <2>1
  <2>5. /\ Saved(r) \in Frame /\ Saved(r).quotes = {}
        /\ Saved(r).copies \subseteq requests[r].copies
    BY <1>a, SavedFrame
  <2>6. requests[r].step \notin {"match", "invite"}
    BY <1>12 DEF SaveCompare
  <2> HIDE DEF f
  <2> QED
    BY <1>11, <2>3, <2>4, <2>5, <2>6
<1>13. ASSUME NEW r \in Request, SaveUpdate(r)
       PROVE  PublishedInv'
  <2>1. PICK e \in requests[r].copies :
           rfqs' = [rfqs EXCEPT ![e.id] = Flush(e, requests[r].columns, @)]
    BY <1>13 DEF SaveUpdate
  <2>2. /\ requests[r].step = "update" /\ quotes' = quotes
        /\ requests' = [requests EXCEPT ![r] = Saved(r)]
    BY <1>13 DEF SaveUpdate
  <2>3. \A c \in requests[r].copies : c.status \notin {"absent", "draft"}
    BY <1>a, <2>2 DEF FramePublished
  <2>4. \A x \in Rfq : Open(x) => Open(x)'
    BY <1>a, <2>1, <2>3, FlushOpen
  <2>5. /\ Saved(r) \in Frame /\ Saved(r).quotes = {}
        /\ Saved(r).copies \subseteq requests[r].copies
    BY <1>a, SavedFrame
  <2>6. FramePublished(Saved(r))
    BY <2>3, <2>5 DEF FramePublished
  <2> QED
    BY <2>2, <2>4, <2>5, <2>6, PublishedStep
<1>14. ASSUME NEW r \in Request, AwardCompare(r)
       PROVE  PublishedInv'
  <2>1. PICK e \in requests[r].copies :
           Continue(r, [requests[r] EXCEPT !.step = "lock",
                                           !.columns = Dirty(e, rfqs[e.id])])
    BY <1>14 DEF AwardCompare
  <2> DEFINE f == [requests[r] EXCEPT !.step = "lock", !.columns = Dirty(e, rfqs[e.id])]
  <2>2. Dirty(e, rfqs[e.id]) \in SUBSET Columns
    BY <1>a, DirtyColumns
  <2>3. f \in Frame /\ f.quotes = requests[r].quotes /\ f.copies = requests[r].copies
    BY <1>a, <2>2 DEF Frame
  <2>4. Continue(r, f)
    BY <2>1
  <2>5. requests[r].step \notin {"match", "invite"}
    BY <1>14 DEF AwardCompare
  <2> HIDE DEF f
  <2> QED
    BY <1>11, <2>3, <2>4, <2>5
<1>15. ASSUME NEW r \in Request, AwardLock(r) \/ AnnounceDeal(r)
       PROVE  PublishedInv'
  <2>1. PICK step \in {"announce", "commit"} :
           requests' = [requests EXCEPT ![r] = [requests[r] EXCEPT !.step = step]]
    <3>1. CASE AwardLock(r)
      BY <3>1 DEF AwardLock, Continue
    <3>2. CASE AnnounceDeal(r)
      BY <3>2 DEF AnnounceDeal
    <3> QED
      BY <1>15, <3>1, <3>2
  <2> DEFINE f == [requests[r] EXCEPT !.step = step]
  <2>2. f \in Frame /\ f.quotes = requests[r].quotes /\ f.copies = requests[r].copies
    BY <1>a DEF Frame
  <2>3. /\ requests' = [requests EXCEPT ![r] = f] /\ UNCHANGED <<rfqs, quotes>>
        /\ requests[r].step \notin {"match", "invite"}
    BY <1>15, <2>1 DEF AwardLock, AnnounceDeal, Continue
  <2> HIDE DEF f
  <2>4. FramePublished(f)
    BY <1>a, <2>2, <2>3 DEF FramePublished
  <2>5. \A x \in Rfq : Open(x) => Open(x)'
    BY <2>3 DEF Open
  <2> QED
    BY <2>2, <2>3, <2>4, <2>5, PublishedStep
<1>16. ASSUME NEW r \in Request, Commit(r)
       PROVE  PublishedInv'
  <2>1. PICK q \in requests[r].quotes, d \in requests[r].deals, e \in requests[r].copies :
           /\ rfqs' = [rfqs EXCEPT ![e.id] = Flush(e, requests[r].columns, @)]
           /\ quotes' = Accepted(e.id, q)
           /\ deals' = deals \cup {[id |-> d, quote |-> q]}
    BY <1>16, Zenon DEF Commit
  <2>2. requests[r].step = "commit" /\ requests' = [requests EXCEPT ![r] = Idle]
    BY <1>16 DEF Commit
  <2>3. e \in Entity /\ e.status \notin {"absent", "draft"} /\ e.id \in Rfq
    BY <1>a, <2>2 DEF FramePublished
  <2>4. \A x \in Rfq : Open(x) => Open(x)'
    BY <2>1, <2>3, FlushOpen
  <2>5. q \in Quote
    BY <1>a
  <2>6. \A o \in Quote : quotes'[o] = IF o = q THEN "accepted" ELSE quotes[o]
    BY <2>1, <2>3, <2>5, AcceptedQuotes DEF TypeOK
  <2>7. FramePublished(Idle) /\ Idle \in Frame
    BY IdleFrame DEF FramePublished
  <2> QED
    BY <2>2, <2>4, <2>6, <2>7, PublishedStep
<1>17. ASSUME NEW r \in Request, Timeout(r) \/ Fail(r)
       PROVE  PublishedInv'
  <2>1. FramePublished(Idle) /\ Idle \in Frame
    BY IdleFrame DEF FramePublished
  <2> QED
    BY <1>17, <1>b, <2>1 DEF Timeout, Fail
<1>18. CASE UNCHANGED vars
  BY <1>18 DEF vars, PublishedInv, QuotedOnlyOncePublished, FramePublished, Open
<1> QED
  BY <1>1, <1>2, <1>4, <1>5, <1>6, <1>7, <1>8, <1>9, <1>10, <1>12, <1>13,
     <1>14, <1>15, <1>16, <1>17, <1>18 DEF Next

\* Initially there is no quotation.
LEMMA InitPublishedInv == Init => PublishedInv
  BY IdleFrame DEF Init, PublishedInv, QuotedOnlyOncePublished, FramePublished

\* No RFQ has a quotation without being published, and no handler's old copy
\* ever takes one that has back to draft.
THEOREM RfqsQuotedOnlyOncePublished == Spec => []QuotedOnlyOncePublished
<1>1. Init => TypeOK /\ PublishedInv
  BY InitTypeOK, InitPublishedInv
<1>2. TypeOK /\ PublishedInv /\ [Next]_vars => TypeOK' /\ PublishedInv'
  BY NextTypeOK, NextPublishedInv
<1>3. PublishedInv => QuotedOnlyOncePublished
  BY DEF PublishedInv
<1> QED
  BY <1>1, <1>2, <1>3, PTL DEF Spec

-----------------------------------------------------------------------------
(* Acceptances do not get into each other's way.                           *)

\* A step of one handler, which afterwards has no deal that it did not have,
\* or a new one; it makes and announces no deal but its own, takes back no
\* quotation and closes no RFQ.
LEMMA AcceptanceStep ==
    ASSUME TypeOK, AcceptanceInv, NEW r \in Request, NEW f \in Frame,
           requests' = [requests EXCEPT ![r] = f],
           \A d \in f.deals :
              /\ f.deals = {d}
              /\ \A c \in deals' : c.id # d
              /\ f.step # "commit" => d \notin announced'
              /\ \A s \in Request : s # r => d \notin requests[s].deals,
           FrameAwards(f),
           \A c \in deals' : c \in deals \/ c.id \in requests[r].deals,
           \A d \in announced' : d \in announced \/ d \in requests[r].deals,
           \A q \in Quote : quotes[q] # "absent" => quotes'[q] # "absent",
           \A x \in Rfq : Open(x) => Open(x)'
    PROVE  AcceptanceInv'
<1>1. ASSUME NEW s \in Request
      PROVE  /\ requests'[s] = IF s = r THEN f ELSE requests[s]
             /\ requests[s] \in Frame
             /\ FrameDeals(s) /\ FrameAwards(requests[s])
  BY DEF TypeOK, AcceptanceInv
<1>2. ASSUME NEW s \in Request
      PROVE  FrameDeals(s)'
  <2>1. CASE s = r
    BY <1>1, <2>1 DEF FrameDeals
  <2>2. CASE s # r
    <3> SUFFICES ASSUME NEW d \in requests[s].deals
                 PROVE  /\ requests[s].deals = {d}
                        /\ \A c \in deals' : c.id # d
                        /\ requests[s].step # "commit" => d \notin announced'
                        /\ \A u \in Request : u # s => d \notin requests'[u].deals
      BY <1>1, <2>2 DEF FrameDeals
    <3>1. /\ requests[s].deals = {d} /\ d \notin requests[r].deals
          /\ \A c \in deals : c.id # d
          /\ requests[s].step # "commit" => d \notin announced
          /\ \A u \in Request : u # s => d \notin requests[u].deals
      BY <1>1, <2>2 DEF FrameDeals
    <3>2. d \notin f.deals
      BY <2>2
    <3> QED
      BY <1>1, <3>1, <3>2
  <2> QED
    BY <2>1, <2>2
<1>3. ASSUME NEW s \in Request
      PROVE  FrameAwards(requests[s])'
  <2>1. requests'[s] \in Frame /\ FrameAwards(requests'[s])
    BY <1>1
  <2>2. requests'[s].quotes \subseteq Quote /\ \A e \in requests'[s].copies : e.id \in Rfq
    BY <2>1 DEF Frame, Entity
  <2> QED
    BY <2>1, <2>2 DEF FrameAwards
<1> QED
  BY <1>2, <1>3 DEF AcceptanceInv

\* The special case of a handler that writes nothing.
LEMMA AcceptanceContinue ==
    ASSUME TypeOK, AcceptanceInv, NEW r \in Request, NEW f \in Frame,
           requests' = [requests EXCEPT ![r] = f],
           UNCHANGED <<rfqs, quotes, deals, announced>>,
           f.deals # {} => f.deals = requests[r].deals /\ requests[r].step # "commit",
           FrameAwards(f)
    PROVE  AcceptanceInv'
<1>1. \A x \in Rfq : Open(x) => Open(x)'
  BY DEF Open
<1>3. FrameDeals(r)
  BY DEF AcceptanceInv
<1>4. \A d \in f.deals :
         /\ f.deals = {d}
         /\ \A c \in deals' : c.id # d
         /\ f.step # "commit" => d \notin announced'
         /\ \A s \in Request : s # r => d \notin requests[s].deals
  BY <1>3 DEF FrameDeals
<1> QED
  BY <1>1, <1>4, AcceptanceStep

\* Before their first step, and in the steps listed here, handlers have
\* nothing to say of acceptances.
LEMMA OtherFrame ==
    ASSUME NEW f, f.step \in {"idle", "match", "invite", "quote", "save"},
           \A c, e \in f.copies : c = e
    PROVE  FrameAwards(f)
  BY DEF FrameAwards

\* After a save a handler has no deal.
LEMMA SavedDeals == ASSUME NEW r \in Request PROVE Saved(r).deals = {}
  BY DEF Saved, Idle

\* A save leaves the RFQ open, if it was or if its new status is written.
LEMMA FlushOpens ==
    ASSUME TypeOK, NEW e \in Entity, e.status \notin {"absent", "draft"}, NEW D,
           Open(e.id) \/ "status" \in D,
           rfqs' = [rfqs EXCEPT ![e.id] = Flush(e, D, @)]
    PROVE  Open(e.id)'
<1>1. e.id \in Rfq /\ rfqs[e.id] \in Entity
  BY DEF TypeOK, Entity
<1>2. rfqs'[e.id] = Flush(e, D, rfqs[e.id])
  BY <1>1 DEF TypeOK
<1>3. rfqs'[e.id].status = IF "status" \in D THEN e.status ELSE rfqs[e.id].status
  BY <1>1, <1>2, FlushEntity
<1> QED
  BY <1>3 DEF Open

\* Every step preserves the invariant of the acceptances.
LEMMA NextAcceptanceInv ==
    TypeOK /\ PublishedInv /\ AcceptanceInv /\ [Next]_vars => AcceptanceInv'
<1> SUFFICES ASSUME TypeOK, PublishedInv, AcceptanceInv, [Next]_vars
             PROVE  AcceptanceInv'
  OBVIOUS
<1> USE ConstantsAssumption
<1>a. ASSUME NEW r \in Request
      PROVE  /\ requests[r] \in Frame
             /\ FrameDeals(r) /\ FrameAwards(requests[r]) /\ FramePublished(requests[r])
             /\ requests[r].quotes \subseteq Quote
             /\ requests[r].deals \subseteq Deal
             /\ \A e \in requests[r].copies :
                   e \in Entity /\ e.id \in Rfq /\ rfqs[e.id] \in Entity /\ rfqs[e.id].id = e.id
  BY DEF TypeOK, Frame, Entity, PublishedInv, AcceptanceInv
<1>b. ASSUME NEW r \in Request, NEW f \in Frame, Begin(r, f) \/ Continue(r, f),
             f.step \in {"idle", "match", "invite", "quote", "save"}, f.deals = {},
             \A c, e \in f.copies : c = e
      PROVE  AcceptanceInv'
  <2>1. requests' = [requests EXCEPT ![r] = f] /\ UNCHANGED <<rfqs, quotes, deals, announced>>
    BY <1>b DEF Begin, Continue
  <2>2. FrameAwards(f)
    BY <1>b, OtherFrame
  <2>3. f.deals = {}
    BY <1>b
  <2> QED
    BY <2>1, <2>2, <2>3, AcceptanceContinue
<1>1. ASSUME NEW x \in Rfq, CreateRfq(x)
      PROVE  AcceptanceInv'
  <2>1. /\ rfqs[x].status = "absent"
        /\ rfqs' = [rfqs EXCEPT ![x].status = "draft"]
        /\ UNCHANGED <<quotes, deals, requests, announced>>
    BY <1>1 DEF CreateRfq, Exists
  <2>2. \A y \in Rfq : Open(y) => Open(y)'
    BY <2>1 DEF TypeOK, Open
  <2>3. ASSUME NEW r \in Request
        PROVE  FrameDeals(r)' /\ FrameAwards(requests[r])'
    BY <1>a, <2>1, <2>2 DEF FrameDeals, FrameAwards
  <2> QED
    BY <2>3 DEF AcceptanceInv
<1>2. ASSUME NEW r \in Request, NEW x \in Rfq, Publish(r, x)
      PROVE  AcceptanceInv'
  <2> DEFINE f == [At("save", SetStatus(rfqs[x], "published")) EXCEPT !.next = "match"]
  <2>1. SetStatus(rfqs[x], "published") \in Entity
    BY SetStatusEntity DEF RfqStatus, TypeOK
  <2>2. /\ f \in Frame /\ f.step = "save"
        /\ f.copies = {SetStatus(rfqs[x], "published")}
    BY <2>1, PublishFrame
  <2>3. f.deals = {}
    BY DEF At, Idle
  <2>4. Begin(r, f)
    BY <1>2 DEF Publish
  <2> HIDE DEF f
  <2> QED
    BY <1>b, <2>2, <2>3, <2>4
<1>3. ASSUME NEW r \in Request, NEW x \in Rfq, TriggerMatch(r, x)
      PROVE  AcceptanceInv'
  <2>1. rfqs[x] \in Entity /\ Begin(r, At("invite", rfqs[x]))
    BY <1>3 DEF TriggerMatch, TypeOK
  <2>2. /\ At("invite", rfqs[x]) \in Frame /\ At("invite", rfqs[x]).deals = {}
        /\ At("invite", rfqs[x]).step = "invite"
        /\ \A c, e \in At("invite", rfqs[x]).copies : c = e
    BY <2>1 DEF At, Idle, Frame
  <2> QED
    BY <1>b, <2>1, <2>2
<1>4. ASSUME NEW r \in Request, NEW q \in Quote, SubmitQuote(r, q)
      PROVE  AcceptanceInv'
  <2>1. rfqs[RfqOf[q]] \in Entity /\ Begin(r, Quoting(rfqs[RfqOf[q]], q))
    BY <1>4 DEF SubmitQuote, TypeOK
  <2>2. /\ Quoting(rfqs[RfqOf[q]], q) \in Frame /\ Quoting(rfqs[RfqOf[q]], q).deals = {}
        /\ Quoting(rfqs[RfqOf[q]], q).step = "quote"
        /\ \A c, e \in Quoting(rfqs[RfqOf[q]], q).copies : c = e
    BY <2>1 DEF Quoting, At, Idle, Frame
  <2> QED
    BY <1>b, <2>1, <2>2
<1>5. ASSUME NEW r \in Request, NEW q \in Quote, NEW d \in Deal, AcceptQuote(r, q, d)
      PROVE  AcceptanceInv'
  <2> DEFINE f == Accepting(q, d)
  <2>1. /\ quotes[q] # "absent" /\ d \notin announced
        /\ \A c \in deals : c.id # d
        /\ \A s \in Request : d \notin requests[s].deals
        /\ requests' = [requests EXCEPT ![r] = f]
        /\ UNCHANGED <<rfqs, quotes, deals, announced>>
    BY <1>5 DEF AcceptQuote, NewDeal, Begin, Continue
  <2>2. f \in Frame /\ f.step = "begin" /\ f.quotes = {q} /\ f.deals = {d} /\ f.copies = {}
    BY AcceptingFrame
  <2> HIDE DEF f
  <2>3. FrameAwards(f)
    BY <2>1, <2>2 DEF FrameAwards
  <2>4. \A x \in Rfq : Open(x) => Open(x)'
    BY <2>1 DEF Open
  <2>5. \A c \in f.deals :
           /\ f.deals = {c}
           /\ \A b \in deals' : b.id # c
           /\ f.step # "commit" => c \notin announced'
           /\ \A s \in Request : s # r => c \notin requests[s].deals
    BY <2>1, <2>2
  <2>6. /\ \A c \in deals' : c \in deals \/ c.id \in requests[r].deals
        /\ \A c \in announced' : c \in announced \/ c \in requests[r].deals
        /\ \A o \in Quote : quotes[o] # "absent" => quotes'[o] # "absent"
    BY <2>1
  <2> QED
    BY <2>1, <2>2, <2>3, <2>4, <2>5, <2>6, AcceptanceStep
<1>6. ASSUME NEW r \in Request, Match(r)
      PROVE  AcceptanceInv'
  <2>1. PICK e \in requests[r].copies : Continue(r, At("invite", rfqs[e.id]))
    BY <1>6 DEF Match
  <2>2. rfqs[e.id] \in Entity
    BY <1>a
  <2>3. /\ At("invite", rfqs[e.id]) \in Frame /\ At("invite", rfqs[e.id]).deals = {}
        /\ At("invite", rfqs[e.id]).step = "invite"
        /\ \A b, c \in At("invite", rfqs[e.id]).copies : b = c
    BY <2>2 DEF At, Idle, Frame
  <2> QED
    BY <1>b, <2>1, <2>3
<1>7. ASSUME NEW r \in Request, NotifySuppliers(r)
      PROVE  AcceptanceInv'
  <2>1. PICK e \in requests[r].copies :
           requests' = [requests EXCEPT ![r] = At("save", SetStatus(e, "matching"))]
    BY <1>7 DEF NotifySuppliers
  <2> DEFINE c == SetStatus(e, "matching")
  <2>2. c \in Entity
    BY <1>a, SetStatusEntity DEF RfqStatus
  <2>3. requests' = [requests EXCEPT ![r] = At("save", c)]
    BY <2>1
  <2> HIDE DEF c
  <2>4. /\ At("save", c) \in Frame /\ At("save", c).deals = {}
        /\ At("save", c).step = "save" /\ At("save", c).copies = {c}
    BY <2>2 DEF At, Idle, Frame
  <2>5. FrameAwards(At("save", c))
    BY <2>4, OtherFrame
  <2>6. UNCHANGED <<rfqs, quotes, deals, announced>>
    BY <1>7 DEF NotifySuppliers
  <2> QED
    BY <2>3, <2>4, <2>5, <2>6, AcceptanceContinue
<1>8. ASSUME NEW r \in Request, InsertQuote(r)
      PROVE  AcceptanceInv'
  <2>1. PICK q \in requests[r].quotes, e \in requests[r].copies :
           /\ quotes' = [quotes EXCEPT ![q] = "sent"]
           /\ requests' = [requests EXCEPT ![r] = At("save", Counted(e))]
    BY <1>8 DEF InsertQuote
  <2> DEFINE c == Counted(e)
  <2>2. c \in Entity
    BY <1>a, CountedEntity
  <2>3. requests' = [requests EXCEPT ![r] = At("save", c)]
    BY <2>1
  <2> HIDE DEF c
  <2>4. /\ At("save", c) \in Frame /\ At("save", c).deals = {}
        /\ At("save", c).step = "save" /\ At("save", c).copies = {c}
    BY <2>2 DEF At, Idle, Frame
  <2>5. FrameAwards(At("save", c))
    BY <2>4 DEF FrameAwards
  <2>6. UNCHANGED <<rfqs, deals, announced>>
    BY <1>8 DEF InsertQuote
  <2>7. /\ \A o \in Quote : quotes[o] # "absent" => quotes'[o] # "absent"
        /\ \A x \in Rfq : Open(x) => Open(x)'
    BY <2>1, <2>6 DEF TypeOK, Open
  <2> QED
    BY <2>3, <2>4, <2>5, <2>6, <2>7, AcceptanceStep
<1>9. ASSUME NEW r \in Request, SaveCompare(r)
      PROVE  AcceptanceInv'
  <2>1. PICK e \in requests[r].copies :
           LET dirty == Dirty(e, rfqs[e.id])
           IN  IF dirty = {}
               THEN Continue(r, Saved(r))
               ELSE Continue(r, [requests[r] EXCEPT !.step = "update",
                                                    !.columns = dirty])
    BY <1>9 DEF SaveCompare
  <2>2. requests[r].step = "save"
    BY <1>9 DEF SaveCompare
  <2>3. CASE Continue(r, Saved(r))
    <3>1. /\ Saved(r) \in Frame /\ Saved(r).step \in {"idle", "match"}
          /\ Saved(r).deals = {} /\ \A b, c \in Saved(r).copies : b = c
      BY <1>a, SavedFrame, SavedDeals DEF FrameAwards
    <3> QED
      BY <1>b, <2>3, <3>1
  <2>4. CASE Continue(r, [requests[r] EXCEPT !.step = "update",
                                             !.columns = Dirty(e, rfqs[e.id])])
    <3> DEFINE D == Dirty(e, rfqs[e.id])
               f == [requests[r] EXCEPT !.step = "update", !.columns = D]
    <3>1. D \in SUBSET Columns
      BY <1>a, DirtyColumns
    <3>2. /\ f \in Frame /\ f.deals = requests[r].deals /\ f.step = "update"
          /\ f.copies = requests[r].copies /\ f.columns = D
      BY <1>a, <3>1 DEF Frame
    <3>3. \A c \in requests[r].copies : Open(c.id) \/ "status" \in Dirty(c, rfqs[c.id])
      <4> SUFFICES ASSUME NEW c \in requests[r].copies, ~ Open(c.id)
                   PROVE  "status" \in Dirty(c, rfqs[c.id])
        OBVIOUS
      <4>1. rfqs[c.id].status \in {"absent", "draft"} /\ "status" \in DOMAIN rfqs[c.id]
        BY <1>a DEF Open, Entity
      <4>2. c.status \notin {"absent", "draft"}
        BY <1>a, <2>2 DEF FramePublished
      <4> QED
        BY <4>1, <4>2 DEF Dirty
    <3>4. Continue(r, f)
      BY <2>4
    <3> HIDE DEF f
    <3>5. FrameAwards(f)
      <4>1. ASSUME NEW c \in f.copies
            PROVE  Open(c.id) \/ "status" \in f.columns
        <5>1. c = e
          BY <1>a, <3>2 DEF FrameAwards
        <5> QED
          BY <3>2, <3>3, <5>1
      <4>2. \A b, c \in f.copies : b = c
        BY <1>a, <3>2 DEF FrameAwards
      <4> QED
        BY <3>2, <4>1, <4>2 DEF FrameAwards
    <3>6. requests[r].step # "commit"
      BY <2>2
    <3>7. requests' = [requests EXCEPT ![r] = f] /\ UNCHANGED <<rfqs, quotes, deals, announced>>
      BY <3>4 DEF Continue
    <3> QED
      BY <3>2, <3>5, <3>6, <3>7, AcceptanceContinue
  <2> QED
    BY <2>1, <2>3, <2>4
<1>10. ASSUME NEW r \in Request, SaveUpdate(r)
       PROVE  AcceptanceInv'
  <2>1. PICK e \in requests[r].copies :
           rfqs' = [rfqs EXCEPT ![e.id] = Flush(e, requests[r].columns, @)]
    BY <1>10 DEF SaveUpdate
  <2>2. /\ requests[r].step = "update" /\ UNCHANGED <<quotes, deals, announced>>
        /\ requests' = [requests EXCEPT ![r] = Saved(r)]
    BY <1>10 DEF SaveUpdate
  <2>3. \A x \in Rfq : Open(x) => Open(x)'
    <3>1. e.status \notin {"absent", "draft"}
      BY <1>a, <2>2 DEF FramePublished
    <3> QED
      BY <1>a, <2>1, <3>1, FlushOpen
  <2>4. /\ Saved(r) \in Frame /\ Saved(r).step \in {"idle", "match"}
        /\ Saved(r).deals = {} /\ \A b, c \in Saved(r).copies : b = c
    BY <1>a, SavedFrame, SavedDeals DEF FrameAwards
  <2>5. FrameAwards(Saved(r))
    BY <2>2, <2>4 DEF FrameAwards, Saved
  <2> QED
    BY <2>2, <2>3, <2>4, <2>5, AcceptanceStep
<1>11. ASSUME NEW r \in Request, ReadQuote(r)
       PROVE  AcceptanceInv'
  <2>1. PICK q \in requests[r].quotes, d \in requests[r].deals :
           Continue(r, Awarding(SetStatus(rfqs[RfqOf[q]], "awarded"), q, d))
    BY <1>11 DEF ReadQuote
  <2> DEFINE e == SetStatus(rfqs[RfqOf[q]], "awarded")
             f == Awarding(e, q, d)
  <2>2. /\ q \in Quote /\ d \in Deal /\ requests[r].step = "begin"
        /\ rfqs[RfqOf[q]] \in Entity /\ rfqs[RfqOf[q]].id = RfqOf[q]
    BY <1>a, <1>11 DEF ReadQuote, TypeOK
  <2>3. e \in Entity /\ e.id = RfqOf[q]
    BY <2>2, SetStatusEntity DEF RfqStatus
  <2>4. Continue(r, f)
    BY <2>1
  <2> HIDE DEF e
  <2>5. /\ f \in Frame /\ f.step = "award" /\ f.copies = {e}
        /\ f.quotes = {q} /\ f.deals = {d}
    BY <2>2, <2>3, NewFrames
  <2> HIDE DEF f
  <2>6. quotes[q] # "absent" /\ f.deals = requests[r].deals
    BY <1>a, <2>2, <2>5 DEF FrameAwards, FrameDeals
  <2>7. FrameAwards(f)
    BY <2>3, <2>5, <2>6 DEF FrameAwards
  <2>8. requests' = [requests EXCEPT ![r] = f] /\ UNCHANGED <<rfqs, quotes, deals, announced>>
    BY <2>4 DEF Continue
  <2> QED
    BY <2>2, <2>5, <2>6, <2>7, <2>8, AcceptanceContinue
<1>12. ASSUME NEW r \in Request, AwardCompare(r)
       PROVE  AcceptanceInv'
  <2>1. PICK e \in requests[r].copies :
           Continue(r, [requests[r] EXCEPT !.step = "lock",
                                           !.columns = Dirty(e, rfqs[e.id])])
    BY <1>12 DEF AwardCompare
  <2> DEFINE f == [requests[r] EXCEPT !.step = "lock", !.columns = Dirty(e, rfqs[e.id])]
  <2>2. Dirty(e, rfqs[e.id]) \in SUBSET Columns
    BY <1>a, DirtyColumns
  <2>3. /\ f \in Frame /\ f.step = "lock" /\ f.quotes = requests[r].quotes
        /\ f.copies = requests[r].copies /\ f.deals = requests[r].deals
    BY <1>a, <2>2 DEF Frame
  <2>4. Continue(r, f) /\ requests[r].step = "award"
    BY <1>12, <2>1 DEF AwardCompare
  <2> HIDE DEF f
  <2>5. FrameAwards(f)
    BY <1>a, <2>3, <2>4 DEF FrameAwards
  <2>6. requests' = [requests EXCEPT ![r] = f] /\ UNCHANGED <<rfqs, quotes, deals, announced>>
    BY <2>4 DEF Continue
  <2> QED
    BY <2>3, <2>4, <2>5, <2>6, AcceptanceContinue
<1>13. ASSUME NEW r \in Request, AwardLock(r)
       PROVE  AcceptanceInv'
  <2> DEFINE f == [requests[r] EXCEPT !.step = "announce"]
  <2>1. Continue(r, f) /\ requests[r].step = "lock"
    BY <1>13 DEF AwardLock
  <2>2. /\ f \in Frame /\ f.step = "announce" /\ f.quotes = requests[r].quotes
        /\ f.copies = requests[r].copies /\ f.deals = requests[r].deals
    BY <1>a DEF Frame
  <2> HIDE DEF f
  <2>3. FrameAwards(f)
    BY <1>a, <2>1, <2>2 DEF FrameAwards
  <2>4. requests' = [requests EXCEPT ![r] = f] /\ UNCHANGED <<rfqs, quotes, deals, announced>>
    BY <2>1 DEF Continue
  <2> QED
    BY <2>1, <2>2, <2>3, <2>4, AcceptanceContinue
<1>14. ASSUME NEW r \in Request, AnnounceDeal(r)
       PROVE  AcceptanceInv'
  <2> DEFINE f == [requests[r] EXCEPT !.step = "commit"]
  <2>1. /\ requests[r].step = "announce"
        /\ requests' = [requests EXCEPT ![r] = f]
        /\ announced' = announced \cup requests[r].deals
        /\ UNCHANGED <<rfqs, quotes, deals>>
    BY <1>14 DEF AnnounceDeal
  <2>2. /\ f \in Frame /\ f.step = "commit" /\ f.quotes = requests[r].quotes
        /\ f.copies = requests[r].copies /\ f.deals = requests[r].deals
    BY <1>a DEF Frame
  <2> HIDE DEF f
  <2>3. FrameAwards(f)
    BY <1>a, <2>1, <2>2 DEF FrameAwards
  <2>4. \A d \in f.deals :
           /\ f.deals = {d}
           /\ \A c \in deals' : c.id # d
           /\ \A s \in Request : s # r => d \notin requests[s].deals
    BY <1>a, <2>1, <2>2 DEF FrameDeals
  <2>5. \A x \in Rfq : Open(x) => Open(x)'
    BY <2>1 DEF Open
  <2> QED
    BY <2>1, <2>2, <2>3, <2>4, <2>5, AcceptanceStep
<1>15. ASSUME NEW r \in Request, Commit(r)
       PROVE  AcceptanceInv'
  <2>1. PICK q \in requests[r].quotes, d \in requests[r].deals, e \in requests[r].copies :
           /\ rfqs' = [rfqs EXCEPT ![e.id] = Flush(e, requests[r].columns, @)]
           /\ quotes' = Accepted(e.id, q)
           /\ deals' = deals \cup {[id |-> d, quote |-> q]}
    BY <1>15, Zenon DEF Commit
  <2>2. /\ requests[r].step = "commit" /\ requests' = [requests EXCEPT ![r] = Idle]
        /\ announced' = announced
    BY <1>15 DEF Commit
  <2>3. e \in Entity /\ e.status \notin {"absent", "draft"} /\ e.id \in Rfq /\ q \in Quote
    BY <1>a, <2>2 DEF FramePublished
  <2>4. \A x \in Rfq : Open(x) => Open(x)'
    BY <2>1, <2>3, FlushOpen
  <2>5. \A o \in Quote : quotes'[o] = IF o = q THEN "accepted" ELSE quotes[o]
    BY <2>1, <2>3, AcceptedQuotes DEF TypeOK
  <2>6. \A c \in deals' : c \in deals \/ c.id \in requests[r].deals
    BY <2>1
  <2>7. FrameAwards(Idle)
    BY DEF FrameAwards, Idle
  <2> QED
    BY <2>2, <2>4, <2>5, <2>6, <2>7, IdleFrame, AcceptanceStep
<1>16. ASSUME NEW r \in Request, Timeout(r) \/ Fail(r)
       PROVE  AcceptanceInv'
  <2>1. Continue(r, Idle)
    BY <1>16 DEF Timeout, Fail
  <2>2. \A c, e \in Idle.copies : c = e
    BY IdleFrame
  <2> QED
    BY <1>b, <2>1, <2>2, IdleFrame
<1>17. CASE UNCHANGED vars
  BY <1>17 DEF vars, AcceptanceInv, FrameDeals, FrameAwards, Open
<1> QED
  BY <1>1, <1>2, <1>3, <1>4, <1>5, <1>6, <1>7, <1>8, <1>9, <1>10, <1>11, <1>12,
     <1>13, <1>14, <1>15, <1>16, <1>17 DEF Next

\* Initially nobody accepts anything.
LEMMA InitAcceptanceInv == Init => AcceptanceInv
  BY IdleFrame DEF Init, AcceptanceInv, FrameDeals, FrameAwards

-----------------------------------------------------------------------------
(* The handlers implement the specification of module Awards.              *)

\* A step that changes no quotation, deal or announcement, opens no RFQ and
\* changes no count is none of the abstract specification.
LEMMA MarketStutter ==
    ASSUME UNCHANGED <<quotes, deals, announced>>,
           \A x \in Rfq : (Open(x) <=> Open(x)') /\ rfqs'[x].count = rfqs[x].count
    PROVE  UNCHANGED Market!market
<1>1. UNCHANGED {x \in Rfq : rfqs[x].status \notin {"absent", "draft"}}
  BY DEF Open
<1>2. UNCHANGED [x \in Rfq |-> rfqs[x].count]
  OBVIOUS
<1>3. /\ UNCHANGED {q \in Quote : quotes[q] # "absent"}
      /\ UNCHANGED {q \in Quote : quotes[q] = "accepted"}
  OBVIOUS
<1> QED
  BY <1>1, <1>2, <1>3 DEF Market!market

\* A number of elements is the same here and there.
LEMMA MarketCardinality == \A S : Market!Cardinality(S) = Cardinality(S)
  BY DEF Market!Cardinality, Cardinality, Market!IsFiniteSet, IsFiniteSet

\* Saving a copy changes the count of its RFQ only, to one that is covered
\* by quotations received.
LEMMA MarketRecount ==
    ASSUME TypeOK, CountInv, NEW r \in Request, NEW e \in requests[r].copies,
           rfqs' = [rfqs EXCEPT ![e.id] = Flush(e, requests[r].columns, @)]
    PROVE  Market!Recount(e.id)
<1> DEFINE came == {q \in {p \in Quote : quotes[p] # "absent"} : RfqOf[q] = e.id}
           n == rfqs'[e.id].count
<1>1. e \in Entity /\ e.id \in Rfq /\ e.count \in Nat
  BY DEF TypeOK, Frame, Entity
<1>2. rfqs[e.id] \in Entity /\ rfqs[e.id].count \in Nat
  BY <1>1 DEF TypeOK, Entity
<1>3. came = Received(e.id)
  BY DEF Received
<1>4. IsFiniteSet(came) /\ Cardinality(came) \in Nat
  <2>1. came \in SUBSET Quote
    OBVIOUS
  <2>2. IsFiniteSet(came)
    BY <2>1, FS_Subset, ConstantsAssumption
  <2> QED
    BY <2>2, FS_CardinalityType
<1>5. e.count <= Cardinality(came) /\ rfqs[e.id].count <= Cardinality(came)
  BY <1>1, <1>3 DEF CountInv, FrameCovered, RowsCovered
<1>6. rfqs'[e.id] = Flush(e, requests[r].columns, rfqs[e.id])
  BY <1>1 DEF TypeOK
<1>7. n \in {e.count, rfqs[e.id].count}
  BY <1>1, <1>2, <1>6, FlushEntity
<1>8. n \in 0 .. Cardinality(came)
  <2> HIDE DEF n, came
  <2> QED
    BY <1>1, <1>2, <1>4, <1>5, <1>7
<1>9. [x \in Rfq |-> rfqs'[x].count]
         = [[x \in Rfq |-> rfqs[x].count] EXCEPT ![e.id] = n]
  BY <1>1 DEF TypeOK
<1>10. Market!Cardinality(came) = Cardinality(came)
  BY MarketCardinality
<1> QED
  BY <1>8, <1>9, <1>10 DEF Market!Recount

\* A save outside of a transaction publishes its RFQ or recounts what came in
\* for it.
LEMMA MarketSave ==
    ASSUME TypeOK, CountInv, PublishedInv, AcceptanceInv,
           NEW r \in Request, SaveUpdate(r)
    PROVE  Market!Next
<1>1. PICK e \in requests[r].copies :
         rfqs' = [rfqs EXCEPT ![e.id] = Flush(e, requests[r].columns, @)]
  BY DEF SaveUpdate
<1>2. requests[r].step = "update" /\ UNCHANGED <<quotes, deals, announced>>
  BY DEF SaveUpdate
<1>3. e \in Entity /\ e.id \in Rfq /\ e.status \notin {"absent", "draft"}
  BY <1>2 DEF TypeOK, Frame, Entity, PublishedInv, FramePublished
<1>4. Open(e.id) \/ "status" \in requests[r].columns
  BY <1>2 DEF AcceptanceInv, FrameAwards
<1>5. Open(e.id)'
  BY <1>1, <1>3, <1>4, FlushOpens
<1>6. \A x \in Rfq : x # e.id => rfqs'[x] = rfqs[x]
  BY <1>1 DEF TypeOK
<1>7. {x \in Rfq : rfqs'[x].status \notin {"absent", "draft"}}
         = {x \in Rfq : rfqs[x].status \notin {"absent", "draft"}} \cup {e.id}
  BY <1>3, <1>5, <1>6 DEF Open
<1>8. Market!Recount(e.id)
  BY <1>1, MarketRecount
<1>9. Market!Publish(e.id)
  BY <1>2, <1>7, <1>8 DEF Market!Publish
<1> QED
  BY <1>3, <1>9 DEF Market!Next

\* The insert of a quotation receives it: it is new, and its RFQ is open.
LEMMA MarketInsert ==
    ASSUME TypeOK, CountInv, PublishedInv, NEW r \in Request, InsertQuote(r)
    PROVE  Market!Next
<1>1. PICK q \in requests[r].quotes : quotes' = [quotes EXCEPT ![q] = "sent"]
  BY DEF InsertQuote
<1>2. requests[r].step = "quote" /\ UNCHANGED <<rfqs, deals, announced>>
  BY DEF InsertQuote
<1>3. q \in Quote /\ quotes[q] = "absent" /\ Open(RfqOf[q]) /\ RfqOf[q] \in Rfq
  BY <1>2, ConstantsAssumption
     DEF TypeOK, Frame, CountInv, FrameQuotes, PublishedInv, FramePublished
<1>4. \A o \in Quote : quotes'[o] = IF o = q THEN "sent" ELSE quotes[o]
  BY <1>1 DEF TypeOK
<1>5. {o \in Quote : quotes'[o] # "absent"} = {o \in Quote : quotes[o] # "absent"} \cup {q}
  BY <1>3, <1>4
<1>6. UNCHANGED {o \in Quote : quotes[o] = "accepted"}
  BY <1>3, <1>4
<1>7. Market!Receive(q)
  BY <1>2, <1>3, <1>5, <1>6 DEF Market!Receive, Open
<1> QED
  BY <1>3, <1>7 DEF Market!Next

\* Notifying the parties announces the deal, for the first time.
LEMMA MarketAnnounce ==
    ASSUME TypeOK, AcceptanceInv, NEW r \in Request, AnnounceDeal(r)
    PROVE  [Market!Next]_(Market!market)
<1>1. /\ requests[r].step = "announce" /\ UNCHANGED <<rfqs, quotes, deals>>
      /\ announced' = announced \cup requests[r].deals
  BY DEF AnnounceDeal
<1>2. CASE requests[r].deals = {}
  BY <1>1, <1>2, MarketStutter DEF Open
<1>3. CASE requests[r].deals # {}
  <2>1. PICK d \in requests[r].deals : TRUE
    BY <1>3
  <2>2. requests[r].deals = {d} /\ d \notin announced /\ d \in Deal
    BY <1>1, <2>1 DEF AcceptanceInv, FrameDeals, TypeOK, Frame
  <2>3. Market!Announce(d)
    BY <1>1, <2>2 DEF Market!Announce
  <2> QED
    BY <2>2, <2>3 DEF Market!Next
<1> QED
  BY <1>2, <1>3

\* The end of the transaction awards: whatever was read and compared before,
\* the quotation has come in, the deal has been announced, and it is new.
LEMMA MarketAward ==
    ASSUME TypeOK, CountInv, PublishedInv, AwardInv, AcceptanceInv,
           NEW r \in Request, Commit(r)
    PROVE  Market!Next
<1>1. PICK q \in requests[r].quotes, d \in requests[r].deals, e \in requests[r].copies :
         /\ rfqs' = [rfqs EXCEPT ![e.id] = Flush(e, requests[r].columns, @)]
         /\ quotes' = Accepted(e.id, q)
         /\ deals' = deals \cup {[id |-> d, quote |-> q]}
  BY Zenon DEF Commit
<1>2. requests[r].step = "commit" /\ announced' = announced
  BY DEF Commit
<1>3. /\ q \in Quote /\ d \in Deal /\ e \in Entity /\ e.id \in Rfq
      /\ e.status \notin {"absent", "draft"}
  BY <1>2 DEF TypeOK, Frame, Entity, PublishedInv, FramePublished
<1>4. quotes[q] # "absent" /\ e.id = RfqOf[q]
  BY <1>2 DEF AcceptanceInv, FrameAwards
<1>5. d \in announced /\ \A c \in deals : c.id # d
  BY <1>2 DEF AwardInv, AcceptanceInv, FrameDeals
<1>6. Open(RfqOf[q])
  BY <1>3, <1>4 DEF PublishedInv, QuotedOnlyOncePublished, Open
<1>7. \A x \in Rfq : Open(x) <=> Open(x)'
  <2>1. \A x \in Rfq : Open(x) => Open(x)'
    BY <1>1, <1>3, FlushOpen
  <2>2. \A x \in Rfq : x # e.id => rfqs'[x] = rfqs[x]
    BY <1>1 DEF TypeOK
  <2> QED
    BY <1>4, <1>6, <2>1, <2>2 DEF Open
<1>8. UNCHANGED {x \in Rfq : rfqs[x].status \notin {"absent", "draft"}}
  BY <1>7 DEF Open
<1>9. \A o \in Quote : quotes'[o] = IF o = q THEN "accepted" ELSE quotes[o]
  BY <1>1, <1>3, AcceptedQuotes DEF TypeOK
<1>10. UNCHANGED {o \in Quote : quotes[o] # "absent"}
  BY <1>3, <1>4, <1>9
<1>11. {o \in Quote : quotes'[o] = "accepted"} = {o \in Quote : quotes[o] = "accepted"} \cup {q}
  BY <1>3, <1>9
<1>12. Market!Recount(RfqOf[q])
  <2>1. Market!Recount(e.id)
    BY <1>1, MarketRecount
  <2> QED
    BY <1>4, <2>1
<1>13. Market!Award(q, d)
  BY <1>1, <1>2, <1>3, <1>4, <1>5, <1>8, <1>10, <1>11, <1>12 DEF Market!Award
<1> QED
  BY <1>3, <1>13 DEF Market!Next

\* Every step of the handlers is a step of the abstract specification or none.
LEMMA MarketStep ==
    ASSUME TypeOK, CountInv, PublishedInv, AwardInv, AcceptanceInv, [Next]_vars
    PROVE  [Market!Next]_(Market!market)
<1>1. ASSUME UNCHANGED <<rfqs, quotes, deals, announced>>
      PROVE  UNCHANGED Market!market
  BY <1>1, MarketStutter DEF Open
<1>2. ASSUME NEW x \in Rfq, CreateRfq(x)
      PROVE  UNCHANGED Market!market
  <2>1. /\ rfqs' = [rfqs EXCEPT ![x].status = "draft"]
        /\ rfqs[x].status = "absent"
        /\ UNCHANGED <<quotes, deals, announced>>
    BY <1>2 DEF CreateRfq, Exists
  <2>2. \A y \in Rfq : (Open(y) <=> Open(y)') /\ rfqs'[y].count = rfqs[y].count
    BY <2>1 DEF TypeOK, Entity, Open
  <2> QED
    BY <2>1, <2>2, MarketStutter
<1>3. ASSUME NEW r \in Request, NEW f, Begin(r, f) \/ Continue(r, f)
      PROVE  UNCHANGED Market!market
  <2>1. UNCHANGED <<rfqs, quotes, deals, announced>>
    BY <1>3 DEF Begin, Continue
  <2> QED
    BY <1>1, <2>1
<1>4. ASSUME NEW r \in Request, NEW x \in Rfq, Publish(r, x) \/ TriggerMatch(r, x)
      PROVE  UNCHANGED Market!market
  BY <1>3, <1>4 DEF Publish, TriggerMatch
<1>5. ASSUME NEW r \in Request, NEW q \in Quote, SubmitQuote(r, q)
      PROVE  UNCHANGED Market!market
  BY <1>3, <1>5 DEF SubmitQuote
<1>6. ASSUME NEW r \in Request, NEW q \in Quote, NEW d \in Deal, AcceptQuote(r, q, d)
      PROVE  UNCHANGED Market!market
  BY <1>3, <1>6 DEF AcceptQuote
<1>7. ASSUME NEW r \in Request, Match(r) \/ AwardCompare(r) \/ AwardLock(r)
      PROVE  UNCHANGED Market!market
  BY <1>3, <1>7 DEF Match, AwardCompare, AwardLock
<1>8. ASSUME NEW r \in Request, ReadQuote(r)
      PROVE  UNCHANGED Market!market
  BY <1>3, <1>8 DEF ReadQuote
<1>9. ASSUME NEW r \in Request, SaveCompare(r)
      PROVE  UNCHANGED Market!market
  BY <1>3, <1>9 DEF SaveCompare
<1>10. ASSUME NEW r \in Request, NotifySuppliers(r)
       PROVE  UNCHANGED Market!market
  BY <1>1, <1>10 DEF NotifySuppliers
<1>11. ASSUME NEW r \in Request, Timeout(r) \/ Fail(r)
       PROVE  UNCHANGED Market!market
  BY <1>3, <1>11 DEF Timeout, Fail
<1>12. CASE UNCHANGED vars
  BY <1>1, <1>12 DEF vars
<1> QED
  BY <1>2, <1>4, <1>5, <1>6, <1>7, <1>8, <1>9, <1>10, <1>11, <1>12, MarketSave,
     MarketInsert, MarketAnnounce, MarketAward DEF Next

\* The state in which nothing was sent, quoted or awarded.
LEMMA MarketInit == Init => Market!Init
<1> SUFFICES ASSUME Init PROVE Market!Init
  OBVIOUS
<1>1. {x \in Rfq : rfqs[x].status \notin {"absent", "draft"}} = {}
  BY DEF Init
<1>2. {q \in Quote : quotes[q] # "absent"} = {} /\ {q \in Quote : quotes[q] = "accepted"} = {}
  BY DEF Init
<1>3. [x \in Rfq |-> rfqs[x].count] = [x \in Rfq |-> 0]
  BY DEF Init
<1> QED
  BY <1>1, <1>2, <1>3 DEF Init, Market!Init

\* Whatever handlers run, hold old copies, wait for each other or stop
\* half-way, buyers and suppliers see the specification of module Awards: for
\* any RFQs, quotations, deals and handlers.
THEOREM RfqsImplementsAwards == Spec => ImplementsAwards
<1> DEFINE IInv == TypeOK /\ CountInv /\ PublishedInv /\ AwardInv /\ AcceptanceInv
<1>1. Init => IInv
  BY InitTypeOK, InitCountInv, InitPublishedInv, InitAwardInv, InitAcceptanceInv
<1>2. IInv /\ [Next]_vars => IInv'
  BY NextTypeOK, NextCountInv, NextPublishedInv, NextAwardInv, NextAcceptanceInv
<1>3. IInv /\ [Next]_vars => [Market!Next]_(Market!market)
  BY MarketStep
<1> HIDE DEF IInv
<1> QED
  BY <1>1, <1>2, <1>3, MarketInit, PTL DEF Spec, ImplementsAwards, Market!Spec

-----------------------------------------------------------------------------
(* What module Awards promises is enough: it implies the safety properties *)
(* of module Rfqs, and that deals keep ids of their own.                   *)

AwardsSafe ==
    /\ CountedReceived
    /\ AcceptedHaveDeals
    /\ DealsAnnounced
    /\ QuotedOnlyOncePublished
    /\ \A a, b \in deals : a.id = b.id => a = b

\* Recounting shows at most what came in, then or before.
LEMMA RecountCovered ==
    ASSUME TypeOK, CountedReceived, NEW x \in Rfq, Market!Recount(x),
           \A q \in Quote : quotes[q] # "absent" => quotes'[q] # "absent"
    PROVE  CountedReceived'
<1> DEFINE came == {q \in {p \in Quote : quotes[p] # "absent"} : RfqOf[q] = x}
           counted == [y \in Rfq |-> rfqs[y].count]
<1>1. PICK n \in 0 .. Market!Cardinality(came) :
         [y \in Rfq |-> rfqs'[y].count] = [counted EXCEPT ![x] = n]
  BY DEF Market!Recount
<1>2. came = Received(x)
  BY DEF Received
<1>3. n \in 0 .. Cardinality(Received(x))
  <2> HIDE DEF came
  <2>1. Market!Cardinality(came) = Cardinality(came)
    BY MarketCardinality
  <2> QED
    BY <1>1, <1>2, <2>1
<1>4. ASSUME NEW y \in Rfq
      PROVE  rfqs'[y].count <= Cardinality(Received(y)')
  <2>1. rfqs[y].count \in Nat /\ rfqs[y].count <= Cardinality(Received(y))
    BY DEF TypeOK, Entity, CountedReceived
  <2>2. rfqs'[y].count = [counted EXCEPT ![x] = n][y]
    <3>1. [z \in Rfq |-> rfqs'[z].count][y] = rfqs'[y].count
      OBVIOUS
    <3> QED
      BY <1>1, <3>1
  <2>3. rfqs'[y].count = IF y = x THEN n ELSE rfqs[y].count
    BY <2>2
  <2>4. n \in Nat /\ n <= Cardinality(Received(x))
    BY <1>3, ReceivedGrows
  <2>5. /\ Cardinality(Received(y)) \in Nat /\ Cardinality(Received(y)') \in Nat
        /\ Cardinality(Received(y)) <= Cardinality(Received(y)')
    BY ReceivedGrows
  <2>6. rfqs'[y].count \in Nat /\ rfqs'[y].count <= Cardinality(Received(y))
    BY <2>1, <2>3, <2>4
  <2> QED
    BY <2>5, <2>6
<1> QED
  BY <1>4 DEF CountedReceived

\* Without a recount, the number shown is covered as long as none is lost.
LEMMA CountedStays ==
    ASSUME TypeOK, CountedReceived, UNCHANGED [y \in Rfq |-> rfqs[y].count],
           \A q \in Quote : quotes[q] # "absent" => quotes'[q] # "absent"
    PROVE  CountedReceived'
<1>1. ASSUME NEW y \in Rfq
      PROVE  rfqs'[y].count <= Cardinality(Received(y)')
  <2>1. rfqs[y].count \in Nat /\ rfqs[y].count <= Cardinality(Received(y))
    BY DEF TypeOK, Entity, CountedReceived
  <2>2. rfqs'[y].count = rfqs[y].count
    <3>1. [z \in Rfq |-> rfqs'[z].count][y] = [z \in Rfq |-> rfqs[z].count][y]
      OBVIOUS
    <3> QED
      BY <3>1
  <2> QED
    BY <2>1, <2>2, ReceivedGrows
<1> QED
  BY <1>1 DEF CountedReceived

\* RFQs that have left draft, as sets of the two states.
LEMMA QuotedStays ==
    ASSUME QuotedOnlyOncePublished,
           NEW O, {x \in Rfq : rfqs[x].status \notin {"absent", "draft"}}' =
                  {x \in Rfq : rfqs[x].status \notin {"absent", "draft"}} \cup O,
           \A q \in Quote : quotes'[q] # "absent" =>
               quotes[q] # "absent" \/ rfqs[RfqOf[q]].status \notin {"absent", "draft"}
    PROVE  QuotedOnlyOncePublished'
<1>1. ASSUME NEW q \in Quote, quotes'[q] # "absent"
      PROVE  rfqs'[RfqOf[q]].status \notin {"absent", "draft"}
  <2>1. RfqOf[q] \in Rfq
    BY ConstantsAssumption
  <2>2. rfqs[RfqOf[q]].status \notin {"absent", "draft"}
    BY <1>1 DEF QuotedOnlyOncePublished
  <2>3. RfqOf[q] \in {x \in Rfq : rfqs[x].status \notin {"absent", "draft"}}'
    BY <2>1, <2>2
  <2> QED
    BY <2>3
<1> QED
  BY <1>1 DEF QuotedOnlyOncePublished

\* Every step of module Awards keeps its consequences.
LEMMA AwardsKeepsSafe ==
    ASSUME TypeOK, AwardsSafe, [Market!Next]_(Market!market)
    PROVE  AwardsSafe'
<1> DEFINE accepted == {q \in Quote : quotes[q] = "accepted"}
           received == {q \in Quote : quotes[q] # "absent"}
           opened == {x \in Rfq : rfqs[x].status \notin {"absent", "draft"}}
           counted == [y \in Rfq |-> rfqs[y].count]
           Ids == \A a, b \in deals : a.id = b.id => a = b
<1>1. ASSUME accepted' = accepted, deals' = deals,
             \A d \in Deal : d \in announced => d \in announced'
      PROVE  AcceptedHaveDeals' /\ DealsAnnounced' /\ Ids'
  <2>1. \A q \in Quote : quotes'[q] = "accepted" <=> quotes[q] = "accepted"
    BY <1>1
  <2>2. \A a \in deals : a.id \in Deal
    BY DEF TypeOK
  <2> QED
    BY <1>1, <2>1, <2>2 DEF AwardsSafe, AcceptedHaveDeals, DealsAnnounced
<1>2. ASSUME received' = received, NEW O, opened' = opened \cup O
      PROVE  /\ QuotedOnlyOncePublished'
             /\ \A q \in Quote : quotes[q] # "absent" => quotes'[q] # "absent"
  <2>1. \A q \in Quote : quotes'[q] # "absent" <=> quotes[q] # "absent"
    BY <1>2
  <2> QED
    BY <1>2, <2>1, QuotedStays DEF AwardsSafe
<1>3. ASSUME NEW x \in Rfq, Market!Publish(x)
      PROVE  AwardsSafe'
  <2>1. /\ accepted' = accepted /\ deals' = deals /\ announced' = announced
        /\ received' = received /\ opened' = opened \cup {x}
    BY <1>3 DEF Market!Publish
  <2>2. Market!Recount(x)
    BY <1>3 DEF Market!Publish
  <2>3. CountedReceived'
    BY <1>2, <2>1, <2>2, RecountCovered DEF AwardsSafe
  <2> QED
    BY <1>1, <1>2, <2>1, <2>3 DEF AwardsSafe
<1>4. ASSUME NEW q \in Quote, Market!Receive(q)
      PROVE  AwardsSafe'
  <2>1. /\ accepted' = accepted /\ deals' = deals /\ announced' = announced
        /\ received' = received \cup {q} /\ opened' = opened /\ counted' = counted
        /\ RfqOf[q] \in opened
    BY <1>4 DEF Market!Receive
  <2>2. /\ \A o \in Quote : quotes[o] # "absent" => quotes'[o] # "absent"
        /\ \A o \in Quote : quotes'[o] # "absent" => quotes[o] # "absent" \/ o = q
    BY <2>1
  <2>3. CountedReceived'
    BY <2>1, <2>2, CountedStays DEF AwardsSafe
  <2>4. opened' = opened \cup {} /\ rfqs[RfqOf[q]].status \notin {"absent", "draft"}
    BY <2>1
  <2>5. QuotedOnlyOncePublished'
    BY <2>2, <2>4, QuotedStays DEF AwardsSafe
  <2> QED
    BY <1>1, <2>1, <2>3, <2>5 DEF AwardsSafe
<1>5. ASSUME NEW d \in Deal, Market!Announce(d)
      PROVE  AwardsSafe'
  <2>1. /\ accepted' = accepted /\ deals' = deals /\ announced' = announced \cup {d}
        /\ received' = received /\ opened' = opened \cup {} /\ counted' = counted
    BY <1>5 DEF Market!Announce
  <2>2. CountedReceived'
    BY <1>2, <2>1, CountedStays DEF AwardsSafe
  <2> QED
    BY <1>1, <1>2, <2>1, <2>2 DEF AwardsSafe
<1>6. ASSUME NEW q \in Quote, NEW d \in Deal, Market!Award(q, d)
      PROVE  AwardsSafe'
  <2> DEFINE new == [id |-> d, quote |-> q]
  <2>1. /\ accepted' = accepted \cup {q} /\ deals' = deals \cup {new}
        /\ d \in announced /\ announced' = announced /\ \A a \in deals : a.id # d
        /\ received' = received /\ opened' = opened \cup {}
    BY <1>6 DEF Market!Award
  <2>2. Market!Recount(RfqOf[q]) /\ RfqOf[q] \in Rfq
    BY <1>6, ConstantsAssumption DEF Market!Award
  <2>3. CountedReceived' /\ QuotedOnlyOncePublished'
    BY <1>2, <2>1, <2>2, RecountCovered DEF AwardsSafe
  <2>4. \A o \in Quote : quotes'[o] = "accepted" <=> quotes[o] = "accepted" \/ o = q
    BY <2>1
  <2>5. new.id = d /\ new.quote = q
    OBVIOUS
  <2> HIDE DEF new, accepted, received, opened
  <2>6. AcceptedHaveDeals'
    BY <2>1, <2>4, <2>5 DEF AwardsSafe, AcceptedHaveDeals
  <2>7. Ids' /\ DealsAnnounced'
    BY <2>1, <2>5 DEF AwardsSafe, DealsAnnounced
  <2> QED
    BY <2>3, <2>6, <2>7 DEF AwardsSafe
<1>7. CASE UNCHANGED Market!market
  <2>1. /\ accepted' = accepted /\ deals' = deals /\ announced' = announced
        /\ received' = received /\ opened' = opened \cup {} /\ counted' = counted
    BY <1>7 DEF Market!market
  <2>2. CountedReceived'
    BY <1>2, <2>1, CountedStays DEF AwardsSafe
  <2> QED
    BY <1>1, <1>2, <2>1, <2>2 DEF AwardsSafe
<1> QED
  BY <1>3, <1>4, <1>5, <1>6, <1>7 DEF Market!Next

\* The abstract specification alone, of whatever has these tables, implies
\* that counts are covered, acceptances and deals are each other's, deals
\* were announced and have ids of their own, and RFQs with quotations have
\* left draft.  So whoever keeps to it need not know how the handlers do.
THEOREM AwardsSuffice == Market!Spec /\ []TypeOK => []AwardsSafe
<1>1. ASSUME TypeOK, Market!Init
      PROVE  AwardsSafe
  <2>1. /\ deals = {} /\ [x \in Rfq |-> rfqs[x].count] = [x \in Rfq |-> 0]
        /\ {q \in Quote : quotes[q] # "absent"} = {}
        /\ {q \in Quote : quotes[q] = "accepted"} = {}
    BY <1>1 DEF Market!Init
  <2>2. \A q \in Quote : quotes[q] = "absent" /\ quotes[q] # "accepted"
    BY <2>1
  <2>3. ASSUME NEW x \in Rfq
        PROVE  rfqs[x].count <= Cardinality(Received(x))
    <3>1. [y \in Rfq |-> rfqs[y].count][x] = 0
      BY <2>1
    <3>2. rfqs[x].count = 0
      BY <3>1
    <3>3. Received(x) = {}
      BY <2>2 DEF Received
    <3>4. Cardinality(Received(x)) = 0
      BY <3>3, FS_EmptySet
    <3> QED
      BY <3>2, <3>4
  <2> QED
    BY <2>1, <2>2, <2>3
       DEF AwardsSafe, CountedReceived, AcceptedHaveDeals, DealsAnnounced, QuotedOnlyOncePublished
<1>2. TypeOK /\ AwardsSafe /\ [Market!Next]_(Market!market) => AwardsSafe'
  BY AwardsKeepsSafe
<1> QED
  BY <1>1, <1>2, PTL DEF Market!Spec

=============================================================================
