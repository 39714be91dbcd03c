-------------------------------- MODULE Rfqs --------------------------------
(***************************************************************************)
(* From a request for quotation to a deal: backend/src/rfqs (RfqsService,  *)
(* its controller, the RFQ and Quotation entities) and the two workflows   *)
(* that backend/src/workflows attaches to it: onRfqPublished, started by   *)
(* the controller and not awaited, and onQuoteAccepted, which creates the  *)
(* deal in a transaction of its own.                                       *)
(*                                                                         *)
(* As in module Payments a handler in progress is a frame in requests; it  *)
(* works on a copy of the RFQ row it read first and saves it in two halves *)
(* (module Repository).  The transaction's writes show at Commit; from its *)
(* UPDATE of the RFQ until then it holds the lock of that row, for which   *)
(* every other UPDATE of it waits.  A deal here stands for what the        *)
(* transaction inserts: the deal row with its milestones, its compliance   *)
(* checklist and its advance payment.                                      *)
(*                                                                         *)
(* All of them share the connections of one pool.  A query takes one for   *)
(* as long as it runs; a save keeps it from its SELECT to its UPDATE, even *)
(* while that waits for a row lock; an acceptance keeps one throughout and *)
(* asks for a second one for what it does outside of its transaction.      *)
(***************************************************************************)
EXTENDS Integers, FiniteSets, Repository

CONSTANTS
    Rfq,       \* ids of RFQs
    Quote,     \* ids of quotations
    RfqOf,     \* the RFQ a quotation answers
    Deal,      \* ids of deals: bounds the number of acceptances
    Request,   \* slots for handlers in progress: bounds concurrency only
    PoolSize,  \* connections in the pool (20)
    MayFail    \* may a database call fail, or the server stop, half-way?

ASSUME ConstantsAssumption ==
    /\ RfqOf \in [Quote -> Rfq]
    /\ IsFiniteSet(Quote)
    /\ PoolSize \in Nat \ {0}
    /\ MayFail \in BOOLEAN

RfqStatus == {"draft", "published", "matching", "reviewing_quotes",
              "negotiating", "awarded", "expired", "cancelled"}

QuoteStatus ==
    {"draft", "sent", "under_review", "accepted", "rejected", "expired"}

VARIABLES
    rfqs,       \* the rfqs table; status "absent": no row yet
    quotes,     \* the status of each quotation; "absent": no row yet
    deals,      \* the deals committed, each with its winning quotation
    requests,   \* the frame of the handler in each slot
    invited,    \* RFQs whose matching suppliers have been notified
    announced   \* deals whose parties have been notified

vars == <<rfqs, quotes, deals, requests, invited, announced>>

\* A row of rfqs, and the in-memory copy of one. count: quoteReceivedCount.
Entity == [id     : Rfq,
           status : RfqStatus \cup {"absent"},
           count  : Nat]

Columns == {"id", "status", "count"}

\* columns: those of an UPDATE under way; quotes and deals: the quotation
\* inserted or accepted and the deal inserted; next: what a save leads to.
Frame == [step    : {"idle", "match", "invite", "quote", "save", "update",
                     "begin", "award", "lock", "announce", "commit"},
          copies  : SUBSET Entity,
          columns : SUBSET Columns,
          quotes  : SUBSET Quote,
          deals   : SUBSET Deal,
          next    : {"idle", "match"}]

Idle == [step |-> "idle", copies |-> {}, columns |-> {},
         quotes |-> {}, deals |-> {}, next |-> "idle"]

At(step, entity) == [Idle EXCEPT !.step = step, !.copies = {entity}]

Quoting(entity, q) == [At("quote", entity) EXCEPT !.quotes = {q}]

Accepting(q, d) == [Idle EXCEPT !.step = "begin", !.quotes = {q}, !.deals = {d}]

Awarding(entity, q, d) ==
    [At("award", entity) EXCEPT !.quotes = {q}, !.deals = {d}]

SetStatus(entity, s) == [entity EXCEPT !.status = s]

Counted(entity) == [entity EXCEPT !.count = @ + 1]

Exists(x) == rfqs[x].status # "absent"

\* The quotations received for an RFQ.
Received(x) == {q \in Quote : RfqOf[q] = x /\ quotes[q] # "absent"}

\* The ids a new row may get.
NewQuote(q) == /\ quotes[q] = "absent"
               /\ \A r \in Request : q \notin requests[r].quotes

NewDeal(d) == /\ d \notin announced
              /\ \A c \in deals : c.id # d
              /\ \A r \in Request : d \notin requests[r].deals

\* Mutant of Holds: the SELECT of a save locks the row for share already.
HoldsSinceCompare(r) == requests[r].step \in {"lock", "announce", "commit"}

\* Transactions between their UPDATEs and their end hold row locks: that of
\* the RFQ if they changed it, and that of the quotation they accept.
Holds(r) == requests[r].step \in {"announce", "commit"}

RfqLocked(x) == \E r \in Request : /\ Holds(r)
                                   /\ requests[r].columns # {}
                                   /\ \E e \in requests[r].copies : e.id = x

QuoteLocked(q) == /\ quotes[q] # "accepted"
                  /\ \E r \in Request : Holds(r) /\ q \in requests[r].quotes

\* The handlers that keep a connection of the pool: saves between their
\* SELECT and their UPDATE, and transactions.
Keeps(r) ==
    requests[r].step \in {"update", "begin", "award", "lock", "announce", "commit"}

\* Is there a connection for the next query?
Free == Cardinality({r \in Request : Keeps(r)}) < PoolSize

\* The handlers that ask the pool for a connection.
Asks(r) ==
    requests[r].step \in {"match", "invite", "quote", "save", "begin", "announce"}

Init ==
    /\ rfqs = [x \in Rfq |-> [id |-> x, status |-> "absent", count |-> 0]]
    /\ quotes = [q \in Quote |-> "absent"]
    /\ deals = {}
    /\ requests = [r \in Request |-> Idle]
    /\ invited = {}
    /\ announced = {}

-----------------------------------------------------------------------------
(* How handlers begin and go on.                                           *)

Continue(r, frame) ==
    /\ requests' = [requests EXCEPT ![r] = frame]
    /\ UNCHANGED <<rfqs, quotes, deals, invited, announced>>

Begin(r, frame) == requests[r] = Idle /\ Free /\ Continue(r, frame)

\* RfqsService.create.
CreateRfq(x) ==
    /\ ~ Exists(x)
    /\ Free
    /\ rfqs' = [rfqs EXCEPT ![x].status = "draft"]
    /\ UNCHANGED <<quotes, deals, requests, invited, announced>>

\* RfqsService.publish, whatever the status read; once it is saved, the
\* controller starts the matching workflow.
Publish(r, x) ==
    /\ Exists(x)
    /\ Begin(r, [At("save", SetStatus(rfqs[x], "published"))
                    EXCEPT !.next = "match"])

-----------------------------------------------------------------------------
(* onRfqPublished.                                                         *)

Match(r) ==
    /\ requests[r].step = "match"
    /\ Free
    /\ \E e \in requests[r].copies : Continue(r, At("invite", rfqs[e.id]))

\* POST /workflows/rfq/:id/publish runs the same workflow on any RFQ.
TriggerMatch(r, x) ==
    /\ Exists(x)
    /\ Begin(r, At("invite", rfqs[x]))

\* The members of the matching suppliers, if there are any, are notified;
\* then the copy read before is saved with its new status.
NotifySuppliers(r) ==
    /\ requests[r].step = "invite"
    /\ Free
    /\ \E e \in requests[r].copies :
          /\ invited' \in {invited, invited \cup {e.id}}
          /\ requests' = [requests EXCEPT
                             ![r] = At("save", SetStatus(e, "matching"))]
    /\ UNCHANGED <<rfqs, quotes, deals, announced>>

-----------------------------------------------------------------------------
(* createQuotation.                                                        *)

\* Mutant of SubmitQuote: the status of the RFQ is not checked.
SubmitQuoteAnytime(r, q) ==
    /\ Exists(RfqOf[q])
    /\ NewQuote(q)
    /\ Begin(r, Quoting(rfqs[RfqOf[q]], q))

SubmitQuote(r, q) ==
    /\ rfqs[RfqOf[q]].status = "published"
    /\ NewQuote(q)
    /\ Begin(r, Quoting(rfqs[RfqOf[q]], q))

\* Mutant of InsertQuote: the copy to be saved counts the quotation, but the
\* quotation itself is still to be inserted.
InsertQuoteCountFirst(r) ==
    /\ requests[r].step = "quote"
    /\ Free
    /\ \E e \in requests[r].copies : Continue(r, At("save", Counted(e)))

\* The quotation is inserted; the copy of the RFQ read before is then saved
\* with one quotation more.
InsertQuote(r) ==
    /\ requests[r].step = "quote"
    /\ Free
    /\ \E q \in requests[r].quotes, e \in requests[r].copies :
          /\ quotes' = [quotes EXCEPT ![q] = "sent"]
          /\ requests' = [requests EXCEPT ![r] = At("save", Counted(e))]
    /\ UNCHANGED <<rfqs, deals, invited, announced>>

-----------------------------------------------------------------------------
(* rfqRepo.save, outside of a transaction.                                 *)

\* The handler whose save is complete.
Saved(r) ==
    IF requests[r].next = "match"
    THEN [Idle EXCEPT !.step = "match", !.copies = requests[r].copies]
    ELSE Idle

SaveCompare(r) ==
    /\ requests[r].step = "save"
    /\ Free
    /\ \E e \in requests[r].copies :
          LET dirty == Dirty(e, rfqs[e.id])
          IN  IF dirty = {}
              THEN Continue(r, Saved(r))
              ELSE Continue(r, [requests[r] EXCEPT !.step = "update",
                                                   !.columns = dirty])

SaveUpdate(r) ==
    /\ requests[r].step = "update"
    /\ \E e \in requests[r].copies :
          /\ ~ RfqLocked(e.id)
          /\ rfqs' = [rfqs EXCEPT ![e.id] = Flush(e, requests[r].columns, @)]
    /\ requests' = [requests EXCEPT ![r] = Saved(r)]
    /\ UNCHANGED <<quotes, deals, invited, announced>>

-----------------------------------------------------------------------------
(* onQuoteAccepted.                                                        *)

\* The acceptance takes a connection and starts its transaction.
AcceptQuote(r, q, d) ==
    /\ quotes[q] # "absent"
    /\ NewDeal(d)
    /\ Begin(r, Accepting(q, d))

\* The quotation is read with its RFQ, through another connection; neither
\* status is looked at.
ReadQuote(r) ==
    /\ requests[r].step = "begin"
    /\ Free
    /\ \E q \in requests[r].quotes, d \in requests[r].deals :
          Continue(r, Awarding(SetStatus(rfqs[RfqOf[q]], "awarded"), q, d))

\* The deal is inserted; save(rfq), first half.
AwardCompare(r) ==
    /\ requests[r].step = "award"
    /\ \E e \in requests[r].copies :
          Continue(r, [requests[r] EXCEPT !.step = "lock",
                                          !.columns = Dirty(e, rfqs[e.id])])

\* Mutant of AwardLock: saves the quotation outside of the transaction.
AwardLockQuoteAtOnce(r) ==
    /\ requests[r].step = "lock"
    /\ requests[r].columns # {} =>
          \A e \in requests[r].copies : ~ RfqLocked(e.id)
    /\ quotes' = [q \in Quote |-> IF q \in requests[r].quotes
                                  THEN "accepted" ELSE quotes[q]]
    /\ requests' = [requests EXCEPT ![r].step = "announce"]
    /\ UNCHANGED <<rfqs, deals, invited, announced>>

\* save(rfq), second half, and save(quote): both UPDATEs wait for the locks
\* of other transactions, and this one then holds them until its end.
AwardLock(r) ==
    /\ requests[r].step = "lock"
    /\ requests[r].columns # {} =>
          \A e \in requests[r].copies : ~ RfqLocked(e.id)
    /\ \A q \in requests[r].quotes : ~ QuoteLocked(q)
    /\ Continue(r, [requests[r] EXCEPT !.step = "announce"])

\* Mutant of AnnounceDeal: a notification that fails does not stop the handler.
AnnounceDealIfPossible(r) ==
    /\ requests[r].step = "announce"
    /\ Free
    /\ announced' \in {announced, announced \cup requests[r].deals}
    /\ requests' = [requests EXCEPT ![r].step = "commit"]
    /\ UNCHANGED <<rfqs, quotes, deals, invited>>

\* notifyDealCreated, which does not use the transaction's connection.
AnnounceDeal(r) ==
    /\ requests[r].step = "announce"
    /\ Free
    /\ announced' = announced \cup requests[r].deals
    /\ requests' = [requests EXCEPT ![r].step = "commit"]
    /\ UNCHANGED <<rfqs, quotes, deals, invited>>

\* Mutant of Accepted: rejects the others, but with a status the column's enum
\* does not have.
AcceptedOthersDeclined(x, q) ==
    [o \in Quote |-> IF o = q THEN "accepted"
                     ELSE IF RfqOf[o] = x /\ quotes[o] = "sent" THEN "declined"
                     ELSE quotes[o]]

\* The quotations left after one is accepted, with the condition of the
\* update that follows ("Reject other quotes") as it is written.
Accepted(x, q) ==
    LET saved == [quotes EXCEPT ![q] = "accepted"]
    IN  [o \in Quote |->
            IF RfqOf[o] = x /\ o = q /\ saved[o] = "sent"
            THEN "rejected" ELSE saved[o]]

\* Mutant of Commit: an RFQ that is awarded again loses its former deal, and
\* the quotation it was made from is rejected.
CommitReplacing(r) ==
    /\ requests[r].step = "commit"
    /\ \E q \in requests[r].quotes, d \in requests[r].deals, e \in requests[r].copies :
          /\ rfqs' = [rfqs EXCEPT ![e.id] = Flush(e, requests[r].columns, @)]
          /\ quotes' = [o \in Quote |->
                           IF o = q THEN "accepted"
                           ELSE IF RfqOf[o] = e.id /\ quotes[o] = "accepted"
                           THEN "rejected" ELSE quotes[o]]
          /\ deals' = {c \in deals : RfqOf[c.quote] # e.id}
                         \cup {[id |-> d, quote |-> q]}
    /\ requests' = [requests EXCEPT ![r] = Idle]
    /\ UNCHANGED <<invited, announced>>

Commit(r) ==
    /\ requests[r].step = "commit"
    /\ \E q \in requests[r].quotes, d \in requests[r].deals, e \in requests[r].copies :
          /\ rfqs' = [rfqs EXCEPT ![e.id] = Flush(e, requests[r].columns, @)]
          /\ quotes' = Accepted(e.id, q)
          /\ deals' = deals \cup {[id |-> d, quote |-> q]}
    /\ requests' = [requests EXCEPT ![r] = Idle]
    /\ UNCHANGED <<invited, announced>>

\* A handler stops half-way: a call fails, or the server does. What it saved
\* stays, except in a transaction, which is rolled back.
Fail(r) ==
    /\ MayFail
    /\ requests[r] # Idle
    /\ Continue(r, Idle)

\* Mutant of Timeout: the pool has no limit on the time of waiting, which is
\* what the driver does unless it is told otherwise.
TimeoutNever(r) == FALSE

\* The pool has had no connection for connectionTimeoutMillis: the query that
\* waits for one fails, and its handler with it.
Timeout(r) ==
    /\ Asks(r)
    /\ ~ Free
    /\ Continue(r, Idle)

Next ==
    \/ \E x \in Rfq : CreateRfq(x)
    \/ \E r \in Request, x \in Rfq : Publish(r, x) \/ TriggerMatch(r, x)
    \/ \E r \in Request, q \in Quote : SubmitQuote(r, q)
    \/ \E r \in Request, q \in Quote, d \in Deal : AcceptQuote(r, q, d)
    \/ \E r \in Request : Match(r)
    \/ \E r \in Request : NotifySuppliers(r)
    \/ \E r \in Request : InsertQuote(r)
    \/ \E r \in Request : SaveCompare(r)
    \/ \E r \in Request : SaveUpdate(r)
    \/ \E r \in Request : ReadQuote(r)
    \/ \E r \in Request : AwardCompare(r)
    \/ \E r \in Request : AwardLock(r)
    \/ \E r \in Request : AnnounceDeal(r)
    \/ \E r \in Request : Commit(r)
    \/ \E r \in Request : Timeout(r)
    \/ \E r \in Request : Fail(r)

Spec == Init /\ [][Next]_vars

Step(r) ==
    \/ Match(r) \/ NotifySuppliers(r) \/ InsertQuote(r) \/ SaveCompare(r)
    \/ ReadQuote(r) \/ AwardCompare(r) \/ AnnounceDeal(r) \/ Commit(r)
    \/ Timeout(r)

\* A handler that was started goes on: the event loop runs every continuation
\* that is ready, the database answers, and the pool hands out a connection
\* or gives up. PostgreSQL queues those waiting for a row lock, so whoever
\* waits while it keeps becoming free obtains it.
Fairness == \A r \in Request : /\ WF_vars(Step(r))
                               /\ SF_vars(SaveUpdate(r) \/ AwardLock(r))

FairSpec == Spec /\ Fairness

-----------------------------------------------------------------------------
(* Properties.                                                             *)

\* Every variable has its type, and every row is stored under its own id.
TypeOK ==
    /\ rfqs \in [Rfq -> Entity]
    /\ \A x \in Rfq : rfqs[x].id = x
    /\ quotes \in [Quote -> QuoteStatus \cup {"absent"}]
    /\ deals \subseteq [id : Deal, quote : Quote]
    /\ requests \in [Request -> Frame]
    /\ invited \subseteq Rfq
    /\ announced \subseteq Deal

\* The buyer is never shown more quotations than were received: every save
\* of an old copy, by any handler, puts back a count that was once right.
CountedReceived == \A x \in Rfq : rfqs[x].count <= Cardinality(Received(x))

\* A quotation is accepted exactly if a deal was made from it: the deal, its
\* milestones and its payment appear with the acceptance or not at all.
AcceptedHaveDeals ==
    \A q \in Quote : quotes[q] = "accepted" <=> \E d \in deals : d.quote = q

\* The parties of every deal have been notified of it.
DealsAnnounced == \A d \in deals : d.id \in announced

\* An RFQ that has received quotations has been published, and no copy read
\* before that takes it back to draft.
QuotedOnlyOncePublished ==
    \A q \in Quote : quotes[q] # "absent" =>
        rfqs[RfqOf[q]].status \notin {"absent", "draft"}

\* An RFQ leads to at most one deal.
OneDealPerRfq ==
    \A c, d \in deals : RfqOf[c.quote] = RfqOf[d.quote] => c = d

Market == INSTANCE Awards WITH
    open      <- {x \in Rfq : rfqs[x].status \notin {"absent", "draft"}},
    received  <- {q \in Quote : quotes[q] # "absent"},
    counted   <- [x \in Rfq |-> rfqs[x].count],
    accepted  <- {q \in Quote : quotes[q] = "accepted"},
    announced <- announced,
    awards    <- deals

\* The handlers, their old copies of the RFQ, their transactions and what
\* interrupts them keep what module Awards promises: no save takes back what
\* an earlier step made known, and an acceptance, which reads, compares, locks,
\* announces and writes in steps of its own, takes effect in one.
ImplementsAwards == Market!Spec

\* A published RFQ whose suppliers are invited to quote stays open for their
\* quotations until one wins.
PublishedStaysOpen ==
    [][\A x \in invited' : rfqs[x].status = "published"
                              => rfqs'[x].status \in {"published", "awarded"}]_vars

\* Every handler comes to an end: acceptances that wait for each other's row
\* locks, saves that wait for theirs, and those who keep a connection while
\* they ask for another, do not wait for ever.
HandlersFinish == \A r \in Request : requests[r] # Idle ~> requests[r] = Idle

=============================================================================
