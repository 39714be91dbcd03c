------------------------------- MODULE Inbox --------------------------------
(***************************************************************************)
(* The notifications of one user: backend/src/notifications, and the top   *)
(* bar of the web application, which shows them with a badge that counts   *)
(* the unread ones (web/src/components/layout/TopBar).                     *)
(*                                                                         *)
(* The bar shows what its last query answered.  It repeats the query every *)
(* half minute, and at once when a notification was marked as read;        *)
(* react-query then drops the query that is under way.  The answer of the  *)
(* server comes from several SELECTs, and a handler that marks one         *)
(* notification saves a copy of it (module Repository).                    *)
(*                                                                         *)
(* The counts that the handlers also push through a socket are left out:   *)
(* no page of the application listens to it.  So is what the service does  *)
(* in create, which nothing calls: the workflows write to the table.       *)
(***************************************************************************)
EXTENDS Naturals, FiniteSets, Repository

CONSTANTS
    Notification,  \* ids of notifications of the user
    Request        \* slots for handlers in progress

ASSUME ConstantsAssumption == IsFiniteSet(Notification)

VARIABLES
    rows,      \* the notifications table
    requests,  \* the frame of the handler in each slot
    fetch,     \* the bar's query under way
    bar,       \* what the bar shows
    told       \* notifications the bar was told are read, since the page
               \* was loaded (only to state NoStaleUnread)

vars == <<rows, requests, fetch, bar, told>>

\* created: is there a row?  read stands for isRead and readAt, which are
\* always written together.
Row == [created : BOOLEAN, read : BOOLEAN, archived : BOOLEAN]

Columns == {"read", "archived"}

\* ids: what the handler marks as read; waits: does the bar wait for it?
Frame == [step    : {"idle", "save", "update", "answer"},
          ids     : SUBSET Notification,
          copies  : SUBSET Row,
          columns : SUBSET Columns,
          waits   : BOOLEAN]

Idle == [step |-> "idle", ids |-> {}, copies |-> {}, columns |-> {},
         waits |-> FALSE]

Saving(n, copy, waits) ==
    [Idle EXCEPT !.step = "save", !.ids = {n}, !.copies = {copy},
                 !.waits = waits]

Updating(frame, columns) ==
    [frame EXCEPT !.step = "update", !.columns = columns]

\* A handler whose answer nobody waits for is done.
Answering(ids, waits) ==
    IF waits THEN [Idle EXCEPT !.step = "answer", !.ids = ids, !.waits = TRUE]
             ELSE Idle

\* step: the SELECT that comes next; items: those the list shows as unread.
Fetch == [step   : {"none", "list", "count", "answer"},
          items  : SUBSET Notification,
          unread : Nat]

NoFetch == [step |-> "none", items |-> {}, unread |-> 0]

NewFetch == [NoFetch EXCEPT !.step = "list"]

\* stale: the query is invalidated and has not been answered since.
Bar == [items : SUBSET Notification, unread : Nat, stale : BOOLEAN]

NoData == [items |-> {}, unread |-> 0, stale |-> FALSE]

Created == {n \in Notification : rows[n].created}

\* recipientUserId, isRead = false, isArchived = false
Unread == {n \in Created : ~ rows[n].read /\ ~ rows[n].archived}

Init ==
    /\ rows = [n \in Notification |->
                  [created |-> FALSE, read |-> FALSE, archived |-> FALSE]]
    /\ requests = [r \in Request |-> Idle]
    /\ fetch = NewFetch
    /\ bar = NoData
    /\ told = {}

-----------------------------------------------------------------------------
(* NotificationsService.                                                   *)

Continue(r, frame) ==
    /\ requests' = [requests EXCEPT ![r] = frame]
    /\ UNCHANGED <<fetch, bar, told>>

Begin(r, frame) == requests[r] = Idle /\ Continue(r, frame)

\* The workflows save their notifications one by one, each as a new row.
Create(n) ==
    /\ n \notin Created
    /\ rows' = [rows EXCEPT ![n].created = TRUE]
    /\ UNCHANGED <<requests, fetch, bar, told>>

\* The bar asks for those it shows as unread, other clients for any.
MarkRead(r, n, waits) ==
    /\ n \in Created
    /\ waits => n \in bar.items
    /\ Begin(r, Saving(n, [rows[n] EXCEPT !.read = TRUE], waits))
    /\ UNCHANGED rows

SaveCompare(r) ==
    /\ requests[r].step = "save"
    /\ \E n \in requests[r].ids, copy \in requests[r].copies :
          LET dirty == Dirty(copy, rows[n])
          IN  Continue(r, IF dirty = {}
                          THEN Answering({n}, requests[r].waits)
                          ELSE Updating(requests[r], dirty))
    /\ UNCHANGED rows

SaveUpdate(r) ==
    /\ requests[r].step = "update"
    /\ \E n \in requests[r].ids, copy \in requests[r].copies :
          /\ rows' = [rows EXCEPT ![n] = Flush(copy, requests[r].columns, @)]
          /\ Continue(r, Answering({n}, requests[r].waits))

\* Mutant of MarkAllRead: every column of the rows is written.
MarkAllReadAnew(r, waits) ==
    /\ waits => bar.unread > 0
    /\ rows' = [n \in Notification |->
                   [created |-> n \in Created, read |-> n \in Created,
                    archived |-> FALSE]]
    /\ Begin(r, Answering(Created, waits))

\* One UPDATE. The bar has the button while its badge counts something.
MarkAllRead(r, waits) ==
    /\ waits => bar.unread > 0
    /\ rows' = [n \in Notification |->
                   [rows[n] EXCEPT !.read = @ \/ n \in Created]]
    /\ Begin(r, Answering(Created, waits))

\* One UPDATE. No page has a button for it.
Dismiss(n) ==
    /\ n \in Created
    /\ rows' = [rows EXCEPT ![n].archived = TRUE]
    /\ UNCHANGED <<requests, fetch, bar, told>>

-----------------------------------------------------------------------------
(* TopBar.                                                                 *)

\* Mutant of Answered: the query under way is not dropped.
AnsweredInPlace(r) ==
    /\ requests[r].step = "answer"
    /\ requests' = [requests EXCEPT ![r] = Idle]
    /\ told' = told \cup requests[r].ids
    /\ bar' = [bar EXCEPT !.stale = TRUE]
    /\ fetch' = IF fetch.step = "none" THEN NewFetch ELSE fetch
    /\ UNCHANGED rows

\* onSuccess of both mutations: invalidateQueries.
Answered(r) ==
    /\ requests[r].step = "answer"
    /\ requests' = [requests EXCEPT ![r] = Idle]
    /\ told' = told \cup requests[r].ids
    /\ bar' = [bar EXCEPT !.stale = TRUE]
    /\ fetch' = NewFetch
    /\ UNCHANGED rows

\* Mutant of Poll: only while there is something on the badge.
PollUnread ==
    /\ fetch.step = "none"
    /\ bar.unread > 0
    /\ fetch' = NewFetch
    /\ UNCHANGED <<rows, requests, bar, told>>

\* refetchInterval
Poll ==
    /\ fetch.step = "none"
    /\ fetch' = NewFetch
    /\ UNCHANGED <<rows, requests, bar, told>>

\* findAll: the list, ...
FetchList ==
    /\ fetch.step = "list"
    /\ fetch' = [fetch EXCEPT !.step = "count", !.items = Unread]
    /\ UNCHANGED <<rows, requests, bar, told>>

\* Mutant of FetchCount: those of the list are added.
FetchCountTwice ==
    /\ fetch.step = "count"
    /\ fetch' = [fetch EXCEPT !.step = "answer",
                     !.unread = Cardinality(Unread) + Cardinality(fetch.items)]
    /\ UNCHANGED <<rows, requests, bar, told>>

\* ... and then the number of unread ones.
FetchCount ==
    /\ fetch.step = "count"
    /\ fetch' = [fetch EXCEPT !.step = "answer",
                              !.unread = Cardinality(Unread)]
    /\ UNCHANGED <<rows, requests, bar, told>>

FetchAnswered ==
    /\ fetch.step = "answer"
    /\ bar' = [items |-> fetch.items, unread |-> fetch.unread, stale |-> FALSE]
    /\ fetch' = NoFetch
    /\ UNCHANGED <<rows, requests, told>>

\* The query fails: it is tried again, and given up after some times. The bar
\* goes on showing what it has.
FetchFails ==
    /\ fetch.step # "none"
    /\ fetch' \in {NoFetch, NewFetch}
    /\ UNCHANGED <<rows, requests, bar, told>>

\* The page is loaded again: by the user, or because a notification that was
\* clicked leads elsewhere. What was sent goes on without anybody waiting.
LoadPage ==
    /\ requests' = [r \in Request |-> IF requests[r].step = "answer" THEN Idle
                                      ELSE [requests[r] EXCEPT !.waits = FALSE]]
    /\ fetch' = NewFetch
    /\ bar' = NoData
    /\ told' = {}
    /\ UNCHANGED rows

Next ==
    \/ \E n \in Notification : Create(n) \/ Dismiss(n)
    \/ \E r \in Request :
          \/ \E n \in Notification, waits \in BOOLEAN : MarkRead(r, n, waits)
          \/ \E waits \in BOOLEAN : MarkAllRead(r, waits)
          \/ SaveCompare(r)
          \/ SaveUpdate(r)
          \/ Answered(r)
    \/ Poll
    \/ FetchList
    \/ FetchCount
    \/ FetchAnswered
    \/ FetchFails
    \/ LoadPage

Spec == Init /\ [][Next]_vars

\* The timer of the bar fires, as it does while its page is visible, and its
\* queries are answered, at least once in a while before they fail or the user
\* loads the page again.
Fairness ==
    WF_vars(Poll) /\ SF_vars(FetchList) /\ SF_vars(FetchCount)
                  /\ SF_vars(FetchAnswered)

FairSpec == Spec /\ Fairness

-----------------------------------------------------------------------------
(* What must hold.                                                         *)

\* Every variable keeps its type, a row is read or dismissed only if it is
\* there, and no badge counts more than the user has.
TypeOK ==
    /\ rows \in [Notification -> Row]
    /\ \A n \in Notification : rows[n].read \/ rows[n].archived => rows[n].created
    /\ requests \in [Request -> Frame]
    /\ fetch \in Fetch /\ fetch.unread <= Cardinality(Notification)
    /\ bar \in Bar /\ bar.unread <= Cardinality(Notification)
    /\ told \subseteq Notification

\* The bar never shows a notification as unread after it was told that it is
\* read, once its query has been answered again: neither does a query begun
\* before come back late, nor a save of an old copy make it unread.
NoStaleUnread == ~ bar.stale => bar.items \cap told = {}

\* Every copy of a notification that a handler has yet to save is dismissed
\* like the row.
DismissedThroughout(n) ==
    /\ rows[n].archived
    /\ \A r \in Request : n \in requests[r].ids =>
          \A copy \in requests[r].copies : copy.archived

\* A dismissed notification stays dismissed, unless a handler that marks it as
\* read has read it before: that one saves its copy with the rest.
DismissedForGood ==
    [][\A n \in Notification :
          DismissedThroughout(n) => DismissedThroughout(n)']_vars

\* If after some time no handler marks anything any more, then the badge, and
\* the list, come to show the unread notifications again and again: whatever
\* was missed, failed, or overtaken meanwhile is made up for.
BadgeConverges ==
    <>[](\A r \in Request : requests[r] = Idle)
        => []<>(bar.items = Unread /\ bar.unread = Cardinality(Unread))

=============================================================================
