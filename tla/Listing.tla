------------------------------ MODULE Listing -------------------------------
(***************************************************************************)
(* Paging through a list: findAll of backend/src/organizations and of      *)
(* backend/src/products, which are the same function over another table,   *)
(* and the client that asks for one page after the other.                  *)
(*                                                                         *)
(* A page is ordered by one column, the creation time unless the client    *)
(* names another, either way round, and cut off at a limit; a full page    *)
(* comes with a cursor, the creation time and the id of its last row, and  *)
(* the next page is taken from the rows whose (creation time, id) is less. *)
(* A page of organizations is one query.  Products are joined with their   *)
(* organization, for which TypeORM sends two: one for the ids of the page, *)
(* and one, with the same conditions, for the rows that have these ids.    *)
(* Rows are inserted and removed between any two queries.                  *)
(*                                                                         *)
(* The database keeps microseconds, and the cursor, made of a Date, only   *)
(* milliseconds.  Ties in the sort column come in any order.               *)
(***************************************************************************)
EXTENDS Integers, FiniteSets

CONSTANTS
    Id,            \* ids of rows: random uuids, ordered but not by time
    Micros,        \* microseconds in a millisecond
    DefaultLimit,  \* rows of a page if the client asks for no number
    MaxLimit,      \* rows of a page at most
    Asked,         \* numbers of rows a client asks for; 0: none given
    MaxTime        \* bound on the creation times, in microseconds

ASSUME ConstantsAssumption ==
    /\ Id \subseteq Nat
    /\ Micros \in Nat \ {0} /\ MaxTime \in Nat
    /\ DefaultLimit \in 1 .. MaxLimit /\ MaxLimit \in Nat
    /\ Asked \subseteq Nat

VARIABLES
    rows,    \* the table
    list,    \* what the client lists
    sort,    \* the client's sort parameter, the same for every page
    limit,   \* rows of a page
    cursor,  \* what the next page must be less than: {} before the first
    listed,  \* how often each row was on a page: 0, 1, or 2 for more than once
    from,    \* the rows that were there when the client began
    chosen,  \* the ids that the query for ids found: of the page being read,
             \* and of the last one when all are read
    phase    \* of the client

client == <<list, sort, limit, cursor, listed, from, chosen, phase>>
vars == <<rows, client>>

Time == 0 .. MaxTime

Lists == {"organizations", "products"}

\* "createdAt" is the default, and a leading "-" turns the order round.
\* "other" is any other column: its values change while the client pages.
Sort == {"createdAt", "-createdAt", "other"}

Row == [state : {"absent", "inserting", "there", "deleted"},
        createdAt : Time]

Cursor == [createdAt : Time, id : Id]

There == {i \in Id : rows[i].state = "there"}

-----------------------------------------------------------------------------
(* The query. *)

\* Mutant of Milliseconds: rounds to the nearest one instead of cutting off.
MillisecondsRounded(t) ==
    LET up == t + Micros \div 2
    IN  up - (up % Micros)

\* toISOString: what is left of a time in a cursor.
Milliseconds(t) == t - (t % Micros)

\* Must i come before j in the order the client asked for?
Before(i, j) ==
    \/ sort = "createdAt"  /\ rows[i].createdAt < rows[j].createdAt
    \/ sort = "-createdAt" /\ rows[i].createdAt > rows[j].createdAt

\* Mutant of Behind: the row of the cursor is not left out.
BehindOrAt(i, c) ==
    \/ rows[i].createdAt < c.createdAt
    \/ rows[i].createdAt = c.createdAt /\ i <= c.id

\* Mutant of Behind: both columns must be less.
BehindInBoth(i, c) == rows[i].createdAt < c.createdAt /\ i < c.id

\* (o.createdAt, o.id) < (:createdAt, :id), whatever the order asked for.
Behind(i, c) ==
    \/ rows[i].createdAt < c.createdAt
    \/ rows[i].createdAt = c.createdAt /\ i < c.id

Matching == {i \in There : \A c \in cursor : Behind(i, c)}

\* The sets of rows that may be the page: the first ones of the order, at
\* most as many as the limit.
Pages ==
    {page \in SUBSET Matching :
        /\ Cardinality(page) <= limit
        /\ page # Matching => Cardinality(page) = limit
        /\ \A i \in page, j \in Matching \ page : ~ Before(j, i)}

\* Mutant of LastOf: the cursor is made of the page's first row.
FirstOf(page) == {i \in page : \A j \in page : ~ Before(j, i)}

\* The rows that may come last on a page.
LastOf(page) == {i \in page : \A j \in page : ~ Before(i, j)}

CursorAt(i) == [createdAt |-> Milliseconds(rows[i].createdAt), id |-> i]

\* Mutant of Limit: whatever is asked for.
LimitAsked(asked) == IF asked = 0 THEN DefaultLimit ELSE asked

\* Math.min(filters.limit || 20, 100)
Limit(asked) ==
    IF asked = 0 THEN DefaultLimit
    ELSE IF asked < MaxLimit THEN asked ELSE MaxLimit

-----------------------------------------------------------------------------
Init ==
    /\ rows = [i \in Id |-> [state |-> "absent", createdAt |-> 0]]
    /\ list = "organizations" /\ sort = "createdAt" /\ limit = DefaultLimit
    /\ cursor = {} /\ listed = [i \in Id |-> 0]
    /\ from = {} /\ chosen = {} /\ phase = "idle"

\* The insert takes its time from the clock, which does not go back, when
\* its transaction begins, and can be seen when it commits: a row may appear
\* behind one that was created later.
BeginInsert(i, t) ==
    /\ rows[i].state = "absent"
    /\ \A j \in Id : rows[j].createdAt <= t
    /\ rows' = [rows EXCEPT ![i] = [state |-> "inserting", createdAt |-> t]]
    /\ UNCHANGED client

CommitInsert(i) ==
    /\ rows[i].state = "inserting"
    /\ rows' = [rows EXCEPT ![i].state = "there"]
    /\ UNCHANGED client

Remove(i) ==
    /\ rows[i].state = "there"
    /\ rows' = [rows EXCEPT ![i].state = "deleted"]
    /\ UNCHANGED client

\* The client decides on the query; its pages follow.
Ask(l, s, asked) ==
    /\ phase = "idle"
    /\ list' = l /\ sort' = s /\ limit' = Limit(asked)
    /\ from' = There
    /\ phase' = "reading"
    /\ UNCHANGED <<rows, cursor, listed, chosen>>

List(page) ==
    listed' = [i \in Id |-> IF i \in page /\ listed[i] < 2
                            THEN listed[i] + 1 ELSE listed[i]]

\* The client gets a page, and with a full one nextCursor, which names its
\* last row; with any other, maybe an empty one, nextCursor is null. ids: what
\* had been found when the page was chosen.
Deliver(page, ids) ==
    /\ List(page)
    /\ \/ /\ Cardinality(page) = limit
          /\ \E i \in LastOf(page) : cursor' = {CursorAt(i)}
          /\ phase' = "reading" /\ chosen' = {}
       \/ /\ Cardinality(page) # limit
          /\ cursor' = {}
          /\ phase' = "done" /\ chosen' = ids
    /\ UNCHANGED <<rows, list, sort, limit, from>>

ReadPage ==
    /\ phase = "reading" /\ list = "organizations"
    /\ \E page \in Pages : Deliver(page, page)

\* The first query of a page of products. If it finds nothing it is the only
\* one.
ReadIds ==
    /\ phase = "reading" /\ list = "products"
    /\ \E page \in Pages :
          \/ page = {} /\ Deliver(page, page)
          \/ /\ page # {}
             /\ chosen' = page /\ phase' = "entities"
             /\ UNCHANGED <<rows, list, sort, limit, cursor, listed, from>>

\* The second one.
ReadEntities ==
    /\ phase = "entities"
    /\ Deliver(chosen \cap There, chosen)

Fetch == ReadPage \/ ReadIds \/ ReadEntities

Next ==
    \/ \E i \in Id, t \in Time : BeginInsert(i, t)
    \/ \E i \in Id : CommitInsert(i) \/ Remove(i)
    \/ \E l \in Lists, s \in Sort, asked \in Asked : Ask(l, s, asked)
    \/ Fetch

Spec == Init /\ [][Next]_vars

\* A client that wants the whole list goes on asking while it has a cursor.
FairSpec == Spec /\ WF_vars(Fetch)

-----------------------------------------------------------------------------
(* Properties. *)

\* The shape of the state, and that no page is larger than the limit allows.
TypeOK ==
    /\ rows \in [Id -> Row]
    /\ list \in Lists /\ sort \in Sort
    /\ limit \in 1 .. MaxLimit
    /\ cursor \in SUBSET Cursor /\ Cardinality(cursor) <= 1
    /\ listed \in [Id -> 0 .. 2]
    /\ from \in SUBSET Id /\ chosen \in SUBSET Id
    /\ phase \in {"idle", "reading", "entities", "done"}

\* Was the last page less than full when its rows were chosen? (If not, rows
\* were removed before they were read, and the list ends early.)
EndReached == phase = "done" /\ Cardinality(chosen) < limit

\* Every row that was there throughout was on a page, except that one created
\* within the same millisecond as a row that was on a page may be missing:
\* that much the cursor has forgotten.
SeenThroughout ==
    \A i \in from \cap There : listed[i] = 0 =>
        \E j \in Id : /\ listed[j] > 0
                      /\ Milliseconds(rows[i].createdAt) =
                         Milliseconds(rows[j].createdAt)

\* Newest first, a client that has read all the pages has seen the rows that
\* were there throughout, whatever was inserted and removed meanwhile, unless
\* a removal between the two queries of a page ended the list early.
SkippedOnlyWithinMillisecond ==
    sort = "-createdAt" /\ EndReached => SeenThroughout

\* Newest first, no row is on two pages, except that one which shares its
\* creation time with another may be: ties come in any order.
RepeatedOnlyOnTie ==
    sort = "-createdAt" =>
        \A i \in Id : listed[i] > 1 =>
            \E j \in Id \ {i} : /\ listed[j] > 0
                                /\ rows[i].createdAt = rows[j].createdAt

\* Newest first, the pages fit together: what a page adds to the list is not
\* newer than anything that the pages before it have shown,
\* although a row inserted earlier may turn up only between two pages.
PagesInOrder ==
    [][sort = "-createdAt" =>
          \A i, j \in Id : listed[i] > 0 /\ listed'[j] > listed[j] =>
              rows[j].createdAt <= rows[i].createdAt]_vars

\* Whatever the order, a client does not page for ever: the cursor of every
\* page is less than the one before.
PagingEnds == phase \in {"reading", "entities"} ~> phase = "done"

=============================================================================
