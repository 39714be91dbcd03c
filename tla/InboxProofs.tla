----------------------------- MODULE InboxProofs -----------------------------
(***************************************************************************)
(* Proofs about module Inbox, for any finite number of notifications and   *)
(* any number of handlers.                                                 *)
(***************************************************************************)
EXTENDS Inbox, FiniteSetTheorems, TLAPS

-----------------------------------------------------------------------------
(* The inductive invariant.                                                *)

\* A handler works on rows that are there, one if it saves.  The copy it saves
\* is of such a row, and marks it as read; an UPDATE that leaves the column
\* alone found it set, and what is answered to be read is.
FrameRead(r) ==
    /\ \A n \in requests[r].ids : rows[n].created
    /\ requests[r].step \in {"save", "update"} =>
          \A m, n \in requests[r].ids : m = n
    /\ \A copy \in requests[r].copies : copy.created /\ copy.read
    /\ \/ requests[r].step = "answer"
       \/ requests[r].step = "update" /\ "read" \notin requests[r].columns
       => \A n \in requests[r].ids : rows[n].read

FramesRead == \A r \in Request : FrameRead(r)

\* What the bar was told is so, and a query begun before it was told has
\* been dropped.
ToldInv ==
    /\ \A n \in told : rows[n].read
    /\ fetch.step \in {"count", "answer"} => fetch.items \cap told = {}
    /\ NoStaleUnread

\* No row goes away, and none becomes unread.
RowsGrow == \A n \in Notification :
    /\ rows[n].created => rows'[n].created
    /\ rows[n].read => rows'[n].read

-----------------------------------------------------------------------------
(* Lemmas about the operators.                                             *)

\* Comparing and flushing yields a row again, each of whose columns is the
\* saved copy's if it was dirty and the row's otherwise.
LEMMA FlushRow ==
    ASSUME NEW copy \in Row, NEW row \in Row, NEW D
    PROVE  /\ Flush(copy, D, row) \in Row
           /\ Flush(copy, D, row).created =
                 IF "created" \in D THEN copy.created ELSE row.created
           /\ Flush(copy, D, row).read = IF "read" \in D THEN copy.read ELSE row.read
           /\ Flush(copy, D, row).archived =
                 IF "archived" \in D THEN copy.archived ELSE row.archived
<1> DEFINE merged ==
        [created  |-> IF "created" \in D THEN copy.created ELSE row.created,
         read     |-> IF "read" \in D THEN copy.read ELSE row.read,
         archived |-> IF "archived" \in D THEN copy.archived ELSE row.archived]
<1>1. DOMAIN row = {"created", "read", "archived"}
  BY DEF Row
<1>2. Flush(copy, D, row) = merged
  BY <1>1 DEF Flush
<1>3. merged \in Row
  BY DEF Row
<1> QED
  BY <1>2, <1>3

\* Rows that are both there differ in columns that are saved, and what is not
\* dirty agrees.
LEMMA DirtyRow ==
    ASSUME NEW copy \in Row, NEW row \in Row, copy.created = row.created
    PROVE  /\ Dirty(copy, row) \subseteq Columns
           /\ "read" \notin Dirty(copy, row) => copy.read = row.read
<1>1. DOMAIN row = {"created", "read", "archived"}
  BY DEF Row
<1> QED
  BY <1>1 DEF Dirty, Columns

\* The frame of a handler that saves a copy.
LEMMA SavingFrame ==
    ASSUME NEW n \in Notification, NEW copy \in Row, NEW waits \in BOOLEAN
    PROVE  /\ Saving(n, copy, waits) \in Frame /\ Saving(n, copy, waits).step = "save"
           /\ Saving(n, copy, waits).ids = {n} /\ Saving(n, copy, waits).copies = {copy}
  BY DEF Saving, Idle, Frame

\* The frame of a handler that is done but for its answer.
LEMMA AnsweringFrame ==
    ASSUME NEW ids \in SUBSET Notification, NEW waits \in BOOLEAN
    PROVE  /\ Answering(ids, waits) \in Frame
           /\ Answering(ids, waits).ids \subseteq ids
           /\ Answering(ids, waits).copies = {}
           /\ Answering(ids, waits).step \in {"idle", "answer"}
  BY DEF Answering, Idle, Frame

\* The same handler with the columns to update.
LEMMA UpdateFrame ==
    ASSUME NEW f \in Frame, NEW D \in SUBSET Columns
    PROVE  /\ Updating(f, D) \in Frame /\ Updating(f, D).step = "update"
           /\ Updating(f, D).columns = D
           /\ Updating(f, D).ids = f.ids /\ Updating(f, D).copies = f.copies
  BY DEF Frame, Updating

\* The same handler with nobody waiting.
LEMMA ForgottenFrame ==
    ASSUME NEW f \in Frame, NEW h, h = [f EXCEPT !.waits = FALSE]
    PROVE  /\ h \in Frame /\ h.step = f.step /\ h.columns = f.columns
           /\ h.ids = f.ids /\ h.copies = f.copies
  BY DEF Frame

\* The queries of the bar.
LEMMA Fetches ==
    /\ NoFetch \in Fetch /\ NoFetch.step = "none" /\ NoFetch.unread = 0
    /\ NewFetch \in Fetch /\ NewFetch.step = "list" /\ NewFetch.unread = 0
    /\ NoData \in Bar /\ NoData.items = {} /\ NoData.unread = 0
  BY DEF NoFetch, NewFetch, NoData, Fetch, Bar

\* The unread notifications are notifications, and no more of them.
LEMMA UnreadCount ==
    /\ Unread \subseteq Notification
    /\ Cardinality(Unread) \in Nat
    /\ Cardinality(Unread) <= Cardinality(Notification)
    /\ Cardinality(Notification) \in Nat
<1>1. Unread \subseteq Notification
  BY DEF Unread, Created
<1> QED
  BY <1>1, ConstantsAssumption, FS_Subset, FS_CardinalityType

\* What a frame holds.
LEMMA Contents ==
    ASSUME TypeOK, NEW r \in Request
    PROVE  /\ requests[r] \in Frame
           /\ requests[r].ids \subseteq Notification
           /\ requests[r].copies \subseteq Row
           /\ requests[r].columns \subseteq Columns
<1>1. requests[r] \in Frame
  BY DEF TypeOK
<1> QED
  BY <1>1 DEF Frame

-----------------------------------------------------------------------------
(* Types and frames.                                                       *)

\* The initial state.
LEMMA InitInv == Init => TypeOK /\ FramesRead /\ ToldInv
<1> SUFFICES ASSUME Init PROVE TypeOK /\ FramesRead /\ ToldInv
  OBVIOUS
<1>1. Idle \in Frame /\ Idle.ids = {} /\ Idle.copies = {} /\ Idle.step = "idle"
  BY DEF Idle, Frame
<1>2. TypeOK
  BY <1>1, Fetches, UnreadCount DEF Init, TypeOK, Row
<1>3. FramesRead
  BY <1>1 DEF Init, FramesRead, FrameRead
<1>4. ToldInv
  BY Fetches DEF Init, ToldInv, NoStaleUnread
<1> QED
  BY <1>2, <1>3, <1>4

\* A handler that goes on as it should leaves all the others as they should
\* be, when rows do not go away and do not become unread.
LEMMA KeepFrames ==
    ASSUME TypeOK, FramesRead, RowsGrow, NEW r \in Request, NEW f,
           requests' = [requests EXCEPT ![r] = f], FrameRead(r)'
    PROVE  FramesRead'
<1> SUFFICES ASSUME NEW s \in Request, s # r PROVE FrameRead(s)'
  BY DEF FramesRead
<1>1. requests'[s] = requests[s]
  BY DEF TypeOK
<1>2. FrameRead(s) /\ requests[s].ids \subseteq Notification
  BY Contents DEF FramesRead
<1> QED
  BY <1>1, <1>2 DEF FrameRead, RowsGrow

\* The same when no handler goes on.
LEMMA SameFrames ==
    ASSUME TypeOK, FramesRead, RowsGrow, UNCHANGED requests
    PROVE  FramesRead'
<1> SUFFICES ASSUME NEW s \in Request PROVE FrameRead(s)'
  BY DEF FramesRead
<1>1. FrameRead(s) /\ requests[s].ids \subseteq Notification
  BY Contents DEF FramesRead
<1> QED
  BY <1>1 DEF FrameRead, RowsGrow

\* Writing one row.
LEMMA OneRow ==
    ASSUME TypeOK, NEW n \in Notification, NEW row \in Row,
           rows' = [rows EXCEPT ![n] = row],
           row.created, rows[n].read => row.read
    PROVE  /\ rows' \in [Notification -> Row]
           /\ \A m \in Notification :
                 rows'[m].read \/ rows'[m].archived => rows'[m].created
           /\ RowsGrow
  BY DEF TypeOK, RowsGrow

\* The type when only a slot and rows change.
LEMMA ContinueType ==
    ASSUME TypeOK, NEW r \in Request, NEW f \in Frame, Continue(r, f),
           rows' \in [Notification -> Row],
           \A m \in Notification : rows'[m].read \/ rows'[m].archived => rows'[m].created
    PROVE  TypeOK'
  BY DEF TypeOK, Continue

\* Every step keeps types and frames, and lets no row become unread.
LEMMA NextTypeOK ==
    ASSUME TypeOK, FramesRead, [Next]_vars
    PROVE  TypeOK' /\ FramesRead' /\ RowsGrow
<1>0. ASSUME UNCHANGED rows
      PROVE  /\ RowsGrow /\ rows' \in [Notification -> Row]
             /\ \A m \in Notification :
                   rows'[m].read \/ rows'[m].archived => rows'[m].created
  BY <1>0 DEF RowsGrow, TypeOK
<1>1. ASSUME NEW n \in Notification, Create(n) \/ Dismiss(n)
      PROVE  TypeOK' /\ FramesRead' /\ RowsGrow
  <2> DEFINE row == IF Create(n) THEN [rows[n] EXCEPT !.created = TRUE]
                    ELSE [rows[n] EXCEPT !.archived = TRUE]
  <2>1. rows[n] \in Row
    BY DEF TypeOK
  <2>2. row \in Row /\ row.created /\ (rows[n].read => row.read)
    BY <1>1, <2>1 DEF Row, Create, Dismiss, Created
  <2>3. rows' = [rows EXCEPT ![n] = row] /\ UNCHANGED <<requests, fetch, bar, told>>
    <3>1. CASE Create(n)
      BY <3>1 DEF Create
    <3>2. CASE ~ Create(n)
      BY <1>1, <3>2 DEF Dismiss
    <3> QED
      BY <3>1, <3>2
  <2> HIDE DEF row
  <2>4. /\ rows' \in [Notification -> Row]
        /\ \A m \in Notification :
              rows'[m].read \/ rows'[m].archived => rows'[m].created
        /\ RowsGrow
    BY <2>2, <2>3, OneRow
  <2> QED
    BY <2>3, <2>4, SameFrames DEF TypeOK
<1>2. ASSUME NEW r \in Request, NEW n \in Notification, NEW waits \in BOOLEAN,
             MarkRead(r, n, waits)
      PROVE  TypeOK' /\ FramesRead' /\ RowsGrow
  <2> DEFINE copy == [rows[n] EXCEPT !.read = TRUE]
             f == Saving(n, copy, waits)
  <2>1. rows[n] \in Row /\ rows[n].created
    BY <1>2 DEF TypeOK, MarkRead, Created
  <2>2. copy \in Row /\ copy.created /\ copy.read
    BY <2>1 DEF Row
  <2>3. Continue(r, f) /\ UNCHANGED rows
    BY <1>2 DEF MarkRead, Begin
  <2> HIDE DEF copy
  <2>4. f \in Frame /\ f.step = "save" /\ f.ids = {n} /\ f.copies = {copy}
    BY <2>2, SavingFrame
  <2> HIDE DEF f
  <2>5. requests' = [requests EXCEPT ![r] = f] /\ requests'[r] = f
    BY <2>3 DEF Continue, TypeOK
  <2>6. FrameRead(r)'
    BY <2>1, <2>2, <2>3, <2>4, <2>5 DEF FrameRead
  <2> QED
    BY <1>0, <2>3, <2>4, <2>5, <2>6, KeepFrames, ContinueType
<1>3. ASSUME NEW r \in Request, NEW waits \in BOOLEAN, MarkAllRead(r, waits)
      PROVE  TypeOK' /\ FramesRead' /\ RowsGrow
  <2> DEFINE f == Answering(Created, waits)
  <2>1. /\ rows' \in [Notification -> Row]
        /\ \A m \in Notification :
              /\ rows'[m].created = rows[m].created
              /\ rows'[m].read = (rows[m].read \/ m \in Created)
              /\ rows'[m].archived = rows[m].archived
    BY <1>3 DEF MarkAllRead, TypeOK, Row
  <2>2. /\ RowsGrow
        /\ \A m \in Notification :
              rows'[m].read \/ rows'[m].archived => rows'[m].created
    BY <2>1 DEF RowsGrow, TypeOK, Created
  <2>3. Continue(r, f)
    BY <1>3 DEF MarkAllRead, Begin
  <2>4. Created \in SUBSET Notification
    BY DEF Created
  <2>5. /\ f \in Frame /\ f.ids \subseteq Created /\ f.copies = {}
        /\ f.step \in {"idle", "answer"}
    BY <2>4, AnsweringFrame
  <2> HIDE DEF f
  <2>6. requests' = [requests EXCEPT ![r] = f] /\ requests'[r] = f
    BY <2>3 DEF Continue, TypeOK
  <2>7. \A m \in requests'[r].ids : rows'[m].created /\ rows'[m].read
    BY <2>1, <2>5, <2>6 DEF Created
  <2>8. FrameRead(r)'
    BY <2>5, <2>6, <2>7 DEF FrameRead
  <2> QED
    BY <2>1, <2>2, <2>3, <2>5, <2>6, <2>8, KeepFrames, ContinueType
<1>4. ASSUME NEW r \in Request, SaveCompare(r)
      PROVE  TypeOK' /\ FramesRead' /\ RowsGrow
  <2>1. PICK n \in requests[r].ids, copy \in requests[r].copies :
           Continue(r, IF Dirty(copy, rows[n]) = {}
                       THEN Answering({n}, requests[r].waits)
                       ELSE Updating(requests[r], Dirty(copy, rows[n])))
    BY <1>4, Zenon DEF SaveCompare
  <2>2. UNCHANGED rows
    BY <1>4 DEF SaveCompare
  <2>3. /\ requests[r] \in Frame /\ n \in Notification /\ copy \in Row
        /\ rows[n] \in Row /\ requests[r].waits \in BOOLEAN
    BY Contents DEF TypeOK, Frame
  <2>4. rows[n].created /\ copy.created /\ copy.read
        /\ \A m \in requests[r].ids : rows[m].created
        /\ \A e \in requests[r].copies : e.created /\ e.read
    BY DEF FramesRead, FrameRead
  <2>5. CASE Dirty(copy, rows[n]) = {}
    <3> DEFINE f == Answering({n}, requests[r].waits)
    <3>1. /\ f \in Frame /\ f.ids \subseteq {n} /\ f.copies = {}
      BY <2>3, AnsweringFrame
    <3>2. Continue(r, f)
      BY <2>1, <2>5
    <3> HIDE DEF f
    <3>3. requests' = [requests EXCEPT ![r] = f] /\ requests'[r] = f
      BY <3>2 DEF Continue, TypeOK
    <3>4. rows[n].read
      BY <2>3, <2>4, <2>5, DirtyRow DEF Row
    <3>5. FrameRead(r)'
      BY <2>2, <2>4, <3>1, <3>3, <3>4 DEF FrameRead
    <3> QED
      BY <1>0, <2>2, <3>1, <3>2, <3>3, <3>5, KeepFrames, ContinueType
  <2>6. CASE Dirty(copy, rows[n]) # {}
    <3> DEFINE D == Dirty(copy, rows[n])
    <3>1. D \in SUBSET Columns /\ ("read" \notin D => rows[n].read)
      BY <2>3, <2>4, DirtyRow DEF Row
    <3> HIDE DEF D
    <3> DEFINE f == Updating(requests[r], D)
    <3>2. Continue(r, f)
      BY <2>1, <2>6 DEF D
    <3>3. /\ f \in Frame /\ f.step = "update" /\ f.columns = D
          /\ f.ids = requests[r].ids /\ f.copies = requests[r].copies
      <4>1. requests[r] \in Frame
        BY <2>3
      <4>2. D \in SUBSET Columns
        BY <3>1
      <4> QED
        BY <4>1, <4>2, UpdateFrame
    <3>4. requests' = [requests EXCEPT ![r] = f] /\ requests'[r] = f
      BY <3>2 DEF Continue, TypeOK
    <3>5. requests[r].ids = {n}
      BY <1>4 DEF SaveCompare, FramesRead, FrameRead
    <3> HIDE DEF f
    <3>6. FrameRead(r)'
      BY <2>2, <2>4, <3>1, <3>3, <3>4, <3>5 DEF FrameRead
    <3> QED
      BY <1>0, <2>2, <3>2, <3>3, <3>4, <3>6, KeepFrames, ContinueType
  <2> QED
    BY <2>5, <2>6
<1>5. ASSUME NEW r \in Request, SaveUpdate(r)
      PROVE  TypeOK' /\ FramesRead' /\ RowsGrow
  <2>1. PICK n \in requests[r].ids, copy \in requests[r].copies :
           /\ rows' = [rows EXCEPT ![n] = Flush(copy, requests[r].columns, rows[n])]
           /\ Continue(r, Answering({n}, requests[r].waits))
    BY <1>5, Zenon DEF SaveUpdate
  <2>2. /\ requests[r].step = "update" /\ n \in Notification /\ copy \in Row
        /\ rows[n] \in Row /\ requests[r].waits \in BOOLEAN
    BY <1>5, Contents DEF TypeOK, Frame, SaveUpdate
  <2>3. /\ rows[n].created /\ copy.created /\ copy.read
        /\ "read" \notin requests[r].columns => rows[n].read
    BY <2>2 DEF FramesRead, FrameRead
  <2> DEFINE row == Flush(copy, requests[r].columns, rows[n])
             f == Answering({n}, requests[r].waits)
  <2>4. row \in Row /\ row.created /\ row.read
    BY <2>2, <2>3, FlushRow
  <2>5. f \in Frame /\ f.ids \subseteq {n} /\ f.copies = {} /\ f.step \in {"idle", "answer"}
    BY <2>2, AnsweringFrame
  <2>6. rows' = [rows EXCEPT ![n] = row] /\ Continue(r, f)
    BY <2>1
  <2> HIDE DEF row, f
  <2>7. requests' = [requests EXCEPT ![r] = f] /\ requests'[r] = f
    BY <2>6 DEF Continue, TypeOK
  <2>8. rows'[n] = row
    BY <2>2, <2>6 DEF TypeOK
  <2>9. FrameRead(r)'
    BY <2>4, <2>5, <2>7, <2>8 DEF FrameRead
  <2>10. /\ rows' \in [Notification -> Row]
         /\ \A m \in Notification :
               rows'[m].read \/ rows'[m].archived => rows'[m].created
         /\ RowsGrow
    BY <2>2, <2>4, <2>6, OneRow
  <2> QED
    BY <2>5, <2>6, <2>7, <2>9, <2>10, KeepFrames, ContinueType
<1>6. ASSUME NEW r \in Request, Answered(r)
      PROVE  TypeOK' /\ FramesRead' /\ RowsGrow
  <2>1. /\ requests' = [requests EXCEPT ![r] = Idle] /\ UNCHANGED rows
        /\ told' = told \cup requests[r].ids
        /\ bar' = [bar EXCEPT !.stale = TRUE] /\ fetch' = NewFetch
    BY <1>6 DEF Answered
  <2>2. Idle \in Frame /\ Idle.ids = {} /\ Idle.copies = {} /\ Idle.step = "idle"
    BY DEF Idle, Frame
  <2>3. bar' \in Bar /\ bar'.unread = bar.unread
    BY <2>1 DEF TypeOK, Bar
  <2>4. told' \subseteq Notification
    BY <2>1, Contents DEF TypeOK
  <2>5. TypeOK'
    BY <1>0, <2>1, <2>2, <2>3, <2>4, Fetches, UnreadCount DEF TypeOK
  <2>6. requests'[r] = Idle
    BY <2>1 DEF TypeOK
  <2>7. FrameRead(r)'
    BY <2>2, <2>6 DEF FrameRead
  <2> QED
    BY <1>0, <2>1, <2>5, <2>7, KeepFrames
<1>7. ASSUME UNCHANGED <<rows, requests, told>>, fetch' \in Fetch, bar' \in Bar,
             fetch'.unread <= Cardinality(Notification),
             bar'.unread <= Cardinality(Notification)
      PROVE  TypeOK' /\ FramesRead' /\ RowsGrow
  BY <1>0, <1>7, SameFrames DEF TypeOK
<1>8. CASE Poll \/ FetchFails
  BY <1>7, <1>8, Fetches, UnreadCount DEF Poll, FetchFails, TypeOK
<1>9. CASE FetchList
  <2>1. fetch' \in Fetch /\ fetch'.unread = fetch.unread
    BY <1>9, UnreadCount DEF FetchList, TypeOK, Fetch
  <2> QED
    BY <1>7, <1>9, <2>1 DEF FetchList, TypeOK
<1>10. CASE FetchCount
  <2>1. fetch' \in Fetch /\ fetch'.unread = Cardinality(Unread)
    BY <1>10, UnreadCount DEF FetchCount, TypeOK, Fetch
  <2> QED
    BY <1>7, <1>10, <2>1, UnreadCount DEF FetchCount, TypeOK
<1>11. CASE FetchAnswered
  <2>1. bar' \in Bar /\ bar'.unread = fetch.unread
    BY <1>11 DEF FetchAnswered, TypeOK, Fetch, Bar
  <2> QED
    BY <1>7, <1>11, <2>1, Fetches, UnreadCount DEF FetchAnswered, TypeOK
<1>12. CASE LoadPage
  <2>1. /\ requests' = [s \in Request |-> IF requests[s].step = "answer" THEN Idle
                                         ELSE [requests[s] EXCEPT !.waits = FALSE]]
        /\ fetch' = NewFetch /\ bar' = NoData /\ told' = {} /\ UNCHANGED rows
    BY <1>12 DEF LoadPage
  <2>2. ASSUME NEW s \in Request
        PROVE  /\ requests'[s] \in Frame
               /\ FrameRead(s)'
    <3>1. requests[s] \in Frame /\ FrameRead(s)
      BY Contents DEF FramesRead
    <3>2. CASE requests[s].step = "answer"
      <4>1. requests'[s] = Idle
        BY <2>1, <3>2
      <4>2. Idle \in Frame /\ Idle.ids = {} /\ Idle.copies = {} /\ Idle.step = "idle"
        BY DEF Idle, Frame
      <4> QED
        BY <4>1, <4>2 DEF FrameRead
    <3>3. CASE requests[s].step # "answer"
      <4> DEFINE h == [requests[s] EXCEPT !.waits = FALSE]
      <4>1. requests'[s] = h
        BY <2>1, <3>3
      <4>2. /\ h \in Frame /\ h.step = requests[s].step
            /\ h.columns = requests[s].columns
            /\ h.ids = requests[s].ids /\ h.copies = requests[s].copies
        BY <3>1, ForgottenFrame
      <4> HIDE DEF h
      <4> QED
        BY <2>1, <3>1, <4>1, <4>2 DEF FrameRead
    <3> QED
      BY <3>2, <3>3
  <2>3. requests' \in [Request -> Frame]
    BY <2>1, <2>2
  <2>4. TypeOK'
    BY <1>0, <2>1, <2>3, Fetches, UnreadCount DEF TypeOK
  <2>5. FramesRead'
    BY <2>2 DEF FramesRead
  <2> QED
    BY <1>0, <2>1, <2>4, <2>5
<1>13. CASE UNCHANGED vars
  BY <1>0, <1>13, SameFrames DEF vars, TypeOK
<1> QED
  BY <1>1, <1>2, <1>3, <1>4, <1>5, <1>6, <1>8, <1>9, <1>10, <1>11, <1>12, <1>13
     DEF Next

-----------------------------------------------------------------------------
(* What the bar shows.                                                     *)

\* The bar is told of nothing that is not read, and shows nothing as unread
\* from a query that is older than what it was told.
LEMMA NextToldInv ==
    ASSUME TypeOK, FramesRead, ToldInv, [Next]_vars
    PROVE  ToldInv'
<1>1. RowsGrow
  BY NextTypeOK
<1>2. \A n \in told : n \in Notification /\ rows'[n].read
  BY <1>1 DEF ToldInv, TypeOK, RowsGrow
<1>3. CASE UNCHANGED <<fetch, bar, told>>
  BY <1>2, <1>3 DEF ToldInv, NoStaleUnread
<1>4. ASSUME NEW r \in Request, Answered(r)
      PROVE  ToldInv'
  <2>1. /\ told' = told \cup requests[r].ids /\ UNCHANGED rows
        /\ bar' = [bar EXCEPT !.stale = TRUE] /\ fetch' = NewFetch
        /\ requests[r].step = "answer"
    BY <1>4 DEF Answered
  <2>2. \A n \in requests[r].ids : rows[n].read
    BY <2>1 DEF FramesRead, FrameRead
  <2>3. bar'.stale
    BY <2>1 DEF TypeOK, Bar
  <2> QED
    BY <1>2, <2>1, <2>2, <2>3, Fetches DEF ToldInv, NoStaleUnread
<1>5. CASE Poll \/ FetchFails
  BY <1>2, <1>5, Fetches DEF Poll, FetchFails, ToldInv, NoStaleUnread
<1>6. CASE FetchList
  <2>1. Unread \cap told = {}
    BY DEF Unread, ToldInv
  <2>2. fetch'.items = Unread /\ UNCHANGED <<rows, bar, told>>
    BY <1>6 DEF FetchList, TypeOK, Fetch
  <2> QED
    BY <1>2, <2>1, <2>2 DEF ToldInv, NoStaleUnread
<1>7. CASE FetchCount
  <2>1. fetch'.items = fetch.items /\ fetch.step = "count" /\ UNCHANGED <<rows, bar, told>>
    BY <1>7 DEF FetchCount, TypeOK, Fetch
  <2> QED
    BY <1>2, <2>1 DEF ToldInv, NoStaleUnread
<1>8. CASE FetchAnswered
  BY <1>2, <1>8, Fetches DEF FetchAnswered, ToldInv, NoStaleUnread
<1>9. CASE LoadPage
  BY <1>9, Fetches DEF LoadPage, ToldInv, NoStaleUnread
<1>10. ASSUME NEW r \in Request,
              \/ \E n \in Notification, waits \in BOOLEAN : MarkRead(r, n, waits)
              \/ \E waits \in BOOLEAN : MarkAllRead(r, waits)
              \/ SaveCompare(r)
              \/ SaveUpdate(r)
       PROVE  ToldInv'
  <2>1. \E f : Continue(r, f)
    BY <1>10, Zenon DEF MarkRead, MarkAllRead, SaveCompare, SaveUpdate, Begin
  <2> QED
    BY <1>3, <2>1 DEF Continue
<1>11. ASSUME NEW n \in Notification, Create(n) \/ Dismiss(n)
       PROVE  ToldInv'
  BY <1>3, <1>11 DEF Create, Dismiss
<1>12. CASE UNCHANGED vars
  BY <1>3, <1>12 DEF vars
<1> QED
  BY <1>4, <1>5, <1>6, <1>7, <1>8, <1>9, <1>10, <1>11, <1>12 DEF Next

\* All parts of the invariant hold throughout.
LEMMA Invariance == Spec => [](TypeOK /\ FramesRead /\ ToldInv)
<1>1. TypeOK /\ FramesRead /\ ToldInv /\ [Next]_vars
         => TypeOK' /\ FramesRead' /\ ToldInv'
  BY NextTypeOK, NextToldInv
<1> QED
  BY <1>1, InitInv, PTL DEF Spec

\* Every variable keeps its type.
THEOREM InboxTypeOK == Spec => []TypeOK
  BY Invariance, PTL

\* The bar shows nothing as unread that it was told is read.
THEOREM InboxNoStaleUnread == Spec => []NoStaleUnread
<1>1. ToldInv => NoStaleUnread
  BY DEF ToldInv
<1> QED
  BY <1>1, Invariance, PTL

-----------------------------------------------------------------------------
(* Dismissed notifications.                                                *)

\* A handler that goes on with the copies it has, or with none, changes
\* nothing about who knows a notification to be dismissed.
LEMMA KeepDismissed ==
    ASSUME TypeOK, NEW n \in Notification, DismissedThroughout(n),
           rows'[n].archived, NEW r \in Request, NEW f,
           requests' = [requests EXCEPT ![r] = f],
           n \in f.ids => \A copy \in f.copies : copy.archived
    PROVE  DismissedThroughout(n)'
<1>1. requests'[r] = f /\ \A s \in Request : s # r => requests'[s] = requests[s]
  BY DEF TypeOK
<1> QED
  BY <1>1 DEF DismissedThroughout

\* A notification that is dismissed, in the table and in every copy that is
\* yet to be saved, is so after every step.
LEMMA NextDismissed ==
    ASSUME TypeOK, FramesRead, [Next]_vars, NEW n \in Notification,
           DismissedThroughout(n)
    PROVE  DismissedThroughout(n)'
<1>1. rows[n] \in Row /\ rows[n].archived
  BY DEF TypeOK, DismissedThroughout
<1>2. ASSUME UNCHANGED requests, rows'[n].archived
      PROVE  DismissedThroughout(n)'
  BY <1>2 DEF DismissedThroughout
<1>3. ASSUME NEW m \in Notification, Create(m) \/ Dismiss(m)
      PROVE  DismissedThroughout(n)'
  <2>1. rows'[n].archived
    BY <1>1, <1>3 DEF Create, Dismiss, TypeOK, Row
  <2> QED
    BY <1>2, <1>3, <2>1 DEF Create, Dismiss
<1>4. ASSUME NEW r \in Request, NEW m \in Notification, NEW waits \in BOOLEAN,
             MarkRead(r, m, waits)
      PROVE  DismissedThroughout(n)'
  <2> DEFINE copy == [rows[m] EXCEPT !.read = TRUE]
             f == Saving(m, copy, waits)
  <2>1. copy \in Row /\ copy.archived = rows[m].archived
    BY DEF TypeOK, Row
  <2>2. Continue(r, f) /\ UNCHANGED rows
    BY <1>4 DEF MarkRead, Begin
  <2> HIDE DEF copy
  <2>3. f.ids = {m} /\ f.copies = {copy}
    BY <2>1, SavingFrame
  <2> HIDE DEF f
  <2> QED
    BY <1>1, <2>1, <2>2, <2>3, KeepDismissed DEF Continue
<1>5. ASSUME NEW r \in Request, NEW waits \in BOOLEAN, MarkAllRead(r, waits)
      PROVE  DismissedThroughout(n)'
  <2> DEFINE f == Answering(Created, waits)
  <2>1. rows'[n].archived
    BY <1>1, <1>5 DEF MarkAllRead, TypeOK, Row
  <2>2. Continue(r, f)
    BY <1>5 DEF MarkAllRead, Begin
  <2>3. Created \in SUBSET Notification
    BY DEF Created
  <2>4. f.copies = {}
    BY <2>3, AnsweringFrame
  <2> HIDE DEF f
  <2> QED
    BY <2>1, <2>2, <2>4, KeepDismissed DEF Continue
<1>6. ASSUME NEW r \in Request, SaveCompare(r)
      PROVE  DismissedThroughout(n)'
  <2>1. PICK m \in requests[r].ids, copy \in requests[r].copies :
           Continue(r, IF Dirty(copy, rows[m]) = {}
                       THEN Answering({m}, requests[r].waits)
                       ELSE Updating(requests[r], Dirty(copy, rows[m])))
    BY <1>6, Zenon DEF SaveCompare
  <2>2. UNCHANGED rows
    BY <1>6 DEF SaveCompare
  <2>3. /\ requests[r] \in Frame /\ m \in Notification /\ copy \in Row
        /\ rows[m] \in Row /\ requests[r].waits \in BOOLEAN
    BY Contents DEF TypeOK, Frame
  <2>4. Dirty(copy, rows[m]) \in SUBSET Columns
    <3>1. copy.created /\ rows[m].created
      BY DEF FramesRead, FrameRead
    <3>2. copy.created = rows[m].created
      BY <2>3, <3>1 DEF Row
    <3> QED
      BY <2>3, <3>2, DirtyRow
  <2> DEFINE f == IF Dirty(copy, rows[m]) = {}
                  THEN Answering({m}, requests[r].waits)
                  ELSE Updating(requests[r], Dirty(copy, rows[m]))
  <2>5. \/ f.copies = {}
        \/ f.ids = requests[r].ids /\ f.copies = requests[r].copies
    <3>1. CASE Dirty(copy, rows[m]) = {}
      BY <2>3, <3>1, AnsweringFrame
    <3>2. CASE Dirty(copy, rows[m]) # {}
      BY <2>3, <2>4, <3>2, UpdateFrame
    <3> QED
      BY <3>1, <3>2
  <2>6. Continue(r, f)
    BY <2>1
  <2> HIDE DEF f
  <2>7. n \in f.ids => \A c \in f.copies : c.archived
    BY <2>5 DEF DismissedThroughout
  <2> QED
    BY <1>1, <2>2, <2>6, <2>7, KeepDismissed DEF Continue
<1>7. ASSUME NEW r \in Request, SaveUpdate(r)
      PROVE  DismissedThroughout(n)'
  <2>1. PICK m \in requests[r].ids, copy \in requests[r].copies :
           /\ rows' = [rows EXCEPT ![m] = Flush(copy, requests[r].columns, rows[m])]
           /\ Continue(r, Answering({m}, requests[r].waits))
    BY <1>7, Zenon DEF SaveUpdate
  <2>2. /\ m \in Notification /\ copy \in Row /\ rows[m] \in Row
        /\ requests[r].waits \in BOOLEAN
    BY Contents DEF TypeOK, Frame
  <2>3. m = n => copy.archived
    BY DEF DismissedThroughout
  <2> DEFINE row == Flush(copy, requests[r].columns, rows[m])
             f == Answering({m}, requests[r].waits)
  <2>4. m = n => row.archived
    BY <1>1, <2>2, <2>3, FlushRow
  <2>5. f.copies = {}
    BY <2>2, AnsweringFrame
  <2>6. rows' = [rows EXCEPT ![m] = row] /\ Continue(r, f)
    BY <2>1
  <2> HIDE DEF row, f
  <2>7. rows'[n].archived
    BY <1>1, <2>2, <2>4, <2>6 DEF TypeOK
  <2> QED
    BY <2>5, <2>6, <2>7, KeepDismissed DEF Continue
<1>8. ASSUME NEW r \in Request, Answered(r)
      PROVE  DismissedThroughout(n)'
  <2>1. Idle.ids = {}
    BY DEF Idle
  <2> QED
    BY <1>1, <1>8, <2>1, KeepDismissed DEF Answered
<1>9. CASE Poll \/ FetchList \/ FetchCount \/ FetchAnswered \/ FetchFails
  BY <1>1, <1>2, <1>9 DEF Poll, FetchList, FetchCount, FetchAnswered, FetchFails
<1>10. CASE LoadPage
  <2>1. UNCHANGED rows
    BY <1>10 DEF LoadPage
  <2>2. ASSUME NEW s \in Request, n \in requests'[s].ids
        PROVE  \A copy \in requests'[s].copies : copy.archived
    <3>1. requests[s] \in Frame
      BY Contents
    <3>2. CASE requests[s].step = "answer"
      <4>1. requests'[s] = Idle
        BY <1>10, <3>2 DEF LoadPage
      <4> QED
        BY <4>1 DEF Idle
    <3>3. CASE requests[s].step # "answer"
      <4> DEFINE h == [requests[s] EXCEPT !.waits = FALSE]
      <4>1. requests'[s] = h
        BY <1>10, <3>3 DEF LoadPage
      <4>2. h.ids = requests[s].ids /\ h.copies = requests[s].copies
        BY <3>1, ForgottenFrame
      <4> HIDE DEF h
      <4> QED
        BY <2>2, <4>1, <4>2 DEF DismissedThroughout
    <3> QED
      BY <3>2, <3>3
  <2> QED
    BY <1>1, <2>1, <2>2 DEF DismissedThroughout
<1>11. CASE UNCHANGED vars
  BY <1>1, <1>2, <1>11 DEF vars
<1> QED
  BY <1>3, <1>4, <1>5, <1>6, <1>7, <1>8, <1>9, <1>10, <1>11 DEF Next

\* A dismissed notification stays dismissed, but for handlers that have read
\* it before.
THEOREM InboxDismissedForGood == Spec => DismissedForGood
<1>1. TypeOK /\ FramesRead /\ ToldInv /\ [Next]_vars
         => [\A n \in Notification :
                DismissedThroughout(n) => DismissedThroughout(n)']_vars
  BY NextDismissed
<1> QED
  BY <1>1, Invariance, PTL DEF Spec, DismissedForGood

=============================================================================
