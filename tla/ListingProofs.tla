--------------------------- MODULE ListingProofs ----------------------------
(***************************************************************************)
(* What a client that reads a list newest first misses and sees twice, for *)
(* any rows, limits and precision of the clock.                            *)
(*                                                                         *)
(* Everything rests on two facts about the cursor.  A row that is there    *)
(* from the start and is not behind the cursor was listed, or shares its   *)
(* millisecond with one that was (SkipInv).  A row that was listed and is  *)
(* behind the cursor nevertheless shares its creation time with another    *)
(* one that was (RepeatInv).  What the first query of a page of products   *)
(* has chosen stays the next page, for the rows that are there from the    *)
(* start, until the second one (ChosenInv).                                *)
(***************************************************************************)
EXTENDS Listing, FiniteSetTheorems, TLAPS

Newest == sort = "-createdAt"

\* A row of i's millisecond was on a page.
Seen(i) ==
    \E j \in Id : /\ listed[j] > 0
                  /\ Milliseconds(rows[i].createdAt) =
                     Milliseconds(rows[j].createdAt)

\* Another row with i's creation time was on a page.
Twin(i) ==
    \E j \in Id \ {i} : /\ listed[j] > 0
                        /\ rows[i].createdAt = rows[j].createdAt

\* Rows that were seen have been inserted, and before the first page the
\* client has nothing.
ClientInv ==
    /\ \A i \in Id : listed[i] > 0 \/ i \in from =>
          rows[i].state \in {"there", "deleted"}
    /\ phase = "idle" => cursor = {}
    /\ phase # "done" /\ cursor = {} => \A i \in Id : listed[i] = 0

SkipInv ==
    Newest =>
        \A i \in from \cap There :
            \/ Seen(i)
            \/ phase # "done" /\ \A c \in cursor : Behind(i, c)
            \/ phase = "done" /\ ~ EndReached

RepeatInv ==
    Newest =>
        \A i \in Id :
            /\ listed[i] > 1 => Twin(i)
            /\ listed[i] > 0 => \A c \in cursor : Behind(i, c) => Twin(i)

Reading == phase \in {"reading", "entities"}

\* A page of the rows still to be seen: nothing that was there from the start
\* comes before it and, if less than a full one was chosen, nothing after.
Fit(page, ids) ==
    /\ Newest => \A i \in page, j \in (from \cap Matching) \ page : ~ Before(j, i)
    /\ Cardinality(ids) < limit => from \cap Matching \subseteq page

ChosenInv ==
    phase = "entities" =>
        /\ \A i \in chosen : /\ rows[i].state \in {"there", "deleted"}
                             /\ \A c \in cursor : Behind(i, c)
        /\ Fit(chosen, chosen)

-----------------------------------------------------------------------------
(* Milliseconds.                                                           *)

\* What flooring division of a natural number by Micros is.
LEMMA Division ==
    ASSUME NEW t \in Nat, NEW m \in Nat \ {0}
    PROVE  /\ t \div m \in Nat
           /\ t % m \in 0 .. m - 1 /\ t % m <= t
           /\ t = m * (t \div m) + (t % m)
           /\ m * (t \div m) \in Nat
<1>1. t \div m \in Nat /\ t % m \in 0 .. m - 1 /\ t = m * (t \div m) + (t % m)
  OBVIOUS
<1>2. \A q \in Nat : m * q \in Nat
  OBVIOUS
<1>3. m * (t \div m) \in Nat
  BY <1>1, <1>2
<1> QED
  BY <1>1, <1>3

\* Between two multiples of Micros that differ there is at least Micros.
LEMMA Multiples ==
    ASSUME NEW m \in Nat \ {0}, NEW p \in Nat, NEW q \in Nat, p < q
    PROVE  m * p + m <= m * q
<1>1. q - p - 1 \in Nat
  OBVIOUS
<1>2. m * (q - p - 1) >= 0
  BY <1>1
<1>3. m * (q - p - 1) = m * q - m * p - m
  OBVIOUS
<1> QED
  BY <1>2, <1>3

\* Cutting a time off to milliseconds gives a time that is not later.
LEMMA MillisecondsTime ==
    ASSUME NEW t \in Time
    PROVE  Milliseconds(t) \in Time /\ Milliseconds(t) <= t
<1> USE ConstantsAssumption
<1>1. t \in Nat /\ t <= MaxTime
  BY DEF Time
<1>2. Micros \in Nat \ {0}
  OBVIOUS
<1>3. t % Micros \in 0 .. Micros - 1 /\ t % Micros <= t
  BY ONLY <1>1, <1>2, Division
<1> QED
  BY <1>1, <1>2, <1>3 DEF Milliseconds, Time

\* A time between another one and its millisecond is in that millisecond.
LEMMA SameMillisecond ==
    ASSUME NEW t \in Time, NEW s \in Time, Milliseconds(t) <= s, s <= t
    PROVE  Milliseconds(s) = Milliseconds(t)
<1> USE ConstantsAssumption
<1> DEFINE p == s \div Micros
           q == t \div Micros
<1>1. s \in Nat /\ t \in Nat
  BY DEF Time
<1>2. /\ p \in Nat /\ q \in Nat
      /\ Micros * p \in Nat /\ Micros * q \in Nat
      /\ s % Micros \in 0 .. Micros - 1 /\ t % Micros \in 0 .. Micros - 1
      /\ s = Micros * p + (s % Micros) /\ t = Micros * q + (t % Micros)
  BY <1>1, Division
<1> HIDE DEF p, q
<1>3. Micros * q <= s /\ s <= t
  BY <1>2 DEF Milliseconds
<1>4. ~ p < q
  <2> SUFFICES ASSUME p < q PROVE FALSE
    OBVIOUS
  <2>1. Micros * p + Micros <= Micros * q
    BY <1>2, Multiples
  <2> QED
    BY <1>2, <1>3, <2>1
<1>5. ~ q < p
  <2> SUFFICES ASSUME q < p PROVE FALSE
    OBVIOUS
  <2>1. Micros * q + Micros <= Micros * p
    BY <1>2, Multiples
  <2> QED
    BY <1>2, <1>3, <2>1
<1>6. p = q
  BY <1>2, <1>4, <1>5
<1>7. Milliseconds(s) = Micros * p /\ Milliseconds(t) = Micros * q
  BY <1>1, <1>2 DEF Milliseconds
<1> QED
  BY <1>6, <1>7

-----------------------------------------------------------------------------
(* Types.                                                                  *)

\* The cursor made from a row is a cursor.
LEMMA CursorAtType ==
    ASSUME TypeOK, NEW i \in Id
    PROVE  /\ CursorAt(i) \in Cursor
           /\ CursorAt(i).id = i
           /\ CursorAt(i).createdAt = Milliseconds(rows[i].createdAt)
<1>1. rows[i].createdAt \in Time
  BY DEF TypeOK, Row
<1> QED
  BY <1>1, MillisecondsTime DEF CursorAt, Cursor

\* The limit is capped, whatever is asked for.
LEMMA LimitType == ASSUME NEW asked \in Asked PROVE Limit(asked) \in 1 .. MaxLimit
  BY ConstantsAssumption DEF Limit

\* The initial state has the types.
LEMMA InitTypeOK == Init => TypeOK
<1> SUFFICES ASSUME Init PROVE TypeOK
  OBVIOUS
<1> USE ConstantsAssumption
<1>1. rows \in [Id -> Row]
  BY DEF Init, Row, Time
<1>2. cursor \in SUBSET Cursor /\ Cardinality(cursor) <= 1
  BY FS_EmptySet DEF Init
<1> QED
  BY <1>1, <1>2 DEF Init, TypeOK, Sort, Lists

\* Every step keeps the types.
LEMMA NextTypeOK == TypeOK /\ [Next]_vars => TypeOK'
<1> SUFFICES ASSUME TypeOK, [Next]_vars PROVE TypeOK'
  OBVIOUS
<1> USE ConstantsAssumption
<1>1. ASSUME NEW i \in Id, NEW t \in Time, BeginInsert(i, t)
      PROVE  TypeOK'
  BY <1>1 DEF BeginInsert, TypeOK, Row, client
<1>2. ASSUME NEW i \in Id, CommitInsert(i) \/ Remove(i)
      PROVE  TypeOK'
  <2>1. rows[i] \in Row
    BY DEF TypeOK
  <2>2. /\ [rows[i] EXCEPT !.state = "there"] \in Row
        /\ [rows[i] EXCEPT !.state = "deleted"] \in Row
    BY <2>1 DEF Row
  <2> QED
    BY <1>2, <2>2 DEF CommitInsert, Remove, TypeOK, client
<1>3. ASSUME NEW l \in Lists, NEW s \in Sort, NEW asked \in Asked, Ask(l, s, asked)
      PROVE  TypeOK'
  BY <1>3, LimitType DEF Ask, TypeOK, There
<1>4. ASSUME NEW page \in SUBSET Id, NEW ids \in SUBSET Id, Deliver(page, ids)
      PROVE  TypeOK'
  <2>1. listed' \in [Id -> 0 .. 2]
    BY <1>4 DEF Deliver, List, TypeOK
  <2>2. CASE Cardinality(page) = limit
    <3>1. PICK i \in Id : cursor' = {CursorAt(i)}
      BY <1>4, <2>2 DEF Deliver, LastOf
    <3>2. cursor' \in SUBSET Cursor /\ Cardinality(cursor') <= 1
      BY <3>1, CursorAtType, FS_Singleton
    <3> QED
      BY <1>4, <2>1, <2>2, <3>2 DEF Deliver, TypeOK
  <2>3. CASE Cardinality(page) # limit
    <3>1. cursor' = {} /\ phase' = "done" /\ chosen' = ids
      BY <1>4, <2>3 DEF Deliver
    <3>2. cursor' \in SUBSET Cursor /\ Cardinality(cursor') <= 1
      BY <3>1, FS_EmptySet
    <3> QED
      BY <1>4, <2>1, <3>1, <3>2 DEF Deliver, TypeOK
  <2> QED
    BY <2>2, <2>3
<1>5. CASE Fetch
  <2>1. \A page \in Pages : page \in SUBSET Id
    BY DEF Pages, Matching, There
  <2>2. CASE ReadPage
    BY <1>4, <2>1, <2>2 DEF ReadPage
  <2>3. CASE ReadEntities
    <3>1. chosen \in SUBSET Id /\ chosen \cap There \in SUBSET Id
      BY DEF TypeOK
    <3> QED
      BY <1>4, <2>3, <3>1 DEF ReadEntities
  <2>4. CASE ReadIds
    <3>1. PICK page \in Pages : \/ Deliver(page, page)
                                \/ /\ chosen' = page /\ phase' = "entities"
                                   /\ UNCHANGED <<rows, list, sort, limit, cursor, listed, from>>
      BY <2>4 DEF ReadIds
    <3> QED
      BY <1>4, <2>1, <3>1 DEF TypeOK
  <2> QED
    BY <1>5, <2>2, <2>3, <2>4 DEF Fetch
<1>6. CASE UNCHANGED vars
  BY <1>6 DEF vars, client, TypeOK
<1> QED
  BY <1>1, <1>2, <1>3, <1>5, <1>6 DEF Next

\* Every variable keeps its type, and no page exceeds the limit, for any
\* rows and any numbers asked for.
THEOREM ListingTypeOK == Spec => []TypeOK
<1>1. Init => TypeOK
  BY InitTypeOK
<1>2. TypeOK /\ [Next]_vars => TypeOK'
  BY NextTypeOK
<1> QED
  BY <1>1, <1>2, PTL DEF Spec

-----------------------------------------------------------------------------
(* The pages.                                                              *)

TableChange(i) ==
    (\E t \in Time : BeginInsert(i, t)) \/ CommitInsert(i) \/ Remove(i)

\* What is left unchanged by the steps that insert and remove rows.
LEMMA TableStep ==
    ASSUME TypeOK, ClientInv, NEW i \in Id, TableChange(i)
    PROVE  /\ UNCHANGED client
           /\ \A j \in Id : rows[j].state # "absent" =>
                 rows'[j].createdAt = rows[j].createdAt
           /\ \A j \in Id : rows[j].state \in {"there", "deleted"} =>
                 rows'[j].state \in {"there", "deleted"}
           /\ \A j \in Id : j \in There' /\ rows[j].state \in {"there", "deleted"}
                 => j \in There
<1>1. CASE \E t \in Time : BeginInsert(i, t)
  BY <1>1 DEF BeginInsert, TypeOK, Row, There
<1>2. CASE CommitInsert(i)
  BY <1>2 DEF CommitInsert, TypeOK, Row, There
<1>3. CASE Remove(i)
  BY <1>3 DEF Remove, TypeOK, Row, There
<1> QED
  BY <1>1, <1>2, <1>3 DEF TableChange

\* A page and what follows from it.
LEMMA PageStep ==
    ASSUME TypeOK, NEW page \in SUBSET Matching, List(page), UNCHANGED <<rows, sort>>
    PROVE  /\ \A i \in Id : listed'[i] = IF i \in page /\ listed[i] < 2
                                       THEN listed[i] + 1 ELSE listed[i]
           /\ \A i \in Id : listed[i] \in 0 .. 2
           /\ \A i \in Id : listed[i] > 0 => listed'[i] > 0
           /\ \A i \in page : i \in Matching /\ listed'[i] > 0
           /\ \A i \in Id : Seen(i) => Seen(i)'
           /\ \A i \in Id : Twin(i) => Twin(i)'
           /\ \A i \in page : Seen(i)'
<1>1. page \subseteq Matching /\ Matching \subseteq Id
  BY DEF Matching, There
<1>2. \A i \in Id : listed'[i] = IF i \in page /\ listed[i] < 2
                               THEN listed[i] + 1 ELSE listed[i]
  BY DEF List
<1>3. \A i \in Id : listed[i] \in 0 .. 2
  BY DEF TypeOK
<1>4. \A i \in Id : listed[i] > 0 => listed'[i] > 0
  BY <1>2, <1>3
<1>5. \A i \in page : i \in Matching /\ listed'[i] > 0
  BY <1>1, <1>2, <1>3
<1>6. \A i \in Id : Seen(i) => Seen(i)'
  BY <1>4 DEF Seen, Milliseconds
<1>7. \A i \in Id : Twin(i) => Twin(i)'
  BY <1>4 DEF Twin
<1>8. \A i \in page : Seen(i)'
  BY <1>1, <1>5 DEF Seen, Milliseconds
<1> QED
  BY <1>2, <1>3, <1>4, <1>5, <1>6, <1>7, <1>8

\* The ids of the next page are chosen.
Choosing ==
    /\ phase = "reading" /\ phase' = "entities"
    /\ chosen' \in Pages
    /\ UNCHANGED <<rows, list, sort, limit, cursor, listed, from>>

\* Every page that a query may return fits.
LEMMA PagesFit ==
    ASSUME TypeOK, NEW page \in Pages
    PROVE  page \in SUBSET Matching /\ page \in SUBSET Id /\ Fit(page, page)
<1>1. page \in SUBSET Matching /\ page \in SUBSET Id
  BY DEF Pages, Matching, There
<1>2. \A i \in page, j \in Matching \ page : ~ Before(j, i)
  BY DEF Pages
<1>3. Cardinality(page) < limit => page = Matching
  BY DEF Pages, TypeOK
<1> QED
  BY <1>1, <1>2, <1>3 DEF Fit

\* What a client does after asking: it gets a page of rows that match, which
\* fits, or has the ids of one chosen.
LEMMA FetchStep ==
    ASSUME TypeOK, ChosenInv, Fetch
    PROVE  \/ Choosing
           \/ \E page \in SUBSET Matching, ids \in SUBSET Id :
                 Reading /\ Fit(page, ids) /\ Deliver(page, ids)
<1>1. CASE ReadPage
  <2>1. PICK page \in Pages : Deliver(page, page)
    BY <1>1 DEF ReadPage
  <2> QED
    BY <1>1, <2>1, PagesFit DEF ReadPage, Reading
<1>2. CASE ReadIds
  <2>1. PICK page \in Pages : \/ Deliver(page, page)
                              \/ /\ chosen' = page /\ phase' = "entities"
                                 /\ UNCHANGED <<rows, list, sort, limit, cursor, listed, from>>
    BY <1>2 DEF ReadIds
  <2> QED
    BY <1>2, <2>1, PagesFit DEF ReadIds, Reading, Choosing
<1>3. CASE ReadEntities
  <2> DEFINE page == chosen \cap There
  <2>1. phase = "entities" /\ Deliver(page, chosen) /\ chosen \in SUBSET Id
    BY <1>3 DEF ReadEntities, TypeOK
  <2>2. page \in SUBSET Matching
    BY <2>1 DEF ChosenInv, Matching
  <2>3. Fit(page, chosen)
    BY <2>1 DEF ChosenInv, Fit, Matching
  <2> QED
    BY <2>1, <2>2, <2>3 DEF Reading
<1> QED
  BY <1>1, <1>2, <1>3 DEF Fetch

-----------------------------------------------------------------------------
(* The client's invariants.                                                *)

\* Every step keeps what the client knows of its cursor and its list.
LEMMA NextClientInv ==
    ASSUME TypeOK, ClientInv, ChosenInv, [Next]_vars
    PROVE  ClientInv'
<1>1. ASSUME NEW i \in Id, TableChange(i)
      PROVE  ClientInv'
  BY <1>1, TableStep DEF ClientInv, client
<1>2. ASSUME NEW l \in Lists, NEW s \in Sort, NEW asked \in Asked, Ask(l, s, asked)
      PROVE  ClientInv'
  BY <1>2 DEF Ask, ClientInv, There
<1>3. CASE Fetch
  <2>1. CASE Choosing
    BY <2>1 DEF Choosing, ClientInv
  <2>2. ASSUME NEW page \in SUBSET Matching, NEW ids, Deliver(page, ids)
        PROVE  ClientInv'
    <3>1. List(page) /\ UNCHANGED <<rows, sort, from>>
      BY <2>2 DEF Deliver
    <3>2. \A i \in Id : listed'[i] > 0 => listed[i] > 0 \/ i \in There
      BY <3>1, PageStep DEF Matching
    <3>3. \A i \in Id : listed'[i] > 0 \/ i \in from' =>
                rows'[i].state \in {"there", "deleted"}
      BY <3>1, <3>2 DEF ClientInv, There
    <3>4. \/ phase' = "done"
          \/ phase' = "reading" /\ cursor' # {}
      BY <2>2 DEF Deliver
    <3> QED
      BY <3>3, <3>4 DEF ClientInv
  <2> QED
    BY <1>3, <2>1, <2>2, FetchStep
<1>4. CASE UNCHANGED vars
  BY <1>4 DEF vars, client, ClientInv
<1> QED
  BY <1>1, <1>2, <1>3, <1>4 DEF Next, TableChange

\* Inserting and removing rows does not disturb what was seen.
LEMMA TableSeen ==
    ASSUME TypeOK, ClientInv, NEW i \in Id, TableChange(i)
    PROVE  \A j \in Id : rows[j].state \in {"there", "deleted"} =>
              /\ Seen(j) => Seen(j)'
              /\ Twin(j) => Twin(j)'
              /\ \A c \in cursor : Behind(j, c) <=> Behind(j, c)'
<1> SUFFICES ASSUME NEW j \in Id, rows[j].state \in {"there", "deleted"}
             PROVE  /\ Seen(j) => Seen(j)'
                    /\ Twin(j) => Twin(j)'
                    /\ \A c \in cursor : Behind(j, c) <=> Behind(j, c)'
  OBVIOUS
<1>1. /\ rows'[j].createdAt = rows[j].createdAt
      /\ listed' = listed
      /\ \A k \in Id : listed[k] > 0 => rows'[k].createdAt = rows[k].createdAt
  BY TableStep DEF client, ClientInv
<1> QED
  BY <1>1 DEF Seen, Twin, Behind, Milliseconds

\* What was chosen fits until it is read.
LEMMA NextChosenInv ==
    ASSUME TypeOK, ClientInv, ChosenInv, [Next]_vars
    PROVE  ChosenInv'
<1>1. ASSUME NEW i \in Id, TableChange(i)
      PROVE  ChosenInv'
  <2> SUFFICES ASSUME phase' = "entities" PROVE ChosenInv'
    BY DEF ChosenInv
  <2>1. UNCHANGED client /\ phase = "entities"
    BY <1>1, TableStep DEF client
  <2>2. /\ chosen \in SUBSET Id /\ Fit(chosen, chosen)
        /\ \A j \in chosen : /\ rows[j].state \in {"there", "deleted"}
                             /\ \A c \in cursor : Behind(j, c)
    BY <2>1 DEF ChosenInv, TypeOK
  <2>3. \A j \in chosen : /\ rows'[j].state \in {"there", "deleted"}
                          /\ rows'[j].createdAt = rows[j].createdAt
                          /\ \A c \in cursor : Behind(j, c)'
    BY <1>1, <2>1, <2>2, TableStep, TableSeen
  <2>4. ASSUME NEW j \in from, j \in Matching'
        PROVE  j \in Matching /\ rows'[j].createdAt = rows[j].createdAt
    <3>1. j \in Id /\ rows[j].state \in {"there", "deleted"}
      BY DEF ClientInv, TypeOK
    <3>2. j \in There
      BY <1>1, <2>4, <3>1, TableStep DEF Matching
    <3>3. \A c \in cursor : Behind(j, c)
      BY <1>1, <2>1, <2>4, <3>1, TableSeen DEF Matching, client
    <3> QED
      BY <1>1, <3>1, <3>2, <3>3, TableStep DEF Matching
  <2>5. Fit(chosen, chosen)'
    BY <2>1, <2>2, <2>3, <2>4 DEF Fit, Before, Newest, client
  <2> QED
    BY <2>1, <2>3, <2>5 DEF ChosenInv, client
<1>2. CASE Choosing
  <2> DEFINE page == chosen'
  <2>1. /\ page \in SUBSET Matching /\ page \in SUBSET Id /\ Fit(page, page)
        /\ UNCHANGED <<rows, list, sort, limit, cursor, listed, from>>
    BY <1>2, PagesFit DEF Choosing
  <2>2. Fit(chosen, chosen)'
    BY <2>1 DEF Fit, Newest, Before, Matching, There, Behind
  <2>3. \A i \in chosen' : /\ rows'[i].state \in {"there", "deleted"}
                           /\ \A c \in cursor' : Behind(i, c)'
    BY <2>1 DEF Matching, There, Behind
  <2> QED
    BY <2>2, <2>3 DEF ChosenInv
<1>3. CASE \E page, ids : Deliver(page, ids)
  BY <1>3 DEF Deliver, ChosenInv
<1>4. ASSUME NEW l \in Lists, NEW s \in Sort, NEW asked \in Asked, Ask(l, s, asked)
      PROVE  ChosenInv'
  BY <1>4 DEF Ask, ChosenInv
<1>5. CASE UNCHANGED vars
  BY <1>5 DEF vars, client, ChosenInv, Fit, Newest, Before, Matching, There, Behind
<1> QED
  BY <1>1, <1>2, <1>3, <1>4, <1>5, FetchStep DEF Next, TableChange

\* Every step keeps that only rows at or behind the cursor are missing.
LEMMA NextSkipInv ==
    ASSUME TypeOK, ClientInv, ChosenInv, SkipInv, [Next]_vars
    PROVE  SkipInv'
<1>1. ASSUME NEW i \in Id, TableChange(i)
      PROVE  SkipInv'
  <2> SUFFICES ASSUME Newest', NEW j \in (from \cap There)'
               PROVE  \/ Seen(j)'
                      \/ phase' # "done" /\ \A c \in cursor' : Behind(j, c)'
                      \/ phase' = "done" /\ ~ EndReached'
    BY DEF SkipInv
  <2>1. UNCHANGED client /\ Newest
    BY <1>1, TableStep DEF client, Newest
  <2>2. j \in from \cap There
    BY <1>1, <2>1, TableStep DEF client, ClientInv, TypeOK
  <2>3. j \in Id /\ rows[j].state \in {"there", "deleted"}
    BY <2>2 DEF There
  <2> QED
    BY <1>1, <2>1, <2>2, <2>3, TableSeen DEF SkipInv, client, EndReached
<1>2. ASSUME NEW l \in Lists, NEW s \in Sort, NEW asked \in Asked, Ask(l, s, asked)
      PROVE  SkipInv'
  BY <1>2 DEF Ask, SkipInv, ClientInv
<1>3. ASSUME NEW page \in SUBSET Matching, NEW ids, Deliver(page, ids), Fit(page, ids), Reading
      PROVE  SkipInv'
  <2> SUFFICES ASSUME Newest', NEW j \in (from \cap There)', ~ Seen(j)'
               PROVE  \/ phase' # "done" /\ \A c \in cursor' : Behind(j, c)'
                      \/ phase' = "done" /\ ~ EndReached'
    BY DEF SkipInv
  <2>1. /\ List(page) /\ UNCHANGED <<rows, sort, limit, from>>
        /\ Newest /\ j \in from \cap There /\ j \in Id
    BY <1>3 DEF Deliver, Newest, There
  <2>2. ~ Seen(j) /\ j \notin page
    BY <2>1, PageStep
  <2>3. j \in (from \cap Matching) \ page
    BY <1>3, <2>1, <2>2 DEF SkipInv, Matching, Reading
  <2>4. CASE Cardinality(page) # limit
    BY <1>3, <2>1, <2>3, <2>4 DEF Deliver, Fit, EndReached
  <2>5. CASE Cardinality(page) = limit
    <3>1. PICK l \in LastOf(page) : cursor' = {CursorAt(l)}
      BY <1>3, <2>5 DEF Deliver
    <3>2. l \in page /\ l \in Id /\ Seen(l)'
      BY <2>1, PageStep DEF LastOf, Matching, There
    <3>3. rows[j].createdAt \in Time /\ rows[l].createdAt \in Time
      BY <2>1, <3>2 DEF TypeOK, Row
    <3>4. ~ Before(j, l)
      BY <1>3, <2>1, <2>3, <3>2 DEF Fit
    <3>5. rows[j].createdAt <= rows[l].createdAt
      BY <2>1, <3>3, <3>4, ConstantsAssumption DEF Before, Newest, Time
    <3>6. Milliseconds(rows[j].createdAt) # Milliseconds(rows[l].createdAt)
      BY <2>1, <3>2, PageStep DEF Seen, Milliseconds
    <3>7. rows[j].createdAt < Milliseconds(rows[l].createdAt)
      BY <3>3, <3>5, <3>6, SameMillisecond, MillisecondsTime, ConstantsAssumption DEF Time
    <3>8. phase' = "reading"
      BY <1>3, <2>5 DEF Deliver
    <3> QED
      BY <2>1, <3>1, <3>2, <3>7, <3>8, CursorAtType DEF Behind
  <2> QED
    BY <2>4, <2>5
<1>4. CASE Choosing
  BY <1>4 DEF Choosing, SkipInv, Newest, Seen, There, Behind, Milliseconds
<1>5. CASE UNCHANGED vars
  BY <1>5 DEF vars, client, SkipInv, Newest, Seen, There, Behind, Milliseconds, EndReached
<1> QED
  BY <1>1, <1>2, <1>3, <1>4, <1>5, FetchStep DEF Next, TableChange

\* Every step keeps that the rows listed before the cursor differ.
LEMMA NextRepeatInv ==
    ASSUME TypeOK, ClientInv, ChosenInv, RepeatInv, [Next]_vars
    PROVE  RepeatInv'
<1>1. ASSUME NEW i \in Id, TableChange(i)
      PROVE  RepeatInv'
  <2> SUFFICES ASSUME Newest', NEW j \in Id, listed'[j] > 0
               PROVE  /\ listed'[j] > 1 => Twin(j)'
                      /\ \A c \in cursor' : Behind(j, c)' => Twin(j)'
    BY <1>1, TableStep DEF RepeatInv, TypeOK, client
  <2>1. UNCHANGED client /\ Newest
    BY <1>1, TableStep DEF client, Newest
  <2>2. rows[j].state \in {"there", "deleted"}
    BY <2>1 DEF ClientInv, client
  <2> QED
    BY <1>1, <2>1, <2>2, TableSeen DEF RepeatInv, client
<1>2. ASSUME NEW l \in Lists, NEW s \in Sort, NEW asked \in Asked, Ask(l, s, asked)
      PROVE  RepeatInv'
  <2>1. cursor' = {} /\ \A i \in Id : listed'[i] = 0
    BY <1>2 DEF Ask, ClientInv
  <2> QED
    BY <2>1 DEF RepeatInv
<1>3. ASSUME NEW page \in SUBSET Matching, List(page), UNCHANGED <<rows, sort>>, Reading,
             Newest, NEW j \in Id, listed'[j] > 1
      PROVE  Twin(j)'
  <2>1. CASE listed[j] > 1
    BY <1>3, <2>1, PageStep DEF RepeatInv
  <2>2. CASE ~ listed[j] > 1
    <3>1. j \in page /\ listed[j] > 0
      BY <1>3, <2>2, PageStep
    <3>2. cursor # {} /\ \A c \in cursor : Behind(j, c)
      BY <1>3, <3>1, PageStep DEF ClientInv, Matching, Reading
    <3> QED
      BY <1>3, <3>1, <3>2, PageStep DEF RepeatInv
  <2> QED
    BY <2>1, <2>2
<1>4. ASSUME NEW page \in SUBSET Matching, NEW ids, Deliver(page, ids), Reading,
             Cardinality(page) = limit
      PROVE  RepeatInv'
  <2> SUFFICES ASSUME Newest', NEW j \in Id, listed'[j] > 0
               PROVE  /\ listed'[j] > 1 => Twin(j)'
                      /\ \A c \in cursor' : Behind(j, c)' => Twin(j)'
    <3>1. \A j \in Id : listed'[j] > 1 => listed'[j] > 0
      BY NextTypeOK DEF TypeOK
    <3> QED
      BY <3>1 DEF RepeatInv
  <2>1. List(page)
    BY <1>4 DEF Deliver
  <2>2. PICK l \in LastOf(page) : cursor' = {CursorAt(l)}
    BY <1>4 DEF Deliver
  <2>3. UNCHANGED <<rows, sort>> /\ Reading /\ Newest
    BY <1>4 DEF Deliver, Newest
  <2>4. l \in page /\ l \in Id /\ l \in Matching /\ listed'[l] > 0
    BY <2>1, <2>2, <2>3, PageStep DEF LastOf, Matching, There
  <2>5. rows[j].createdAt \in Nat /\ rows[l].createdAt \in Nat /\ j \in Nat /\ l \in Nat
    BY <2>4, ConstantsAssumption DEF TypeOK, Row, Time
  <2>6. Milliseconds(rows[l].createdAt) \in Nat
        /\ Milliseconds(rows[l].createdAt) <= rows[l].createdAt
    BY <2>4, MillisecondsTime DEF TypeOK, Row, Time
  <2>7. ASSUME Behind(j, CursorAt(l))
        PROVE  Twin(j)'
    <3>1. rows[j].createdAt <= rows[l].createdAt /\ (rows[j].createdAt = rows[l].createdAt => j < l)
      BY <2>4, <2>5, <2>6, <2>7, CursorAtType DEF Behind
    <3>2. CASE j \in page
      <4>1. rows[l].createdAt <= rows[j].createdAt
        BY <2>2, <2>3, <2>5, <3>2 DEF LastOf, Before, Newest
      <4> QED
        BY <2>3, <2>4, <2>5, <3>1, <4>1 DEF Twin
    <3>3. CASE j \notin page
      <4>1. listed[j] > 0
        BY <2>1, <2>3, <3>3, PageStep
      <4>2. PICK c \in cursor : Behind(l, c)
        BY <2>3, <2>4, <4>1, PageStep DEF ClientInv, Matching, TypeOK, Reading
      <4>3. c.createdAt \in Time /\ c.id \in Id
        BY <4>2 DEF TypeOK, Cursor
      <4>4. c.createdAt \in Nat /\ c.id \in Nat
        <5>1. Time \subseteq Nat /\ Id \subseteq Nat
          BY ConstantsAssumption DEF Time
        <5> QED
          BY <4>3, <5>1, Zenon
      <4>5. Behind(j, c)
        BY <2>5, <3>1, <4>2, <4>4 DEF Behind
      <4> QED
        BY <2>1, <2>3, <4>1, <4>5, PageStep DEF RepeatInv
    <3> QED
      BY <3>2, <3>3
  <2>8. listed'[j] > 1 => Twin(j)'
    BY <1>3, <2>1, <2>3
  <2>9. \A c \in cursor' : Behind(j, c)' => Behind(j, CursorAt(l))
    BY <2>2, <2>3 DEF Behind
  <2> QED
    BY <2>7, <2>8, <2>9
<1>5. ASSUME NEW page \in SUBSET Matching, NEW ids, Deliver(page, ids), Reading,
             Cardinality(page) # limit
      PROVE  RepeatInv'
  <2>1. List(page) /\ cursor' = {} /\ UNCHANGED <<rows, sort>>
    BY <1>5 DEF Deliver
  <2> QED
    BY <1>3, <1>5, <2>1 DEF RepeatInv, Newest
<1>6. CASE Choosing
  BY <1>6 DEF Choosing, RepeatInv, Newest, Twin, Behind
<1>7. CASE UNCHANGED vars
  BY <1>7 DEF vars, client, RepeatInv, Newest, Twin, Behind
<1> QED
  BY <1>1, <1>2, <1>4, <1>5, <1>6, <1>7, FetchStep DEF Next, TableChange

\* A client that has asked for nothing satisfies its invariants.
LEMMA InitClient == Init => ClientInv /\ ChosenInv /\ SkipInv /\ RepeatInv
  BY DEF Init, ClientInv, ChosenInv, SkipInv, RepeatInv, Newest

\* Newest first, a client that has read all the pages has missed no row that
\* was there throughout, except within the millisecond of one that it saw:
\* for any rows, limits and clock, whatever is inserted and removed meanwhile,
\* and for products, too, unless the last page was a full one when its ids
\* were chosen.
THEOREM ListingSkippedOnlyWithinMillisecond ==
    Spec => []SkippedOnlyWithinMillisecond
<1>1. Init => TypeOK /\ ClientInv /\ ChosenInv /\ SkipInv
  BY InitTypeOK, InitClient
<1>2. TypeOK /\ ClientInv /\ ChosenInv /\ SkipInv /\ [Next]_vars
          => TypeOK' /\ ClientInv' /\ ChosenInv' /\ SkipInv'
  BY NextTypeOK, NextClientInv, NextChosenInv, NextSkipInv
<1>3. SkipInv => SkippedOnlyWithinMillisecond
  BY DEF SkipInv, SkippedOnlyWithinMillisecond, SeenThroughout, Seen, Newest, EndReached
<1> QED
  BY <1>1, <1>2, <1>3, PTL DEF Spec

\* Newest first, no row is on two pages unless it shares its creation time
\* with another one that the client saw.
THEOREM ListingRepeatedOnlyOnTie == Spec => []RepeatedOnlyOnTie
<1>1. Init => TypeOK /\ ClientInv /\ ChosenInv /\ RepeatInv
  BY InitTypeOK, InitClient
<1>2. TypeOK /\ ClientInv /\ ChosenInv /\ RepeatInv /\ [Next]_vars
          => TypeOK' /\ ClientInv' /\ ChosenInv' /\ RepeatInv'
  BY NextTypeOK, NextClientInv, NextChosenInv, NextRepeatInv
<1>3. RepeatInv => RepeatedOnlyOnTie
  BY DEF RepeatInv, RepeatedOnlyOnTie, Twin, Newest
<1> QED
  BY <1>1, <1>2, <1>3, PTL DEF Spec

-----------------------------------------------------------------------------
(* The order of the pages, and what ends them.                             *)

\* What was listed is not older than the cursor.
OrderInv ==
    Newest =>
        \A i \in Id : listed[i] > 0 =>
            \A c \in cursor : c.createdAt <= rows[i].createdAt

\* The client that begins has listed nothing.
LEMMA InitOrderInv == Init => OrderInv
  BY DEF Init, OrderInv

\* A row that comes onto a page is not newer than any row that was listed
\* before: the cursor is between the two.
LEMMA PageInOrder ==
    ASSUME TypeOK, ClientInv, OrderInv, Newest, Reading,
           NEW j \in Matching, NEW i \in Id, listed[i] > 0
    PROVE  rows[j].createdAt <= rows[i].createdAt
<1>1. PICK c \in cursor : Behind(j, c)
  BY DEF ClientInv, Matching, There, TypeOK, Reading
<1>2. c.createdAt <= rows[i].createdAt
  BY DEF OrderInv
<1>3. c.createdAt \in Nat /\ rows[i].createdAt \in Nat /\ rows[j].createdAt \in Nat
  <2>1. j \in Id /\ c \in Cursor
    BY DEF Matching, There, TypeOK
  <2>2. c.createdAt \in Time /\ rows[i].createdAt \in Time /\ rows[j].createdAt \in Time
    BY <2>1 DEF TypeOK, Row, Cursor
  <2>3. Time \subseteq Nat
    BY ConstantsAssumption DEF Time
  <2> QED
    BY <2>2, <2>3, Zenon
<1>4. rows[j].createdAt <= c.createdAt
  BY <1>1, <1>3 DEF Behind
<1> QED
  BY <1>2, <1>3, <1>4

\* Every step keeps the cursor behind what was listed.
LEMMA NextOrderInv ==
    ASSUME TypeOK, ClientInv, ChosenInv, OrderInv, [Next]_vars
    PROVE  OrderInv'
<1>1. ASSUME NEW i \in Id, TableChange(i)
      PROVE  OrderInv'
  <2>1. UNCHANGED client
    BY <1>1, TableStep
  <2>2. \A j \in Id : listed[j] > 0 => rows'[j].createdAt = rows[j].createdAt
    BY <1>1, TableStep DEF ClientInv
  <2> QED
    BY <2>1, <2>2 DEF OrderInv, Newest, client
<1>2. ASSUME NEW l \in Lists, NEW s \in Sort, NEW asked \in Asked, Ask(l, s, asked)
      PROVE  OrderInv'
  BY <1>2 DEF Ask, ClientInv, OrderInv
<1>3. ASSUME NEW page \in SUBSET Matching, NEW ids, Deliver(page, ids), Reading,
             Cardinality(page) = limit
      PROVE  OrderInv'
  <2> SUFFICES ASSUME Newest', NEW i \in Id, listed'[i] > 0, NEW c \in cursor'
               PROVE  c.createdAt <= rows'[i].createdAt
    BY DEF OrderInv
  <2>1. List(page)
    BY <1>3 DEF Deliver
  <2>2. PICK l \in LastOf(page) : cursor' = {CursorAt(l)}
    BY <1>3 DEF Deliver
  <2>3. UNCHANGED <<rows, sort>> /\ Reading /\ Newest
    BY <1>3 DEF Deliver, Newest
  <2>4. l \in page /\ l \in Matching /\ l \in Id
    BY DEF LastOf, Matching, There
  <2>5. /\ rows[i].createdAt \in Time /\ rows[l].createdAt \in Time
        /\ Time \subseteq Nat
    BY <2>4, ConstantsAssumption DEF TypeOK, Row, Time
  <2>6. rows[l].createdAt <= rows[i].createdAt
    <3>1. CASE i \in page
      <4>1. ~ Before(l, i)
        BY <3>1 DEF LastOf
      <4>2. ~ (rows[l].createdAt > rows[i].createdAt)
        BY <2>3, <4>1 DEF Before, Newest
      <4>3. rows[l].createdAt \in Nat /\ rows[i].createdAt \in Nat
        BY <2>5
      <4> QED
        BY <4>2, <4>3
    <3>2. CASE i \notin page
      <4>1. listed[i] > 0
        BY <2>1, <2>3, <3>2, PageStep
      <4> QED
        BY <2>3, <2>4, <4>1, PageInOrder
    <3> QED
      BY <3>1, <3>2
  <2>7. /\ c.createdAt = Milliseconds(rows[l].createdAt)
        /\ Milliseconds(rows[l].createdAt) \in Time
        /\ Milliseconds(rows[l].createdAt) <= rows[l].createdAt
    BY <2>2, <2>4, <2>5, CursorAtType, MillisecondsTime
  <2>8. /\ c.createdAt \in Nat /\ rows[l].createdAt \in Nat /\ rows[i].createdAt \in Nat
        /\ c.createdAt <= rows[l].createdAt
    BY <2>5, <2>7
  <2>9. c.createdAt <= rows[i].createdAt
    BY <2>6, <2>8
  <2> QED
    BY <2>3, <2>9
<1>4. ASSUME NEW page, NEW ids, Deliver(page, ids), Cardinality(page) # limit
      PROVE  OrderInv'
  BY <1>4 DEF Deliver, OrderInv
<1>5. CASE Choosing
  BY <1>5 DEF Choosing, OrderInv, Newest
<1>6. CASE UNCHANGED vars
  BY <1>6 DEF vars, client, OrderInv, Newest
<1> QED
  BY <1>1, <1>2, <1>3, <1>4, <1>5, <1>6, FetchStep DEF Next, TableChange

\* Newest first, what a page adds is not newer than what pages before it have
\* shown, for any rows and limits: the list that the client puts together is
\* in order.
THEOREM ListingPagesInOrder == Spec => PagesInOrder
<1> DEFINE InOrder ==
             sort = "-createdAt" =>
                \A i, j \in Id : listed[i] > 0 /\ listed'[j] > listed[j] =>
                    rows[j].createdAt <= rows[i].createdAt
<1>1. Init => TypeOK /\ ClientInv /\ ChosenInv /\ OrderInv
  BY InitTypeOK, InitClient, InitOrderInv
<1>2. TypeOK /\ ClientInv /\ ChosenInv /\ OrderInv /\ [Next]_vars
          => TypeOK' /\ ClientInv' /\ ChosenInv' /\ OrderInv'
  BY NextTypeOK, NextClientInv, NextChosenInv, NextOrderInv
<1>3. ASSUME TypeOK, ClientInv, ChosenInv, OrderInv, [Next]_vars
      PROVE  InOrder
  <2> SUFFICES ASSUME Newest, NEW i \in Id, NEW j \in Id,
                      listed[i] > 0, listed'[j] > listed[j]
               PROVE  rows[j].createdAt <= rows[i].createdAt
    BY DEF Newest
  <2>1. listed[j] \in 0 .. 2
    BY <1>3 DEF TypeOK
  <2>2. CASE Fetch
    <3>1. CASE Choosing
      BY <2>1, <3>1 DEF Choosing
    <3>2. ASSUME NEW page \in SUBSET Matching, NEW ids, Deliver(page, ids), Reading
          PROVE  rows[j].createdAt <= rows[i].createdAt
      <4>1. j \in page
        BY <2>1, <3>2 DEF Deliver, List
      <4> QED
        BY <1>3, <3>2, <4>1, PageInOrder
    <3> QED
      BY <1>3, <2>2, <3>1, <3>2, FetchStep
  <2>3. CASE ~ Fetch
    <3>1. UNCHANGED listed
      BY <1>3, <2>3 DEF Next, vars, BeginInsert, CommitInsert, Remove, Ask, client
    <3> QED
      BY <2>1, <3>1
  <2> QED
    BY <2>2, <2>3
<1>4. TypeOK /\ ClientInv /\ ChosenInv /\ OrderInv /\ [Next]_vars => [InOrder]_vars
  BY <1>3
<1>5. PagesInOrder <=> [][InOrder]_vars
  BY DEF PagesInOrder
<1> HIDE DEF InOrder
<1> QED
  BY <1>1, <1>2, <1>4, <1>5, PTL DEF Spec

\* The order of cursors.
Less(c, b) == \/ c.createdAt < b.createdAt
              \/ c.createdAt = b.createdAt /\ c.id < b.id

\* Whatever the order asked for, the cursor of a full page is less than the
\* one it was taken with.
LEMMA CursorDescends ==
    ASSUME TypeOK, ChosenInv, Fetch, phase' = "reading", NEW b \in cursor, NEW c \in cursor'
    PROVE  Less(c, b)
<1>1. PICK page \in SUBSET Matching, ids \in SUBSET Id : Deliver(page, ids)
  BY FetchStep DEF Choosing
<1>2. PICK l \in LastOf(page) : cursor' = {CursorAt(l)}
  BY <1>1 DEF Deliver
<1>3. l \in Id /\ Behind(l, b)
  BY DEF LastOf, Matching, There
<1>4. /\ c.id = l /\ c.createdAt = Milliseconds(rows[l].createdAt)
      /\ rows[l].createdAt \in Time /\ b.createdAt \in Time
      /\ Time \subseteq Nat
  BY <1>2, <1>3, CursorAtType, ConstantsAssumption DEF TypeOK, Row, Cursor, Time
<1>5. c.createdAt \in Time /\ c.createdAt <= rows[l].createdAt
  BY <1>4, MillisecondsTime
<1>6. \/ rows[l].createdAt < b.createdAt
      \/ rows[l].createdAt = b.createdAt /\ l < b.id
  BY <1>3 DEF Behind
<1>7. c.createdAt \in Nat /\ b.createdAt \in Nat /\ rows[l].createdAt \in Nat
  BY <1>4, <1>5
<1>8. \/ c.createdAt < b.createdAt
      \/ c.createdAt = b.createdAt /\ c.id < b.id
  BY <1>4, <1>5, <1>6, <1>7
<1> QED
  BY <1>8 DEF Less

\* No page is asked for twice, and none that was passed is asked for again:
\* the cursors of a client descend, in any order and for any rows.  This is
\* the part of PagingEnds that is safety.
THEOREM ListingCursorDescends ==
    Spec => [][Fetch /\ phase' = "reading" =>
                  \A b \in cursor, c \in cursor' : Less(c, b)]_vars
<1> DEFINE Descends == Fetch /\ phase' = "reading" =>
                          \A b \in cursor, c \in cursor' : Less(c, b)
<1>1. Init => TypeOK /\ ClientInv /\ ChosenInv
  BY InitTypeOK, InitClient
<1>2. TypeOK /\ ClientInv /\ ChosenInv /\ [Next]_vars
          => TypeOK' /\ ClientInv' /\ ChosenInv'
  BY NextTypeOK, NextClientInv, NextChosenInv
<1>3. TypeOK /\ ChosenInv => Descends
  BY CursorDescends
<1>4. [][Fetch /\ phase' = "reading" =>
            \A b \in cursor, c \in cursor' : Less(c, b)]_vars <=> [][Descends]_vars
  OBVIOUS
<1> HIDE DEF Descends
<1> QED
  BY <1>1, <1>2, <1>3, <1>4, PTL DEF Spec

=============================================================================
