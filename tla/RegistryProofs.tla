--------------------------- MODULE RegistryProofs ---------------------------
(***************************************************************************)
(* Proofs about Registry, for any users, organizations, names, products    *)
(* and handlers: types, unique names and memberships, owners, and that     *)
(* what was removed stays removed.                                         *)
(*                                                                         *)
(* Names stay apart although updates save whole copies, the name included, *)
(* over rows that others have changed: the name a copy carries is always   *)
(* the one the row has, because only the insert sets it and an insert      *)
(* never meets a row (KeyInv).                                             *)
(***************************************************************************)
EXTENDS Registry, TLAPS

\* The part of TypeOK that is about the two tables of records.
RecordsOK ==
    /\ records \in [Thing -> SUBSET Row]
    /\ \A x \in Thing : \A e, f \in records[x] : e = f
    /\ \A o \in Org : \A e \in records[o] : e.key \in Name
    /\ \A p \in Product : \A e \in records[p] : e.key \in Org /\ Exists(e.key)

\* An organization about to be inserted has a name, and an id that neither a
\* row nor another handler has.
Inserting(r) ==
    requests[r].step = "insert" =>
        /\ \A e \in requests[r].copies : e.key \in Name
        /\ \A x \in requests[r].things :
              /\ x \in Org /\ ~ Exists(x)
              /\ \A s \in Request \ {r} : x \notin requests[s].things

\* A copy about to be saved has the key of the row.
KeyKept(r) ==
    requests[r].step \in {"save", "update"} =>
        \A x \in requests[r].things, e \in requests[r].copies :
            Exists(x) /\ \A row \in records[x] : e.key = row.key

KeyInv == \A r \in Request : Inserting(r) /\ KeyKept(r)

\* A step leaves the keys under which the id has rows.
KeysAt(x) ==
    /\ Exists(x)' <=> Exists(x)
    /\ \A row \in records'[x] : \E old \in records[x] : row.key = old.key
    /\ \A old \in records[x] : \E row \in records'[x] : row.key = old.key

SameKeys == \A x \in Thing : KeysAt(x)

-----------------------------------------------------------------------------
(* Lemmas about the operators.                                             *)

\* Comparing and flushing yields a row again, whose key is the saved copy's
\* or the row's.
LEMMA FlushRow ==
    ASSUME NEW e \in Row, NEW row \in Row, NEW D
    PROVE  /\ Flush(e, D, row) \in Row
           /\ Flush(e, D, row).key \in {e.key, row.key}
<1> DEFINE merged ==
             [key     |-> IF "key" \in D THEN e.key ELSE row.key,
              content |-> IF "content" \in D THEN e.content ELSE row.content,
              deleted |-> IF "deleted" \in D THEN e.deleted ELSE row.deleted]
<1>1. DOMAIN row = {"key", "content", "deleted"}
  BY DEF Row
<1>2. Flush(e, D, row) = merged
  BY <1>1 DEF Flush
<1>3. merged \in Row
  BY DEF Row
<1> QED
  BY <1>2, <1>3

\* The dirty columns are columns.
LEMMA DirtyRow ==
    ASSUME NEW e, NEW row \in Row PROVE Dirty(e, row) \subseteq Columns
<1>1. DOMAIN row = {"key", "content", "deleted"}
  BY DEF Row
<1> QED
  BY <1>1 DEF Dirty, Columns

\* Editing a row leaves its key.
LEMMA EditedRow ==
    ASSUME NEW row \in Row, NEW content \in Content
    PROVE  /\ [row EXCEPT !.content = content] \in Row
           /\ [row EXCEPT !.content = content].key = row.key
  BY DEF Row

\* So does marking it as deleted.
LEMMA DeletedRow ==
    ASSUME NEW row \in Row, NEW marked, marked = [row EXCEPT !.deleted = TRUE]
    PROVE  marked \in Row /\ marked.key = row.key
  BY DEF Row

\* A new row.
LEMMA FreshRow ==
    ASSUME NEW key \in Name \cup Org
    PROVE  NewRow(key) \in Row /\ NewRow(key).key = key
  BY DEF NewRow, Row, Content

\* A handler that has ended, or not begun.
LEMMA IdleFrame == Idle \in Frame /\ Idle.step = "idle" /\ Idle.things = {}
  BY DEF Idle, Frame

\* The frame in which an organization is created.
LEMMA CreatingFrame ==
    ASSUME NEW o \in Org, NEW u \in User, NEW n \in Name
    PROVE  /\ Creating(o, u, n) \in Frame
           /\ Creating(o, u, n).step = "insert"
           /\ Creating(o, u, n).things = {o}
           /\ Creating(o, u, n).copies = {NewRow(n)}
<1>1. NewRow(n) \in Row /\ Member(o, u, "owner") \in Membership
  BY FreshRow DEF Member, Membership, Role
<1>2. o \in Thing
  BY DEF Thing
<1> QED
  BY <1>1, <1>2 DEF Creating, Idle, Frame

\* The frame in which a member is added.
LEMMA JoiningFrame ==
    ASSUME NEW f, NEW m \in Membership,
           f = [Idle EXCEPT !.step = "join", !.joining = {m}]
    PROVE  f \in Frame /\ f.step = "join" /\ f.things = {}
  BY DEF Idle, Frame

\* The frames in which a record is saved or removed.
LEMMA WritingFrames ==
    ASSUME NEW x \in Thing, NEW e \in Row
    PROVE  /\ Saving(x, e) \in Frame /\ Saving(x, e).step = "save"
           /\ Saving(x, e).things = {x} /\ Saving(x, e).copies = {e}
           /\ Removing(x) \in Frame /\ Removing(x).step = "remove"
           /\ Removing(x).things = {x}
  BY DEF Saving, Removing, Idle, Frame

\* The frames that a handler goes on with.
LEMMA StepFrames ==
    ASSUME NEW f \in Frame, NEW D \in SUBSET Columns
    PROVE  /\ [f EXCEPT !.step = "own"] \in Frame
           /\ [f EXCEPT !.step = "own"].step = "own"
           /\ [f EXCEPT !.step = "own"].things = f.things
           /\ [f EXCEPT !.step = "update", !.columns = D] \in Frame
           /\ [f EXCEPT !.step = "update", !.columns = D].step = "update"
           /\ [f EXCEPT !.step = "update", !.columns = D].things = f.things
           /\ [f EXCEPT !.step = "update", !.columns = D].copies = f.copies
  BY DEF Frame

\* What the slots hold.
LEMMA Contents ==
    ASSUME TypeOK, NEW r \in Request
    PROVE  /\ requests[r] \in Frame /\ requests[r].things \subseteq Thing
           /\ requests[r].copies \subseteq Row
           /\ requests[r].joining \subseteq Membership
           /\ requests[r].columns \subseteq Columns
<1>1. requests[r] \in Frame
  BY DEF TypeOK
<1> QED
  BY <1>1 DEF Frame

\* What the tables hold.
LEMMA Rows ==
    ASSUME TypeOK, NEW x \in Thing
    PROVE  /\ records[x] \subseteq Row /\ Found(x) \subseteq records[x]
           /\ \A e, f \in records[x] : e = f
  BY DEF TypeOK, Found

-----------------------------------------------------------------------------
(* Types.                                                                  *)

\* The initial state has the types.
LEMMA InitTypeOK == Init => TypeOK
<1>1. << >> \in Seq(Membership)
  OBVIOUS
<1> QED
  BY <1>1, IdleFrame DEF Init, TypeOK, Thing

\* Writing rows of the right key for an id, and removing none, keeps the
\* tables in order.
LEMMA WriteRecords ==
    ASSUME TypeOK, NEW x \in Thing, NEW rows \in SUBSET Row,
           records' = [records EXCEPT ![x] = rows],
           \A e, f \in rows : e = f,
           Exists(x) => rows # {},
           x \in Org => \A e \in rows : e.key \in Name,
           x \in Product => \A e \in rows : e.key \in Org /\ Exists(e.key)
    PROVE  RecordsOK'
<1>1. records' \in [Thing -> SUBSET Row]
  BY DEF TypeOK
<1>2. \A y \in Thing : records'[y] = IF y = x THEN rows ELSE records[y]
  BY DEF TypeOK
<1>3. \A y \in Thing : Exists(y) => Exists(y)'
  BY <1>2 DEF Exists
<1>4. \A y \in Thing : \A e, f \in records'[y] : e = f
  BY <1>2 DEF TypeOK
<1>5. \A o \in Org : \A e \in records'[o] : e.key \in Name
  BY <1>2 DEF TypeOK, Thing
<1>6. ASSUME NEW p \in Product, NEW e \in records'[p]
      PROVE  e.key \in Org /\ Exists(e.key)'
  <2>1. e.key \in Org /\ Exists(e.key)
    BY <1>2, <1>6 DEF TypeOK, Thing
  <2> QED
    BY <1>3, <2>1 DEF Thing
<1> QED
  BY <1>1, <1>4, <1>5, <1>6 DEF RecordsOK

\* A step that gives a handler a new frame and changes only records.
LEMMA FrameType ==
    ASSUME TypeOK, NEW r \in Request, NEW frame \in Frame, RecordsOK',
           requests' = [requests EXCEPT ![r] = frame],
           UNCHANGED <<members, acknowledged>>
    PROVE  TypeOK'
  BY DEF TypeOK, RecordsOK

\* A step that changes no record keeps them in order.
LEMMA SameRecords == TypeOK /\ UNCHANGED records => RecordsOK'
  BY DEF TypeOK, RecordsOK, Exists

\* A handler that begins or goes on without writing.
LEMMA ContinueType ==
    ASSUME TypeOK, NEW r \in Request, NEW frame \in Frame,
           Continue(r, frame) \/ Begin(r, frame)
    PROVE  TypeOK'
<1>1. /\ requests' = [requests EXCEPT ![r] = frame]
      /\ UNCHANGED <<records, members, acknowledged>>
  BY DEF Begin, Continue
<1> QED
  BY <1>1, SameRecords, FrameType

\* What a soft removal writes: the same rows, marked.
Marked(x) == {[row EXCEPT !.deleted = TRUE] : row \in records[x]}

\* It is again at most one row, with the same key.
LEMMA MarkedRows ==
    ASSUME TypeOK, NEW x \in Thing
    PROVE  /\ Marked(x) \in SUBSET Row
           /\ \A e, f \in Marked(x) : e = f
           /\ \A e \in Marked(x) : \E row \in records[x] : e.key = row.key
           /\ \A row \in records[x] : \E e \in Marked(x) : e.key = row.key
<1>1. ASSUME NEW e \in Marked(x)
      PROVE  \E row \in records[x] : /\ e = [row EXCEPT !.deleted = TRUE]
                                     /\ e \in Row /\ e.key = row.key
  <2>1. PICK row \in records[x] : e = [row EXCEPT !.deleted = TRUE]
    BY DEF Marked
  <2> QED
    BY <2>1, Rows, DeletedRow
<1>2. ASSUME NEW e \in Marked(x), NEW f \in Marked(x) PROVE e = f
  <2>1. PICK row \in records[x] : e = [row EXCEPT !.deleted = TRUE]
    BY <1>1
  <2>2. PICK other \in records[x] : f = [other EXCEPT !.deleted = TRUE]
    BY <1>1
  <2>3. row = other
    BY Rows
  <2> QED
    BY <2>1, <2>2, <2>3
<1>3. ASSUME NEW row \in records[x] PROVE \E e \in Marked(x) : e.key = row.key
  <2>1. [row EXCEPT !.deleted = TRUE] \in Marked(x)
    BY DEF Marked
  <2> QED
    BY <2>1, Rows, DeletedRow
<1> QED
  BY <1>1, <1>2, <1>3

\* What saving a copy writes: one row with the key that was there.
LEMMA SavedRow ==
    ASSUME TypeOK, KeyInv, NEW r \in Request, requests[r].step = "update",
           NEW x \in requests[r].things, NEW e \in requests[r].copies,
           NEW row \in records[x], NEW D
    PROVE  /\ Flush(e, D, row) \in Row
           /\ Flush(e, D, row).key = row.key
           /\ records[x] = {row}
<1>1. x \in Thing /\ e \in Row /\ row \in Row
  BY Contents, Rows
<1>2. e.key = row.key
  BY DEF KeyInv, KeyKept
<1>3. records[x] = {row}
  BY <1>1, Rows
<1> QED
  BY <1>1, <1>2, <1>3, FlushRow

\* Every step keeps the types, given what is known of the keys.
LEMMA NextTypeOK == TypeOK /\ KeyInv /\ [Next]_vars => TypeOK'
<1> SUFFICES ASSUME TypeOK, KeyInv, [Next]_vars PROVE TypeOK'
  OBVIOUS
<1> USE ConstantsAssumption
<1>1. ASSUME NEW p \in Product, NEW o \in Org, CreateProduct(p, o)
      PROVE  TypeOK'
  <2>1. NewRow(o) \in Row /\ NewRow(o).key = o /\ p \in Thing /\ p \notin Org
    BY FreshRow DEF Thing
  <2>2. records' = [records EXCEPT ![p] = {NewRow(o)}] /\ Exists(o)
    BY <1>1 DEF CreateProduct
  <2>3. RecordsOK'
    BY <2>1, <2>2, WriteRecords
  <2>4. UNCHANGED <<members, requests, acknowledged>>
    BY <1>1 DEF CreateProduct
  <2> QED
    BY <2>3, <2>4 DEF TypeOK, RecordsOK
<1>2. ASSUME NEW r \in Request, NEW u \in User, NEW o \in Org, NEW n \in Name,
             CreateOrganization(r, u, o, n)
      PROVE  TypeOK'
  BY <1>2, CreatingFrame, ContinueType DEF CreateOrganization
<1>3. ASSUME NEW r \in Request, InsertOrganization(r)
      PROVE  TypeOK'
  <2>1. PICK o \in requests[r].things, e \in requests[r].copies :
           \/ Continue(r, Idle)
           \/ Write(r, o, {e}, [requests[r] EXCEPT !.step = "own"])
    BY <1>3, Zenon DEF InsertOrganization
  <2>2. o \in Org /\ e.key \in Name
    BY <1>3 DEF InsertOrganization, KeyInv, Inserting
  <2>3. o \in Thing /\ o \notin Product /\ e \in Row
    BY <2>2, Contents DEF Thing
  <2>4. CASE Write(r, o, {e}, [requests[r] EXCEPT !.step = "own"])
    <3>1. RecordsOK'
      BY <2>2, <2>3, <2>4, WriteRecords DEF Write
    <3>2. [requests[r] EXCEPT !.step = "own"] \in Frame
      BY Contents, StepFrames
    <3> QED
      BY <2>4, <3>1, <3>2, FrameType DEF Write
  <2> QED
    BY <2>1, <2>4, IdleFrame, ContinueType
<1>4. ASSUME NEW r \in Request, NEW o \in Org, NEW u \in User, NEW role \in Role,
             AddMember(r, o, u, role)
      PROVE  TypeOK'
  <2> DEFINE frame == [Idle EXCEPT !.step = "join",
                                   !.joining = {Member(o, u, role)}]
  <2>1. Member(o, u, role) \in Membership
    BY DEF Member, Membership
  <2>2. frame \in Frame
    BY <2>1, JoiningFrame
  <2>3. Begin(r, frame)
    BY <1>4 DEF AddMember
  <2> HIDE DEF frame
  <2> QED
    BY <2>2, <2>3, ContinueType
<1>5. ASSUME NEW r \in Request, InsertMember(r)
      PROVE  TypeOK'
  <2>1. PICK m \in requests[r].joining :
           \/ UNCHANGED <<members, acknowledged>>
           \/ /\ members' = Append(members, m)
              /\ acknowledged' \in {acknowledged, acknowledged \cup {m}}
    BY <1>5, Zenon DEF InsertMember
  <2>2. m \in Membership
    BY Contents
  <2>3. members' \in Seq(Membership)
    BY <2>1, <2>2 DEF TypeOK
  <2>4. acknowledged' \subseteq Membership
    BY <2>1, <2>2 DEF TypeOK
  <2>5. requests' = [requests EXCEPT ![r] = Idle] /\ UNCHANGED records
    BY <1>5 DEF InsertMember
  <2>6. RecordsOK' /\ requests' \in [Request -> Frame]
    BY <2>5, IdleFrame, SameRecords DEF TypeOK
  <2> QED
    BY <2>3, <2>4, <2>6 DEF TypeOK, RecordsOK
<1>6. ASSUME NEW r \in Request, NEW x \in Thing, NEW content \in Content,
             NEW e \in Found(x),
             Begin(r, Saving(x, [e EXCEPT !.content = content]))
      PROVE  TypeOK'
  <2>1. [e EXCEPT !.content = content] \in Row
    BY Rows, EditedRow
  <2> QED
    BY <1>6, <2>1, WritingFrames, ContinueType
<1>7. ASSUME NEW r \in Request, NEW x \in Thing, NEW e \in Found(x),
             Begin(r, Removing(x))
      PROVE  TypeOK'
  <2>1. e \in Row
    BY Rows
  <2> QED
    BY <1>7, <2>1, WritingFrames, ContinueType
<1>8. ASSUME NEW r \in Request, SaveCompare(r)
      PROVE  TypeOK'
  <2>0. PICK x \in requests[r].things, e \in requests[r].copies :
           \E row \in records[x] :
              Continue(r, IF Dirty(e, row) = {} THEN Idle
                          ELSE [requests[r] EXCEPT !.step = "update",
                                                   !.columns = Dirty(e, row)])
    BY <1>8, Zenon DEF SaveCompare
  <2>1. PICK row \in records[x] :
           Continue(r, IF Dirty(e, row) = {} THEN Idle
                       ELSE [requests[r] EXCEPT !.step = "update",
                                                !.columns = Dirty(e, row)])
    BY <2>0
  <2>2. row \in Row
    BY Contents, Rows
  <2>3. Dirty(e, row) \in SUBSET Columns
    BY <2>2, DirtyRow
  <2>4. [requests[r] EXCEPT !.step = "update", !.columns = Dirty(e, row)] \in Frame
    BY <2>3, Contents, StepFrames
  <2> QED
    BY <2>1, <2>4, IdleFrame, ContinueType
<1>9. ASSUME NEW r \in Request, SaveUpdate(r)
      PROVE  TypeOK'
  <2>0. PICK x \in requests[r].things, e \in requests[r].copies :
           \E row \in records[x] :
              Write(r, x, {Flush(e, requests[r].columns, row)}, Idle)
    BY <1>9, Zenon DEF SaveUpdate
  <2>1. PICK row \in records[x] :
           Write(r, x, {Flush(e, requests[r].columns, row)}, Idle)
    BY <2>0
  <2> DEFINE saved == Flush(e, requests[r].columns, row)
  <2>2. saved \in Row /\ saved.key = row.key /\ x \in Thing
    BY <1>9, SavedRow, Contents DEF SaveUpdate
  <2> HIDE DEF saved
  <2>3. /\ x \in Org => row.key \in Name
        /\ x \in Product => row.key \in Org /\ Exists(row.key)
    BY DEF TypeOK
  <2>4. records' = [records EXCEPT ![x] = {saved}]
    BY <2>1 DEF Write, saved
  <2>5. RecordsOK'
    BY <2>2, <2>3, <2>4, WriteRecords
  <2> QED
    BY <2>1, <2>5, IdleFrame, FrameType DEF Write
<1>10. ASSUME NEW r \in Request, SoftRemove(r)
       PROVE  TypeOK'
  <2>1. PICK x \in requests[r].things : Write(r, x, Marked(x), Idle)
    BY <1>10, Zenon DEF SoftRemove, Marked
  <2>2. x \in Thing
    BY Contents
  <2>3. /\ Marked(x) \in SUBSET Row /\ \A e, f \in Marked(x) : e = f
        /\ \A e \in Marked(x) : \E row \in records[x] : e.key = row.key
        /\ \A row \in records[x] : \E e \in Marked(x) : e.key = row.key
    BY <2>2, MarkedRows
  <2>4. Exists(x) => Marked(x) # {}
    BY <2>3 DEF Exists
  <2>5. /\ x \in Org => \A row \in records[x] : row.key \in Name
        /\ x \in Product => \A row \in records[x] : row.key \in Org /\ Exists(row.key)
    BY DEF TypeOK
  <2>6. records' = [records EXCEPT ![x] = Marked(x)]
    BY <2>1 DEF Write
  <2>a. /\ x \in Org => \A e \in Marked(x) : e.key \in Name
        /\ x \in Product => \A e \in Marked(x) : e.key \in Org /\ Exists(e.key)
    BY <2>3, <2>5
  <2>b. Marked(x) \in SUBSET Row /\ \A e, f \in Marked(x) : e = f
    BY <2>3
  <2>7. RecordsOK'
    BY ONLY TypeOK, <2>2, <2>4, <2>6, <2>a, <2>b, WriteRecords
  <2> QED
    BY <2>1, <2>7, IdleFrame, FrameType DEF Write
<1>11. ASSUME NEW r \in Request, Fail(r)
       PROVE  TypeOK'
  BY <1>11, IdleFrame, ContinueType DEF Fail
<1>12. CASE UNCHANGED vars
  BY <1>12 DEF vars, TypeOK, Exists
<1>13. ASSUME NEW r \in Request, NEW p \in Product, NEW o \in Org
       PROVE  /\ \A c \in Content : UpdateProduct(r, p, o, c) => TypeOK'
              /\ RemoveProduct(r, p, o) => TypeOK'
  <2>1. p \in Thing
    BY DEF Thing
  <2> QED
    BY <1>6, <1>7, <2>1 DEF UpdateProduct, RemoveProduct
<1>14. ASSUME NEW r \in Request, NEW o \in Org
       PROVE  /\ \A c \in Content : UpdateOrganization(r, o, c) => TypeOK'
              /\ RemoveOrganization(r, o) => TypeOK'
  <2>1. o \in Thing
    BY DEF Thing
  <2> QED
    BY <1>6, <1>7, <2>1 DEF UpdateOrganization, RemoveOrganization
<1> QED
  BY <1>1, <1>2, <1>3, <1>4, <1>5, <1>8, <1>9, <1>10, <1>11, <1>12, <1>13,
     <1>14 DEF Next

-----------------------------------------------------------------------------
(* Keys and names.                                                         *)

\* A handler that the step passes by keeps what it relies on.
LEMMA KeepOthers ==
    ASSUME TypeOK, KeyInv, NEW s \in Request, requests'[s] = requests[s],
           \A x \in requests[s].things : KeysAt(x),
           \A q \in Request \ {s} : \A x \in requests'[q].things :
              x \in requests[s].things => x \in requests[q].things \/ Exists(x)
    PROVE  Inserting(s)' /\ KeyKept(s)'
<1>1. Inserting(s)'
  <2> SUFFICES ASSUME requests[s].step = "insert"
               PROVE  /\ \A e \in requests[s].copies : e.key \in Name
                      /\ \A x \in requests[s].things :
                            /\ x \in Org /\ ~ Exists(x)'
                            /\ \A q \in Request \ {s} : x \notin requests'[q].things
    BY DEF Inserting
  <2> QED
    BY DEF KeyInv, Inserting, KeysAt
<1>2. KeyKept(s)'
  BY DEF KeyInv, KeyKept, KeysAt
<1> QED
  BY <1>1, <1>2

\* The same keys make the same names.
LEMMA SameNames ==
    ASSUME SameKeys, OneOrganizationPerName PROVE OneOrganizationPerName'
<1>1. ASSUME NEW n \in Name PROVE Named(n)' \subseteq Named(n)
  BY DEF Named, SameKeys, KeysAt, Thing
<1> QED
  BY <1>1 DEF OneOrganizationPerName

\* A step of one handler that leaves all keys, and lays hold only of ids that
\* exist or that nobody handles.
LEMMA KeyStep ==
    ASSUME TypeOK, KeyInv, OneOrganizationPerName, SameKeys,
           NEW r \in Request, NEW frame \in Frame,
           requests' = [requests EXCEPT ![r] = frame],
           Inserting(r)', KeyKept(r)',
           \A x \in frame.things :
              \/ x \in requests[r].things \/ Exists(x)
              \/ \A s \in Request : x \notin requests[s].things
    PROVE  KeyInv' /\ OneOrganizationPerName'
<1>1. requests'[r] = frame /\ \A s \in Request \ {r} : requests'[s] = requests[s]
  BY DEF TypeOK
<1>2. ASSUME NEW s \in Request, s # r PROVE Inserting(s)' /\ KeyKept(s)'
  <2>1. \A x \in requests[s].things : KeysAt(x)
    BY Contents DEF SameKeys
  <2>2. \A q \in Request \ {s} : \A x \in requests'[q].things :
           x \in requests[s].things => x \in requests[q].things \/ Exists(x)
    BY <1>1
  <2> QED
    BY <1>1, <1>2, <2>1, <2>2, KeepOthers
<1> QED
  BY <1>2, SameNames DEF KeyInv

\* Without a write all keys stay.
LEMMA UnwrittenKeys == UNCHANGED records => SameKeys
  BY DEF SameKeys, KeysAt, Exists

\* Writing rows with the keys that are there leaves all keys.
LEMMA WrittenKeys ==
    ASSUME TypeOK, NEW x \in Thing, NEW rows,
           records' = [records EXCEPT ![x] = rows],
           \A e \in rows : \E row \in records[x] : e.key = row.key,
           \A row \in records[x] : \E e \in rows : e.key = row.key
    PROVE  SameKeys
<1>1. \A y \in Thing : records'[y] = IF y = x THEN rows ELSE records[y]
  BY DEF TypeOK
<1>2. KeysAt(x)
  BY <1>1 DEF KeysAt, Exists
<1>3. ASSUME NEW y \in Thing, y # x PROVE KeysAt(y)
  BY <1>1, <1>3 DEF KeysAt, Exists
<1> QED
  BY <1>2, <1>3 DEF SameKeys

\* A handler that ends.
LEMMA EndKey ==
    ASSUME TypeOK, KeyInv, OneOrganizationPerName, SameKeys, NEW r \in Request,
           requests' = [requests EXCEPT ![r] = Idle]
    PROVE  KeyInv' /\ OneOrganizationPerName'
<1>1. requests'[r] = Idle
  BY DEF TypeOK
<1>2. Inserting(r)' /\ KeyKept(r)'
  BY <1>1, IdleFrame DEF Inserting, KeyKept
<1> QED
  BY <1>2, IdleFrame, KeyStep

\* Initially there is nothing.
LEMMA InitKeyInv == Init => KeyInv /\ OneOrganizationPerName
<1> SUFFICES ASSUME Init PROVE KeyInv /\ OneOrganizationPerName
  OBVIOUS
<1>1. KeyInv
  BY IdleFrame DEF Init, KeyInv, Inserting, KeyKept
<1>2. OneOrganizationPerName
  BY DEF Init, OneOrganizationPerName, Named, Thing
<1> QED
  BY <1>1, <1>2

\* Every step leaves the keys of the rows there are, and gives no name twice.
LEMMA NextKeyInv ==
    TypeOK /\ KeyInv /\ OneOrganizationPerName /\ [Next]_vars
        => KeyInv' /\ OneOrganizationPerName'
<1> SUFFICES ASSUME TypeOK, KeyInv, OneOrganizationPerName, [Next]_vars
             PROVE  KeyInv' /\ OneOrganizationPerName'
  OBVIOUS
<1> USE ConstantsAssumption
<1>1. ASSUME NEW p \in Product, NEW o \in Org, CreateProduct(p, o)
      PROVE  KeyInv' /\ OneOrganizationPerName'
  <2>1. /\ records' = [records EXCEPT ![p] = {NewRow(o)}]
        /\ requests' = requests
        /\ \A s \in Request : p \notin requests[s].things
    BY <1>1 DEF CreateProduct, NewId
  <2>2. \A x \in Thing \ {p} : records'[x] = records[x]
    BY <2>1 DEF TypeOK
  <2>3. \A x \in Thing \ {p} : KeysAt(x)
    BY <2>2 DEF KeysAt, Exists
  <2>4. ASSUME NEW s \in Request PROVE Inserting(s)' /\ KeyKept(s)'
    <3>1. \A x \in requests[s].things : KeysAt(x)
      BY <2>1, <2>3, Contents
    <3> QED
      BY <2>1, <3>1, KeepOthers
  <2>5. \A n \in Name : Named(n)' = Named(n)
    BY <2>2 DEF Named, Thing
  <2> QED
    BY <2>4, <2>5 DEF KeyInv, OneOrganizationPerName
<1>2. ASSUME NEW r \in Request, NEW u \in User, NEW o \in Org, NEW n \in Name,
             CreateOrganization(r, u, o, n)
      PROVE  KeyInv' /\ OneOrganizationPerName'
  <2> DEFINE frame == Creating(o, u, n)
  <2>1. /\ frame \in Frame /\ frame.step = "insert"
        /\ frame.things = {o} /\ frame.copies = {NewRow(n)}
    BY CreatingFrame
  <2>2. /\ requests' = [requests EXCEPT ![r] = frame] /\ UNCHANGED records
        /\ ~ Exists(o) /\ \A s \in Request : o \notin requests[s].things
    BY <1>2 DEF CreateOrganization, Begin, Continue, NewId
  <2> HIDE DEF frame
  <2>3. requests'[r] = frame /\ \A s \in Request \ {r} : requests'[s] = requests[s]
    BY <2>2 DEF TypeOK
  <2>4. Inserting(r)'
    <3>1. \A e \in requests'[r].copies : e.key \in Name
      BY <2>1, <2>3, FreshRow
    <3>2. ~ Exists(o)'
      BY <2>2 DEF Exists
    <3>3. \A s \in Request \ {r} : o \notin requests'[s].things
      BY <2>2, <2>3
    <3>4. requests'[r].things = {o}
      BY <2>1, <2>3
    <3>5. ASSUME NEW x \in requests'[r].things
          PROVE  /\ x \in Org /\ ~ Exists(x)'
                 /\ \A s \in Request \ {r} : x \notin requests'[s].things
      <4>1. x = o
        BY <3>4
      <4> QED
        BY <3>2, <3>3, <4>1, Zenon
    <3> QED
      BY <3>1, <3>5, Zenon DEF Inserting
  <2>5. KeyKept(r)'
    BY <2>1, <2>3 DEF KeyKept
  <2>6. SameKeys
    BY <2>2, UnwrittenKeys
  <2>7. \A x \in frame.things : \A s \in Request : x \notin requests[s].things
    BY <2>1, <2>2
  <2>8. requests' = [requests EXCEPT ![r] = frame]
    BY <2>2
  <2> QED
    BY ONLY TypeOK, KeyInv, OneOrganizationPerName, r \in Request,
            <2>1, <2>4, <2>5, <2>6, <2>7, <2>8, KeyStep
<1>3. ASSUME NEW r \in Request, InsertOrganization(r)
      PROVE  KeyInv' /\ OneOrganizationPerName'
  <2>1. PICK o \in requests[r].things, e \in requests[r].copies :
           \/ Continue(r, Idle)
           \/ /\ ~ NameTaken(e.key)
              /\ Write(r, o, {e}, [requests[r] EXCEPT !.step = "own"])
    BY <1>3, Zenon DEF InsertOrganization
  <2>2. CASE Continue(r, Idle)
    BY <2>2, UnwrittenKeys, EndKey DEF Continue
  <2>3. CASE /\ ~ NameTaken(e.key)
             /\ Write(r, o, {e}, [requests[r] EXCEPT !.step = "own"])
    <3> DEFINE frame == [requests[r] EXCEPT !.step = "own"]
    <3>1. /\ frame \in Frame /\ frame.step = "own"
          /\ frame.things = requests[r].things
      BY Contents, StepFrames
    <3>2. /\ records' = [records EXCEPT ![o] = {e}]
          /\ requests' = [requests EXCEPT ![r] = frame]
      BY <2>3 DEF Write
    <3> HIDE DEF frame
    <3>3. /\ requests'[r] = frame
          /\ \A s \in Request \ {r} : requests'[s] = requests[s]
          /\ o \in Thing /\ records'[o] = {e}
          /\ \A x \in Thing \ {o} : records'[x] = records[x]
      BY <3>2, Contents DEF TypeOK
    <3>4. \A s \in Request \ {r} : o \notin requests[s].things
      BY <1>3 DEF InsertOrganization, KeyInv, Inserting
    <3>5. ASSUME NEW s \in Request, s # r PROVE Inserting(s)' /\ KeyKept(s)'
      <4>1. \A x \in requests[s].things : KeysAt(x)
        <5>1. \A x \in requests[s].things : x \in Thing \ {o}
          BY <3>4, <3>5, Contents
        <5> QED
          BY <3>3, <5>1 DEF KeysAt, Exists
      <4>2. \A q \in Request \ {s} : \A x \in requests'[q].things :
               x \in requests[s].things => x \in requests[q].things \/ Exists(x)
        BY <3>1, <3>3
      <4> QED
        BY <3>3, <3>5, <4>1, <4>2, KeepOthers
    <3>6. Inserting(r)' /\ KeyKept(r)'
      BY <3>1, <3>3 DEF Inserting, KeyKept
    <3>7. ASSUME NEW n \in Name
          PROVE  Named(n)' \subseteq Named(n) \cup (IF n = e.key THEN {o} ELSE {})
      BY <3>3 DEF Named, Thing
    <3>8. Named(e.key) = {}
      BY <2>3 DEF NameTaken
    <3>9. OneOrganizationPerName'
      BY <3>7, <3>8 DEF OneOrganizationPerName
    <3> QED
      BY <3>5, <3>6, <3>9 DEF KeyInv
  <2> QED
    BY <2>1, <2>2, <2>3
<1>4. ASSUME NEW r \in Request, NEW o \in Org, NEW u \in User, NEW role \in Role,
             AddMember(r, o, u, role)
      PROVE  KeyInv' /\ OneOrganizationPerName'
  <2> DEFINE frame == [Idle EXCEPT !.step = "join",
                                   !.joining = {Member(o, u, role)}]
  <2>1. Member(o, u, role) \in Membership
    BY DEF Member, Membership
  <2>2. frame \in Frame /\ frame.step = "join" /\ frame.things = {}
    BY <2>1, JoiningFrame
  <2>3. requests' = [requests EXCEPT ![r] = frame] /\ UNCHANGED records
    BY <1>4 DEF AddMember, Begin, Continue
  <2> HIDE DEF frame
  <2>4. requests'[r] = frame
    BY <2>3 DEF TypeOK
  <2>5. Inserting(r)' /\ KeyKept(r)'
    BY <2>2, <2>4 DEF Inserting, KeyKept
  <2> QED
    BY <2>2, <2>3, <2>5, UnwrittenKeys, KeyStep
<1>5. ASSUME NEW r \in Request, InsertMember(r) \/ Fail(r)
      PROVE  KeyInv' /\ OneOrganizationPerName'
  <2>1. requests' = [requests EXCEPT ![r] = Idle] /\ UNCHANGED records
    BY <1>5 DEF InsertMember, Fail, Continue
  <2> QED
    BY <2>1, UnwrittenKeys, EndKey
<1>6. ASSUME NEW r \in Request, NEW x \in Thing, NEW content \in Content,
             NEW e \in Found(x),
             Begin(r, Saving(x, [e EXCEPT !.content = content]))
      PROVE  KeyInv' /\ OneOrganizationPerName'
  <2> DEFINE copy == [e EXCEPT !.content = content]
             frame == Saving(x, copy)
  <2>1. e \in Row /\ e \in records[x] /\ \A row \in records[x] : row = e
    BY Rows
  <2>2. copy \in Row /\ copy.key = e.key
    BY <2>1, EditedRow
  <2> HIDE DEF copy
  <2>3. /\ frame \in Frame /\ frame.step = "save"
        /\ frame.things = {x} /\ frame.copies = {copy}
    BY <2>2, WritingFrames
  <2>4. requests' = [requests EXCEPT ![r] = frame] /\ UNCHANGED records
    BY <1>6 DEF Begin, Continue, copy
  <2> HIDE DEF frame
  <2>5. requests'[r] = frame
    BY <2>4 DEF TypeOK
  <2>6. Exists(x)
    BY <2>1 DEF Exists
  <2>7. Inserting(r)' /\ KeyKept(r)'
    BY <2>1, <2>2, <2>3, <2>4, <2>5 DEF Inserting, KeyKept, Exists
  <2> QED
    BY <2>3, <2>4, <2>6, <2>7, UnwrittenKeys, KeyStep
<1>7. ASSUME NEW r \in Request, NEW x \in Thing, NEW e \in Found(x),
             Begin(r, Removing(x))
      PROVE  KeyInv' /\ OneOrganizationPerName'
  <2>1. e \in Row /\ Exists(x)
    BY Rows DEF Exists
  <2>2. /\ Removing(x) \in Frame /\ Removing(x).step = "remove"
        /\ Removing(x).things = {x}
    BY <2>1, WritingFrames
  <2>3. requests' = [requests EXCEPT ![r] = Removing(x)] /\ UNCHANGED records
    BY <1>7 DEF Begin, Continue
  <2>4. requests'[r] = Removing(x)
    BY <2>3 DEF TypeOK
  <2>5. Inserting(r)' /\ KeyKept(r)'
    BY <2>2, <2>4 DEF Inserting, KeyKept
  <2> QED
    BY <2>1, <2>2, <2>3, <2>5, UnwrittenKeys, KeyStep
<1>8. ASSUME NEW r \in Request, SaveCompare(r)
      PROVE  KeyInv' /\ OneOrganizationPerName'
  <2>0. PICK x \in requests[r].things, e \in requests[r].copies :
           \E row \in records[x] :
              Continue(r, IF Dirty(e, row) = {} THEN Idle
                          ELSE [requests[r] EXCEPT !.step = "update",
                                                   !.columns = Dirty(e, row)])
    BY <1>8, Zenon DEF SaveCompare
  <2>1. PICK row \in records[x] :
           Continue(r, IF Dirty(e, row) = {} THEN Idle
                       ELSE [requests[r] EXCEPT !.step = "update",
                                                !.columns = Dirty(e, row)])
    BY <2>0
  <2> DEFINE frame == [requests[r] EXCEPT !.step = "update",
                                          !.columns = Dirty(e, row)]
  <2>2. row \in Row
    BY Contents, Rows
  <2>3. Dirty(e, row) \in SUBSET Columns
    BY <2>2, DirtyRow
  <2>4. /\ frame \in Frame /\ frame.step = "update"
        /\ frame.things = requests[r].things /\ frame.copies = requests[r].copies
    BY <2>3, Contents, StepFrames
  <2>5. Continue(r, Idle) \/ Continue(r, frame)
    BY <2>1
  <2> HIDE DEF frame
  <2>6. CASE Continue(r, frame)
    <3>1. requests' = [requests EXCEPT ![r] = frame] /\ UNCHANGED records
      BY <2>6 DEF Continue
    <3>2. requests'[r] = frame
      BY <3>1 DEF TypeOK
    <3>3. Inserting(r)'
      BY <2>4, <3>2 DEF Inserting
    <3>4. KeyKept(r)'
      BY <1>8, <2>4, <3>1, <3>2 DEF KeyKept, KeyInv, SaveCompare, Exists
    <3> QED
      BY <2>4, <3>1, <3>3, <3>4, UnwrittenKeys, KeyStep
  <2>7. CASE Continue(r, Idle)
    BY <2>7, UnwrittenKeys, EndKey DEF Continue
  <2> QED
    BY <2>5, <2>6, <2>7
<1>9. ASSUME NEW r \in Request, SaveUpdate(r)
      PROVE  KeyInv' /\ OneOrganizationPerName'
  <2>0. PICK x \in requests[r].things, e \in requests[r].copies :
           \E row \in records[x] :
              Write(r, x, {Flush(e, requests[r].columns, row)}, Idle)
    BY <1>9, Zenon DEF SaveUpdate
  <2>1. PICK row \in records[x] :
           Write(r, x, {Flush(e, requests[r].columns, row)}, Idle)
    BY <2>0
  <2> DEFINE saved == Flush(e, requests[r].columns, row)
  <2>2. saved.key = row.key /\ records[x] = {row} /\ x \in Thing
    BY <1>9, SavedRow, Contents DEF SaveUpdate
  <2>3. /\ records' = [records EXCEPT ![x] = {saved}]
        /\ requests' = [requests EXCEPT ![r] = Idle]
    BY <2>1 DEF Write
  <2> HIDE DEF saved
  <2> DEFINE rows == {saved}
  <2>4. /\ records' = [records EXCEPT ![x] = rows]
        /\ \A f \in rows : \E old \in records[x] : f.key = old.key
        /\ \A old \in records[x] : \E f \in rows : f.key = old.key
    BY <2>2, <2>3
  <2> HIDE DEF rows
  <2>5. SameKeys
    BY <2>2, <2>4, WrittenKeys
  <2> QED
    BY <2>3, <2>5, EndKey
<1>10. ASSUME NEW r \in Request, SoftRemove(r)
       PROVE  KeyInv' /\ OneOrganizationPerName'
  <2>1. PICK x \in requests[r].things : Write(r, x, Marked(x), Idle)
    BY <1>10, Zenon DEF SoftRemove, Marked
  <2>2. x \in Thing
    BY Contents
  <2>3. /\ \A e \in Marked(x) : \E row \in records[x] : e.key = row.key
        /\ \A row \in records[x] : \E e \in Marked(x) : e.key = row.key
    BY <2>2, MarkedRows
  <2>4. /\ records' = [records EXCEPT ![x] = Marked(x)]
        /\ requests' = [requests EXCEPT ![r] = Idle]
    BY <2>1 DEF Write
  <2>5. SameKeys
    BY <2>2, <2>3, <2>4, WrittenKeys
  <2> QED
    BY <2>4, <2>5, EndKey
<1>11. CASE UNCHANGED vars
  BY <1>11 DEF vars, KeyInv, Inserting, KeyKept, Exists,
               OneOrganizationPerName, Named
<1>12. ASSUME NEW r \in Request, NEW p \in Product, NEW o \in Org
       PROVE  /\ (\E c \in Content : UpdateProduct(r, p, o, c)) \/ RemoveProduct(r, p, o)
                    => KeyInv' /\ OneOrganizationPerName'
  <2>1. p \in Thing
    BY DEF Thing
  <2> QED
    BY <1>6, <1>7, <2>1 DEF UpdateProduct, RemoveProduct
<1>13. ASSUME NEW r \in Request, NEW o \in Org
       PROVE  (\E c \in Content : UpdateOrganization(r, o, c)) \/ RemoveOrganization(r, o)
                    => KeyInv' /\ OneOrganizationPerName'
  <2>1. o \in Thing
    BY DEF Thing
  <2> QED
    BY <1>6, <1>7, <2>1 DEF UpdateOrganization, RemoveOrganization
<1> QED
  BY <1>1, <1>2, <1>3, <1>4, <1>5, <1>8, <1>9, <1>10, <1>11, <1>12, <1>13
  DEF Next

-----------------------------------------------------------------------------
(* Members.                                                                *)

\* Members stay, and creators are told after theirs was added.
LEMMA NextMembers ==
    TypeOK /\ AcknowledgedHasOwner /\ [Next]_vars => AcknowledgedHasOwner'
<1> SUFFICES ASSUME TypeOK, AcknowledgedHasOwner, [Next]_vars
             PROVE  AcknowledgedHasOwner'
  OBVIOUS
<1>1. CASE UNCHANGED <<members, acknowledged>>
  BY <1>1 DEF AcknowledgedHasOwner
<1>2. ASSUME NEW r \in Request, InsertMember(r)
      PROVE  AcknowledgedHasOwner'
  <2>1. PICK m \in requests[r].joining :
           IF IsMember(m.organization, m.user)
           THEN UNCHANGED <<members, acknowledged>>
           ELSE /\ members' = Append(members, m)
                /\ acknowledged' = IF requests[r].step = "own"
                                   THEN acknowledged \cup {m} ELSE acknowledged
    BY <1>2, Zenon DEF InsertMember
  <2>2. CASE IsMember(m.organization, m.user)
    BY <1>1, <2>1, <2>2
  <2>3. CASE ~ IsMember(m.organization, m.user)
    <3>1. /\ members \in Seq(Membership) /\ m \in Membership
          /\ members' = Append(members, m)
      BY <2>1, <2>3, Contents DEF TypeOK
    <3>2. /\ Len(members) \in Nat /\ Len(members') = Len(members) + 1
          /\ \A i \in 1 .. Len(members) : members'[i] = members[i]
          /\ members'[Len(members) + 1] = m
      BY <3>1
    <3>3. acknowledged' \subseteq acknowledged \cup {m}
      BY <2>1, <2>3
    <3>4. ASSUME NEW k \in acknowledged'
          PROVE  \E i \in 1 .. Len(members') : members'[i] = k
      <4>1. CASE k = m
        BY <3>2, <4>1
      <4>2. CASE k # m
        <5>1. PICK i \in 1 .. Len(members) : members[i] = k
          BY <3>3, <4>2 DEF AcknowledgedHasOwner
        <5> QED
          BY <3>2, <5>1
      <4> QED
        BY <4>1, <4>2
    <3> QED
      BY <3>4 DEF AcknowledgedHasOwner
  <2> QED
    BY <2>2, <2>3
<1> QED
  BY <1>1, <1>2
  DEF Next, CreateProduct, CreateOrganization, InsertOrganization, AddMember,
      UpdateOrganization, RemoveOrganization, UpdateProduct, RemoveProduct,
      SaveCompare, SaveUpdate, SoftRemove, Fail, Begin, Continue, Write, vars

-----------------------------------------------------------------------------
(* What was removed.                                                       *)

\* A settled record stays settled when a handler goes on without touching it.
LEMMA StaySettled ==
    ASSUME TypeOK, NEW x \in Thing, Settled(x), NEW r \in Request, NEW frame,
           requests' = [requests EXCEPT ![r] = frame], x \notin frame.things,
           records'[x] = records[x]
    PROVE  Settled(x)' /\ UNCHANGED records[x]
<1>1. requests'[r] = frame /\ \A s \in Request \ {r} : requests'[s] = requests[s]
  BY DEF TypeOK
<1>2. \A s \in Request : x \notin requests'[s].things
  BY <1>1 DEF Settled
<1>3. Exists(x)' /\ \A e \in records'[x] : e.deleted
  BY DEF Settled, Exists
<1> QED
  BY <1>2, <1>3 DEF Settled

\* The same for a write to another record.
LEMMA WriteElsewhere ==
    ASSUME TypeOK, NEW x \in Thing, Settled(x), NEW r \in Request,
           NEW y \in requests[r].things, NEW rows, NEW frame,
           Write(r, y, rows, frame), frame.things \subseteq requests[r].things
    PROVE  Settled(x)' /\ UNCHANGED records[x]
<1>1. x \notin requests[r].things
  BY DEF Settled
<1>2. /\ records' = [records EXCEPT ![y] = rows]
      /\ requests' = [requests EXCEPT ![r] = frame]
  BY DEF Write
<1>3. records'[x] = records[x] /\ x \notin frame.things
  BY <1>1, <1>2 DEF TypeOK
<1> QED
  BY <1>2, <1>3, StaySettled

\* No step touches a settled record.
LEMMA NextSettled ==
    ASSUME TypeOK, [Next]_vars, NEW x \in Thing, Settled(x)
    PROVE  Settled(x)' /\ UNCHANGED records[x]
<1> USE ConstantsAssumption
<1>0. Exists(x) /\ Found(x) = {} /\ \A r \in Request : x \notin requests[r].things
  BY DEF Settled, Found
<1>1. ASSUME NEW p \in Product, NEW o \in Org, CreateProduct(p, o)
      PROVE  Settled(x)' /\ UNCHANGED records[x]
  <2>1. p # x /\ records' = [records EXCEPT ![p] = {NewRow(o)}] /\ requests' = requests
    BY <1>0, <1>1 DEF CreateProduct, NewId
  <2>2. records'[x] = records[x]
    BY <2>1 DEF TypeOK
  <2> QED
    BY <1>0, <2>1, <2>2 DEF Settled, Exists
<1>2. ASSUME NEW r \in Request, NEW frame, x \notin frame.things,
             Begin(r, frame) \/ Continue(r, frame)
      PROVE  Settled(x)' /\ UNCHANGED records[x]
  <2>1. requests' = [requests EXCEPT ![r] = frame] /\ UNCHANGED records
    BY <1>2 DEF Begin, Continue
  <2> QED
    BY <1>2, <2>1, StaySettled
<1>3. ASSUME NEW r \in Request, NEW u \in User, NEW o \in Org, NEW n \in Name,
             CreateOrganization(r, u, o, n)
      PROVE  Settled(x)' /\ UNCHANGED records[x]
  <2>1. o # x /\ Begin(r, Creating(o, u, n))
    BY <1>0, <1>3 DEF CreateOrganization, NewId
  <2>2. x \notin Creating(o, u, n).things
    BY <2>1, CreatingFrame
  <2> QED
    BY <1>2, <2>1, <2>2
<1>4. ASSUME NEW r \in Request, InsertOrganization(r)
      PROVE  Settled(x)' /\ UNCHANGED records[x]
  <2>1. PICK o \in requests[r].things, e \in requests[r].copies :
           \/ Continue(r, Idle)
           \/ Write(r, o, {e}, [requests[r] EXCEPT !.step = "own"])
    BY <1>4, Zenon DEF InsertOrganization
  <2>2. [requests[r] EXCEPT !.step = "own"].things = requests[r].things
    BY Contents, StepFrames
  <2>3. x \notin Idle.things
    BY IdleFrame
  <2> QED
    BY <1>2, <2>1, <2>2, <2>3, WriteElsewhere
<1>5. ASSUME NEW r \in Request, NEW o \in Org, NEW u \in User, NEW role \in Role,
             AddMember(r, o, u, role)
      PROVE  Settled(x)' /\ UNCHANGED records[x]
  <2> DEFINE frame == [Idle EXCEPT !.step = "join",
                                   !.joining = {Member(o, u, role)}]
  <2>1. Member(o, u, role) \in Membership
    BY DEF Member, Membership
  <2>2. frame.things = {}
    BY <2>1, JoiningFrame
  <2>3. Begin(r, frame)
    BY <1>5 DEF AddMember
  <2> HIDE DEF frame
  <2> QED
    BY <1>2, <2>2, <2>3
<1>6. ASSUME NEW r \in Request, InsertMember(r) \/ Fail(r)
      PROVE  Settled(x)' /\ UNCHANGED records[x]
  <2>1. requests' = [requests EXCEPT ![r] = Idle] /\ UNCHANGED records
    BY <1>6 DEF InsertMember, Fail, Continue
  <2> QED
    BY <2>1, IdleFrame, StaySettled
<1>7. ASSUME NEW r \in Request, NEW y \in Thing, NEW e \in Found(y),
             NEW copy \in Row,
             Begin(r, Saving(y, copy)) \/ Begin(r, Removing(y))
      PROVE  Settled(x)' /\ UNCHANGED records[x]
  <2>1. x # y
    BY <1>0
  <2>2. x \notin Saving(y, copy).things /\ x \notin Removing(y).things
    BY <2>1, WritingFrames
  <2> QED
    BY <1>2, <1>7, <2>2
<1>8. ASSUME NEW r \in Request, SaveCompare(r)
      PROVE  Settled(x)' /\ UNCHANGED records[x]
  <2>1. PICK y \in requests[r].things, e \in requests[r].copies :
           \E row \in records[y] :
              Continue(r, IF Dirty(e, row) = {} THEN Idle
                          ELSE [requests[r] EXCEPT !.step = "update",
                                                   !.columns = Dirty(e, row)])
    BY <1>8, Zenon DEF SaveCompare
  <2>2. PICK row \in records[y] :
           Continue(r, IF Dirty(e, row) = {} THEN Idle
                       ELSE [requests[r] EXCEPT !.step = "update",
                                                !.columns = Dirty(e, row)])
    BY <2>1
  <2>3. Dirty(e, row) \in SUBSET Columns
    BY Contents, Rows, DirtyRow
  <2>4. [requests[r] EXCEPT !.step = "update", !.columns = Dirty(e, row)].things
           = requests[r].things
    BY <2>3, Contents, StepFrames
  <2>5. x \notin Idle.things
    BY IdleFrame
  <2> QED
    BY <1>0, <1>2, <2>2, <2>4, <2>5
<1>9. ASSUME NEW r \in Request, SaveUpdate(r) \/ SoftRemove(r)
      PROVE  Settled(x)' /\ UNCHANGED records[x]
  <2>1. \E y \in requests[r].things : \E rows : Write(r, y, rows, Idle)
    BY <1>9, Zenon DEF SaveUpdate, SoftRemove
  <2>2. Idle.things \subseteq requests[r].things
    BY IdleFrame
  <2> QED
    BY <2>1, <2>2, WriteElsewhere
<1>10. CASE UNCHANGED vars
  BY <1>10 DEF vars, Settled, Exists
<1>11. ASSUME NEW r \in Request, NEW p \in Product, NEW o \in Org,
              (\E c \in Content : UpdateProduct(r, p, o, c)) \/ RemoveProduct(r, p, o)
       PROVE  Settled(x)' /\ UNCHANGED records[x]
  <2>1. p \in Thing
    BY DEF Thing
  <2>2. PICK e \in Found(p) : \/ Begin(r, Removing(p))
                              \/ \E c \in Content :
                                    Begin(r, Saving(p, [e EXCEPT !.content = c]))
    BY <1>11 DEF UpdateProduct, RemoveProduct
  <2>3. e \in Row /\ \A c \in Content : [e EXCEPT !.content = c] \in Row
    BY <2>1, Rows, EditedRow
  <2> QED
    BY <1>7, <2>1, <2>2, <2>3
<1>12. ASSUME NEW r \in Request, NEW o \in Org,
              (\E c \in Content : UpdateOrganization(r, o, c)) \/ RemoveOrganization(r, o)
       PROVE  Settled(x)' /\ UNCHANGED records[x]
  <2>1. o \in Thing
    BY DEF Thing
  <2>2. PICK e \in Found(o) : \/ Begin(r, Removing(o))
                              \/ \E c \in Content :
                                    Begin(r, Saving(o, [e EXCEPT !.content = c]))
    BY <1>12 DEF UpdateOrganization, RemoveOrganization
  <2>3. e \in Row /\ \A c \in Content : [e EXCEPT !.content = c] \in Row
    BY <2>1, Rows, EditedRow
  <2> QED
    BY <1>7, <2>1, <2>2, <2>3
<1> QED
  BY <1>1, <1>3, <1>4, <1>5, <1>6, <1>8, <1>9, <1>10, <1>11, <1>12 DEF Next

-----------------------------------------------------------------------------
(* The theorems.                                                           *)

\* What holds in every state.
IInv == TypeOK /\ KeyInv /\ OneOrganizationPerName /\ AcknowledgedHasOwner

\* The invariant of the theorems below.
LEMMA Invariance == Spec => []IInv
<1>1. Init => IInv
  <2>1. Init => AcknowledgedHasOwner
    BY DEF Init, AcknowledgedHasOwner
  <2> QED
    BY <2>1, InitTypeOK, InitKeyInv DEF IInv
<1>2. IInv /\ [Next]_vars => IInv'
  BY NextTypeOK, NextKeyInv, NextMembers DEF IInv
<1> QED
  BY <1>1, <1>2, PTL DEF Spec

\* Every variable keeps its type, for any users, ids, names and handlers.
THEOREM RegistryTypeOK == Spec => []TypeOK
<1>1. IInv => TypeOK
  BY DEF IInv
<1> QED
  BY <1>1, Invariance, PTL

\* No two organizations have the same name, whatever copies of them are saved.
THEOREM RegistryOneOrganizationPerName == Spec => []OneOrganizationPerName
<1>1. IInv => OneOrganizationPerName
  BY DEF IInv
<1> QED
  BY <1>1, Invariance, PTL

\* Whoever was told that the organization was created is its owner.
THEOREM RegistryAcknowledgedHasOwner == Spec => []AcknowledgedHasOwner
<1>1. IInv => AcknowledgedHasOwner
  BY DEF IInv
<1> QED
  BY <1>1, Invariance, PTL

\* A removed record that no handler holds a copy of stays as it is for ever.
THEOREM RegistryRemovedForGood == Spec => RemovedForGood
<1>1. TypeOK /\ [Next]_vars
         => [\A x \in Thing : Settled(x) => Settled(x)' /\ UNCHANGED records[x]]_vars
  BY NextSettled
<1> QED
  BY <1>1, RegistryTypeOK, PTL DEF Spec, RemovedForGood

=============================================================================
