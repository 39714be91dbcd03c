--------------------------- MODULE DealRoomProofs ---------------------------
(***************************************************************************)
(* Proofs about module DealRoom, for any finite number of messages, any    *)
(* number of pages and deals, any length of the history and whether or not *)
(* the table admits the messages of the sockets.                           *)
(***************************************************************************)
EXTENDS DealRoom, FiniteSetTheorems, TLAPS

-----------------------------------------------------------------------------
(* The inductive invariant.                                                *)

InRoom(p, m) == room[p] = {RoomOf[m]}

\* A history that was read and not emitted is one of stored messages of the
\* room the page shows.
AnswerInv == \A p \in Page, m \in Message :
    m \in answer[p] => socket[p] = "read" /\ InRoom(p, m) /\ Stored(m)

\* As long as it is not emitted, it is complete but for the messages that
\* cross it: no other message is on its way to be pushed, and it has those
\* that were pushed.
ReadInv == \A p \in Page, m \in Message :
    socket[p] = "read" /\ InRoom(p, m) /\ m \notin crossed[p] =>
        /\ progress[m] # "inserted"
        /\ progress[m] = "pushed" /\ m \in Latest(RoomOf[m]) => m \in answer[p]

\* A message that was not pushed yet is not shown yet, unless it crossed.
UnpushedInv == \A p \in Page, m \in Message :
    Live(p) /\ InRoom(p, m) /\ m \notin crossed[p] =>
        (~ Stored(m) \/ progress[m] = "inserted" => list[p][m] = 0)

RoomInv == AnswerInv /\ ReadInv /\ UnpushedInv /\ OwnRoom /\ ShownOnce

-----------------------------------------------------------------------------
(* Lemmas about the operators.                                             *)

\* The clock is a natural number, as messages are finitely many.
LEMMA ClockNat == Clock \in Nat
<1>1. {m \in Message : Stored(m)} \subseteq Message
  OBVIOUS
<1> QED
  BY <1>1, FS_Subset, FS_CardinalityType, ConstantsAssumption DEF Clock

\* The newer messages of a room are finitely many.
LEMMA NewerFinite ==
    ASSUME NEW m \in Message
    PROVE  IsFiniteSet(Newer(m))
<1>1. Newer(m) \subseteq Message
  BY DEF Newer, Of
<1> QED
  BY <1>1, FS_Subset, ConstantsAssumption

\* Storing a message pushes the others out of the latest ones, never in.
LEMMA LatestShrinks ==
    ASSUME TypeOK, NEW new \in Message, ~ Stored(new),
           NEW step \in {"inserted", "posted"}, Store(new, step),
           NEW m \in Message, Stored(m), (m \in Latest(RoomOf[m]))'
    PROVE  m \in Latest(RoomOf[m])
<1>1. \A n \in Message : Stored(n) =>
          n # new /\ Stored(n)' /\ createdAt'[n] = createdAt[n]
  BY DEF Store, Stored, TypeOK
<1>2. Newer(m) \subseteq Newer(m)'
  BY <1>1 DEF Newer, Of
<1>3. IsFiniteSet(Newer(m)')
  <2>1. Newer(m)' \subseteq Message
    BY DEF Newer, Of
  <2> QED
    BY <2>1, FS_Subset, ConstantsAssumption
<1>4. /\ Cardinality(Newer(m)) \in Nat
      /\ Cardinality(Newer(m)') \in Nat
      /\ Cardinality(Newer(m)) <= Cardinality(Newer(m)')
  BY <1>2, <1>3, FS_Subset, FS_CardinalityType
<1>5. Cardinality(Newer(m)') < MaxHistory
  BY DEF Latest, Newer
<1>6. Cardinality(Newer(m)) < MaxHistory
  BY <1>4, <1>5, ConstantsAssumption
<1> QED
  BY <1>6 DEF Latest, Of

\* What does not store a message leaves the latest ones as they are.
LEMMA LatestStays ==
    ASSUME NEW m \in Message, createdAt' = createdAt,
           \A n \in Message : Stored(n)' <=> Stored(n)
    PROVE  (m \in Latest(RoomOf[m]))' <=> m \in Latest(RoomOf[m])
<1>1. Of(RoomOf[m])' = Of(RoomOf[m])
  BY DEF Of
<1>2. Newer(m)' = Newer(m)
  BY <1>1 DEF Newer
<1>3. (m \in Latest(RoomOf[m]))' <=>
          m \in Of(RoomOf[m])' /\ Cardinality(Newer(m)') < MaxHistory
  BY DEF Latest
<1> QED
  BY <1>1, <1>2, <1>3 DEF Latest

-----------------------------------------------------------------------------
(* Type correctness.                                                       *)

LEMMA InitType == Init => TypeOK
  BY ConstantsAssumption
  DEF Init, TypeOK, Progress, Socket, Empty, Stored

\* Connections that end.
LEMMA DisconnectType ==
    ASSUME TypeOK, NEW P, Disconnect(P)
    PROVE  /\ socket' \in [Page -> Socket]
           /\ answer' \in [Page -> SUBSET Message]
           /\ crossed' \in [Page -> SUBSET Message]
           /\ \A p \in Page : socket'[p] # "off" => socket[p] # "off" /\ p \notin P
  BY DEF TypeOK, Disconnect, Socket

LEMMA OpenType ==
    ASSUME TypeOK, NEW p \in Page, NEW d \in Deal, Open(p, d)
    PROVE  TypeOK'
  BY DisconnectType DEF TypeOK, Open, Stored

LEMMA LeaveType ==
    ASSUME TypeOK, NEW p \in Page, Leave(p)
    PROVE  TypeOK'
  BY DisconnectType DEF TypeOK, Leave, Stored, Empty

LEMMA DropType ==
    ASSUME TypeOK, NEW p \in Page, Drop(p)
    PROVE  TypeOK'
<1>1. losses' \in 0..MaxLosses
  BY ConstantsAssumption DEF TypeOK, Drop
<1> QED
  BY <1>1, DisconnectType DEF TypeOK, Drop, Stored

LEMMA SessionType ==
    ASSUME TypeOK, NEW p \in Page, Expire(p) \/ Login(p)
    PROVE  TypeOK'
  BY DEF TypeOK, Expire, Login, Stored

LEMMA SendType ==
    ASSUME TypeOK, NEW p \in Page, NEW m \in Message, Send(p, m)
    PROVE  TypeOK'
<1>1. progress' \in [Message -> Progress]
  BY DEF TypeOK, Send, Progress
<1>2. \A n \in Message : Stored(n)' <=> Stored(n)
  BY DEF TypeOK, Send, Stored
<1> QED
  BY <1>1, <1>2 DEF TypeOK, Send

LEMMA ConnectType ==
    ASSUME TypeOK, NEW p \in Page, Connect(p) \/ FailHistory(p)
    PROVE  TypeOK'
<1>1. CASE Connect(p)
  BY <1>1 DEF TypeOK, Connect, Stored, Socket
<1>2. CASE FailHistory(p)
  <2>1. room[p] # {} /\ socket' \in [Page -> Socket]
    BY <1>2 DEF TypeOK, FailHistory, Socket
  <2> QED
    BY <1>2, <2>1 DEF TypeOK, FailHistory, Stored
<1> QED
  BY <1>1, <1>2

LEMMA ReadHistoryType ==
    ASSUME TypeOK, NEW p \in Page, ReadHistory(p)
    PROVE  TypeOK'
<1>1. PICK d \in room[p] :
          /\ answer' = [answer EXCEPT ![p] = Latest(d)]
          /\ crossed' = [crossed EXCEPT ![p] = {m \in Of(d) : progress[m] = "inserted"}]
  BY DEF ReadHistory
<1>2. Latest(d) \subseteq Message /\ Of(d) \subseteq Message
  BY DEF Latest, Of
<1>3. /\ answer' \in [Page -> SUBSET Message]
      /\ crossed' \in [Page -> SUBSET Message]
  BY <1>1, <1>2 DEF TypeOK
<1> QED
  BY <1>3 DEF TypeOK, ReadHistory, Stored, Socket

LEMMA SendHistoryType ==
    ASSUME TypeOK, NEW p \in Page, SendHistory(p)
    PROVE  TypeOK'
<1>1. list' \in [Page -> [Message -> Nat]]
  BY DEF TypeOK, SendHistory
<1>2. answer' \in [Page -> SUBSET Message]
  BY DEF TypeOK, SendHistory
<1> QED
  BY <1>1, <1>2 DEF TypeOK, SendHistory, Stored, Socket

LEMMA StoreType ==
    ASSUME TypeOK, NEW m \in Message, NEW step \in {"inserted", "posted"}, Store(m, step)
    PROVE  TypeOK'
<1>1. progress' \in [Message -> Progress]
  BY DEF TypeOK, Store, Progress
<1>2. createdAt' \in [Message -> Nat]
  BY ClockNat DEF TypeOK, Store
<1>3. crossed' \in [Page -> SUBSET Message]
  BY DEF TypeOK, Store
<1>4. \A n \in Message : createdAt'[n] = 0 <=> ~ Stored(n)'
  BY ClockNat DEF TypeOK, Store, Stored
<1> QED
  BY <1>1, <1>2, <1>3, <1>4 DEF TypeOK, Store

LEMMA RefuseMessageType ==
    ASSUME TypeOK, NEW m \in Message, RefuseMessage(m)
    PROVE  TypeOK'
<1>1. progress' \in [Message -> Progress]
  BY DEF TypeOK, RefuseMessage, Progress
<1>2. \A n \in Message : Stored(n)' <=> Stored(n)
  BY DEF TypeOK, RefuseMessage, Stored
<1> QED
  BY <1>1, <1>2 DEF TypeOK, RefuseMessage

LEMMA PushMessageType ==
    ASSUME TypeOK, NEW m \in Message, PushMessage(m)
    PROVE  TypeOK'
<1>1. progress' \in [Message -> Progress]
  BY DEF TypeOK, PushMessage, Progress
<1>2. \A n \in Message : Stored(n)' <=> Stored(n)
  BY DEF TypeOK, PushMessage, Stored
<1>3. list' \in [Page -> [Message -> Nat]]
  BY DEF TypeOK, PushMessage
<1> QED
  BY <1>1, <1>2, <1>3 DEF TypeOK, PushMessage

LEMMA RestartType ==
    ASSUME TypeOK, Restart
    PROVE  TypeOK'
<1>1. progress' \in [Message -> Progress]
  BY DEF TypeOK, Restart, Progress
<1>2. \A n \in Message : Stored(n)' <=> Stored(n)
  BY DEF TypeOK, Restart, Stored, Progress
<1>3. losses' \in 0..MaxLosses
  BY ConstantsAssumption DEF TypeOK, Restart
<1> QED
  BY <1>1, <1>2, <1>3, DisconnectType DEF TypeOK, Restart

LEMMA NextType == TypeOK /\ [Next]_vars => TypeOK'
<1> SUFFICES ASSUME TypeOK, [Next]_vars
             PROVE  TypeOK'
  OBVIOUS
<1>1. ASSUME NEW p \in Page, NEW d \in Deal, Open(p, d)
      PROVE  TypeOK'
  BY <1>1, OpenType
<1>2. ASSUME NEW p \in Page, Leave(p)
      PROVE  TypeOK'
  BY <1>2, LeaveType
<1>3. ASSUME NEW p \in Page, Drop(p)
      PROVE  TypeOK'
  BY <1>3, DropType
<1>4. ASSUME NEW p \in Page, Expire(p) \/ Login(p)
      PROVE  TypeOK'
  BY <1>4, SessionType
<1>5. ASSUME NEW p \in Page, NEW m \in Message, Send(p, m)
      PROVE  TypeOK'
  BY <1>5, SendType
<1>6. ASSUME NEW p \in Page, Connect(p) \/ FailHistory(p)
      PROVE  TypeOK'
  BY <1>6, ConnectType
<1>7. ASSUME NEW p \in Page, ReadHistory(p)
      PROVE  TypeOK'
  BY <1>7, ReadHistoryType
<1>8. ASSUME NEW p \in Page, SendHistory(p)
      PROVE  TypeOK'
  BY <1>8, SendHistoryType
<1>9. ASSUME NEW m \in Message, InsertMessage(m) \/ PostMessage(m)
      PROVE  TypeOK'
  BY <1>9, StoreType DEF InsertMessage, PostMessage
<1>10. ASSUME NEW m \in Message, RefuseMessage(m)
       PROVE  TypeOK'
  BY <1>10, RefuseMessageType
<1>11. ASSUME NEW m \in Message, PushMessage(m)
       PROVE  TypeOK'
  BY <1>11, PushMessageType
<1>12. CASE Restart
  BY <1>12, RestartType
<1>13. CASE UNCHANGED vars
  BY <1>13 DEF vars, TypeOK, Stored
<1> QED
  BY <1>1, <1>2, <1>3, <1>4, <1>5, <1>6, <1>7, <1>8, <1>9, <1>10, <1>11, <1>12,
     <1>13 DEF Next

\* Every variable keeps its type, a page without a room has no connection and
\* an empty list, and just the stored messages have a time: whatever Open,
\* Leave, Store and the lost connections do.
THEOREM DealRoomTypeOK == Spec => []TypeOK
<1>1. Init => TypeOK
  BY InitType
<1>2. TypeOK /\ [Next]_vars => TypeOK'
  BY NextType
<1> QED
  BY <1>1, <1>2, PTL DEF Spec

-----------------------------------------------------------------------------
(* What the pages show.                                                    *)

LEMMA InitRoom == Init => RoomInv
  BY DEF Init, RoomInv, AnswerInv, ReadInv, UnpushedInv, OwnRoom, ShownOnce, Live

\* A step that stores and pushes nothing, and leaves the pages alone.
LEMMA SameRoom ==
    ASSUME TypeOK, RoomInv,
           \A n \in Message : \/ progress'[n] = progress[n]
                              \/ {progress[n], progress'[n]} \subseteq {"none", "sent", "refused"},
           UNCHANGED <<createdAt, room, socket, answer, list, crossed>>
    PROVE  RoomInv'
<1>1. \A n \in Message : Stored(n)' <=> Stored(n)
  BY DEF Stored
<1>2. \A n \in Message : (n \in Latest(RoomOf[n]))' <=> n \in Latest(RoomOf[n])
  BY <1>1, LatestStays
<1>3. \A n \in Message : /\ progress'[n] = "inserted" <=> progress[n] = "inserted"
                         /\ progress'[n] = "pushed" <=> progress[n] = "pushed"
  OBVIOUS
<1>4. AnswerInv' /\ OwnRoom'
  BY <1>1 DEF RoomInv, AnswerInv, OwnRoom, InRoom, Live
<1>5. ReadInv'
  BY <1>2, <1>3 DEF RoomInv, ReadInv, InRoom
<1>6. UnpushedInv'
  BY <1>1, <1>3 DEF RoomInv, UnpushedInv, InRoom, Live
<1>7. ShownOnce'
  BY <1>2, <1>3 DEF RoomInv, ShownOnce, Live
<1> QED
  BY <1>4, <1>5, <1>6, <1>7 DEF RoomInv

\* Pages lose their connections, and only those may change what they show.
LEMMA DisconnectRoom ==
    ASSUME TypeOK, RoomInv, NEW P, Disconnect(P),
           \A p \in Page \ P : room'[p] = room[p] /\ list'[p] = list[p],
           UNCHANGED <<progress, createdAt>>
    PROVE  RoomInv'
<1>1. \A n \in Message : Stored(n)' <=> Stored(n)
  BY DEF Stored
<1>2. \A n \in Message : (n \in Latest(RoomOf[n]))' <=> n \in Latest(RoomOf[n])
  BY <1>1, LatestStays
<1>3. \A p \in P \cap Page : socket'[p] = "off" /\ answer'[p] = {}
  BY DEF Disconnect
<1>4. \A p \in Page \ P : /\ socket'[p] = socket[p] /\ answer'[p] = answer[p]
                          /\ crossed'[p] = crossed[p]
                          /\ room'[p] = room[p] /\ list'[p] = list[p]
  BY DEF Disconnect
<1>5. AnswerInv' /\ OwnRoom'
  BY <1>1, <1>3, <1>4 DEF RoomInv, AnswerInv, OwnRoom, InRoom, Live
<1>6. ReadInv'
  BY <1>2, <1>3, <1>4 DEF RoomInv, ReadInv, InRoom
<1>7. UnpushedInv'
  BY <1>1, <1>3, <1>4 DEF RoomInv, UnpushedInv, InRoom, Live
<1>8. ShownOnce'
  BY <1>2, <1>3, <1>4 DEF RoomInv, ShownOnce, Live
<1> QED
  BY <1>5, <1>6, <1>7, <1>8 DEF RoomInv

\* A socket that joins the room, or remains there without a history.
LEMMA ConnectRoom ==
    ASSUME TypeOK, RoomInv, NEW p \in Page, Connect(p) \/ FailHistory(p)
    PROVE  RoomInv'
<1>1. \A n \in Message : Stored(n)' <=> Stored(n)
  BY DEF Stored, Connect, FailHistory
<1>2. \A n \in Message : (n \in Latest(RoomOf[n]))' <=> n \in Latest(RoomOf[n])
  BY <1>1, LatestStays DEF Connect, FailHistory
<1>3. \A q \in Page : socket'[q] \in {"read", "live"} => q # p /\ socket'[q] = socket[q]
  BY DEF TypeOK, Connect, FailHistory
<1>4. socket[p] \in {"off", "joined"}
  BY DEF Connect, FailHistory
<1>5. AnswerInv' /\ OwnRoom'
  BY <1>1, <1>3, <1>4 DEF TypeOK, Connect, FailHistory, RoomInv, AnswerInv, OwnRoom, InRoom, Live
<1>6. ReadInv'
  BY <1>2, <1>3 DEF Connect, FailHistory, RoomInv, ReadInv, InRoom
<1>7. UnpushedInv'
  BY <1>1, <1>3 DEF Connect, FailHistory, RoomInv, UnpushedInv, InRoom, Live
<1>8. ShownOnce'
  BY <1>2, <1>3 DEF Connect, FailHistory, RoomInv, ShownOnce, Live
<1> QED
  BY <1>5, <1>6, <1>7, <1>8 DEF RoomInv

\* The history is read: what it leaves out is not pushed yet, too old or of
\* another room, and what is not pushed yet crosses it.
LEMMA ReadHistoryRoom ==
    ASSUME TypeOK, RoomInv, NEW p \in Page, ReadHistory(p)
    PROVE  RoomInv'
<1>1. PICK d \in room[p] :
          /\ answer' = [answer EXCEPT ![p] = Latest(d)]
          /\ crossed' = [crossed EXCEPT ![p] = {m \in Of(d) : progress[m] = "inserted"}]
  BY DEF ReadHistory
<1>2. /\ answer'[p] = Latest(d)
      /\ crossed'[p] = {m \in Of(d) : progress[m] = "inserted"}
      /\ socket'[p] = "read"
      /\ room[p] = {d}
  BY <1>1 DEF TypeOK, ReadHistory
<1>3. \A q \in Page \ {p} : /\ answer'[q] = answer[q] /\ crossed'[q] = crossed[q]
                            /\ socket'[q] = socket[q]
  BY <1>1 DEF TypeOK, ReadHistory
<1>4. UNCHANGED <<progress, createdAt, room, list>>
  BY DEF ReadHistory
<1>5. \A n \in Message : Stored(n)' <=> Stored(n)
  BY <1>4 DEF Stored
<1>6. \A n \in Message : (n \in Latest(RoomOf[n]))' <=> n \in Latest(RoomOf[n])
  BY <1>4, <1>5, LatestStays
<1>7. AnswerInv'
  <2>1. \A m \in Message : m \in Latest(d) => RoomOf[m] = d /\ Stored(m)
    BY DEF Latest, Of
  <2> QED
    BY <1>2, <1>3, <1>4, <1>5, <2>1 DEF RoomInv, AnswerInv, InRoom
<1>8. ReadInv'
  <2> SUFFICES ASSUME NEW q \in Page, NEW m \in Message, socket'[q] = "read",
                      InRoom(q, m)', m \notin crossed'[q]
               PROVE  /\ progress'[m] # "inserted"
                      /\ progress'[m] = "pushed" /\ (m \in Latest(RoomOf[m]))'
                            => m \in answer'[q]
    BY DEF ReadInv
  <2>1. CASE q = p
    <3>1. RoomOf[m] = d
      BY <1>2, <1>4, <2>1 DEF InRoom
    <3>2. progress[m] # "inserted"
      BY <1>2, <2>1, <3>1 DEF Of, Stored
    <3> QED
      BY <1>2, <1>4, <1>6, <2>1, <3>1, <3>2
  <2>2. CASE q # p
    BY <1>3, <1>4, <1>6, <2>2 DEF RoomInv, ReadInv, InRoom
  <2> QED
    BY <2>1, <2>2
<1>9. OwnRoom' /\ UnpushedInv'
  BY <1>2, <1>3, <1>4, <1>5 DEF RoomInv, OwnRoom, UnpushedInv, InRoom, Live
<1>10. ShownOnce'
  BY <1>2, <1>3, <1>4, <1>6 DEF RoomInv, ShownOnce, Live
<1> QED
  BY <1>7, <1>8, <1>9, <1>10 DEF RoomInv

\* The history is emitted, and is all the page shows then.
LEMMA SendHistoryRoom ==
    ASSUME TypeOK, RoomInv, NEW p \in Page, SendHistory(p)
    PROVE  RoomInv'
<1>1. /\ socket[p] = "read" /\ socket'[p] = "live" /\ answer'[p] = {}
      /\ \A m \in Message : list'[p][m] = IF m \in answer[p] THEN 1 ELSE 0
  BY DEF TypeOK, SendHistory
<1>2. \A q \in Page \ {p} : /\ answer'[q] = answer[q] /\ socket'[q] = socket[q]
                            /\ list'[q] = list[q]
  BY DEF TypeOK, SendHistory
<1>3. UNCHANGED <<progress, createdAt, room, crossed>>
  BY DEF SendHistory
<1>4. \A n \in Message : Stored(n)' <=> Stored(n)
  BY <1>3 DEF Stored
<1>5. \A n \in Message : (n \in Latest(RoomOf[n]))' <=> n \in Latest(RoomOf[n])
  BY <1>3, <1>4, LatestStays
<1>6. AnswerInv'
  BY <1>1, <1>2, <1>3, <1>4 DEF RoomInv, AnswerInv, InRoom
<1>7. ReadInv'
  BY <1>1, <1>2, <1>3, <1>5 DEF RoomInv, ReadInv, InRoom
<1>8. OwnRoom'
  BY <1>1, <1>2, <1>3, <1>4 DEF RoomInv, AnswerInv, OwnRoom, InRoom, Live
<1>9. UnpushedInv'
  <2> SUFFICES ASSUME NEW q \in Page, NEW m \in Message, Live(q)', InRoom(q, m)',
                      m \notin crossed'[q], ~ Stored(m)' \/ progress'[m] = "inserted"
               PROVE  list'[q][m] = 0
    BY DEF UnpushedInv
  <2>1. CASE q = p
    <3>1. m \notin answer[p]
      BY <1>1, <1>3, <1>4, <2>1 DEF RoomInv, AnswerInv, ReadInv, InRoom
    <3> QED
      BY <1>1, <2>1, <3>1
  <2>2. CASE q # p
    BY <1>2, <1>3, <1>4, <2>2 DEF RoomInv, UnpushedInv, InRoom, Live
  <2> QED
    BY <2>1, <2>2
<1>10. ShownOnce'
  <2> SUFFICES ASSUME NEW q \in Page, NEW m \in Message, Live(q)', InRoom(q, m)',
                      m \notin crossed'[q]
               PROVE  /\ list'[q][m] <= 1
                      /\ progress'[m] = "pushed" /\ (m \in Latest(RoomOf[m]))'
                            => list'[q][m] = 1
    BY DEF ShownOnce, InRoom
  <2>1. CASE q = p
    BY <1>1, <1>3, <1>5, <2>1 DEF RoomInv, ReadInv, InRoom
  <2>2. CASE q # p
    BY <1>2, <1>3, <1>5, <2>2 DEF RoomInv, ShownOnce, InRoom, Live
  <2> QED
    BY <2>1, <2>2
<1> QED
  BY <1>6, <1>7, <1>8, <1>9, <1>10 DEF RoomInv

\* A message is stored, and crosses the histories that are on their way.
LEMMA StoreRoom ==
    ASSUME TypeOK, RoomInv, NEW new \in Message, progress[new] \in {"none", "sent"},
           NEW step \in {"inserted", "posted"}, Store(new, step)
    PROVE  RoomInv'
<1>1. ~ Stored(new) /\ progress'[new] = step /\ step # "pushed"
  BY DEF TypeOK, Store, Stored
<1>2. \A n \in Message \ {new} : progress'[n] = progress[n]
  BY DEF TypeOK, Store
<1>3. UNCHANGED <<room, socket, answer, list>>
  BY DEF Store
<1>4. \A q \in Page : crossed[q] \subseteq crossed'[q]
  BY DEF TypeOK, Store
<1>5. \A q \in Page : socket[q] = "read" /\ InRoom(q, new) => new \in crossed'[q]
  BY DEF TypeOK, Store, Joined, InRoom
<1>6. \A n \in Message : Stored(n) => Stored(n)'
  BY <1>1, <1>2 DEF Stored
<1>7. \A n \in Message : progress'[n] = "pushed" =>
          n # new /\ progress[n] = "pushed" /\ Stored(n)
  BY <1>1, <1>2 DEF Stored
<1>8. \A n \in Message : progress'[n] = "pushed" /\ (n \in Latest(RoomOf[n]))'
          => progress[n] = "pushed" /\ n \in Latest(RoomOf[n])
  BY <1>1, <1>7, LatestShrinks
<1>9. AnswerInv' /\ OwnRoom'
  BY <1>3, <1>6 DEF RoomInv, AnswerInv, OwnRoom, InRoom, Live
<1>10. ReadInv'
  <2> SUFFICES ASSUME NEW q \in Page, NEW m \in Message, socket'[q] = "read",
                      InRoom(q, m)', m \notin crossed'[q]
               PROVE  /\ progress'[m] # "inserted"
                      /\ progress'[m] = "pushed" /\ (m \in Latest(RoomOf[m]))'
                            => m \in answer'[q]
    BY DEF ReadInv
  <2>1. socket[q] = "read" /\ InRoom(q, m) /\ m \notin crossed[q] /\ m # new
    BY <1>3, <1>4, <1>5 DEF InRoom
  <2> QED
    BY <1>2, <1>3, <1>8, <2>1 DEF RoomInv, ReadInv
<1>11. UnpushedInv'
  <2> SUFFICES ASSUME NEW q \in Page, NEW m \in Message, Live(q)', InRoom(q, m)',
                      m \notin crossed'[q], ~ Stored(m)' \/ progress'[m] = "inserted"
               PROVE  list'[q][m] = 0
    BY DEF UnpushedInv
  <2>1. Live(q) /\ InRoom(q, m) /\ m \notin crossed[q]
    BY <1>3, <1>4 DEF InRoom, Live
  <2>2. ~ Stored(m) \/ progress[m] = "inserted"
    BY <1>1, <1>2, <1>6
  <2> QED
    BY <1>3, <2>1, <2>2 DEF RoomInv, UnpushedInv
<1>12. ShownOnce'
  <2> SUFFICES ASSUME NEW q \in Page, NEW m \in Message, Live(q)', InRoom(q, m)',
                      m \notin crossed'[q]
               PROVE  /\ list'[q][m] <= 1
                      /\ progress'[m] = "pushed" /\ (m \in Latest(RoomOf[m]))'
                            => list'[q][m] = 1
    BY DEF ShownOnce, InRoom
  <2>1. Live(q) /\ InRoom(q, m) /\ m \notin crossed[q]
    BY <1>3, <1>4 DEF InRoom, Live
  <2> QED
    BY <1>3, <1>8, <2>1 DEF RoomInv, ShownOnce, InRoom
<1> QED
  BY <1>9, <1>10, <1>11, <1>12 DEF RoomInv

\* A message is pushed to the sockets in its room, which do not show it yet
\* unless it crossed their histories.
LEMMA PushMessageRoom ==
    ASSUME TypeOK, RoomInv, NEW new \in Message, PushMessage(new)
    PROVE  RoomInv'
<1>1. progress[new] = "inserted" /\ progress'[new] = "pushed"
  BY DEF TypeOK, PushMessage
<1>2. \A n \in Message \ {new} : progress'[n] = progress[n]
  BY DEF TypeOK, PushMessage
<1>3. UNCHANGED <<createdAt, room, socket, answer, crossed>>
  BY DEF PushMessage
<1>4. \A n \in Message : Stored(n)' <=> Stored(n)
  BY <1>1, <1>2 DEF Stored
<1>5. \A n \in Message : (n \in Latest(RoomOf[n]))' <=> n \in Latest(RoomOf[n])
  BY <1>3, <1>4, LatestStays
<1>6. \A q \in Page, n \in Message \ {new} : list'[q][n] = list[q][n]
  BY DEF TypeOK, PushMessage
<1>7. \A q \in Page : list'[q][new] = IF Joined(q, new) THEN list[q][new] + 1
                                                        ELSE list[q][new]
  BY DEF TypeOK, PushMessage
<1>8. AnswerInv'
  BY <1>3, <1>4 DEF RoomInv, AnswerInv, InRoom
<1>9. ReadInv'
  <2> SUFFICES ASSUME NEW q \in Page, NEW m \in Message, socket'[q] = "read",
                      InRoom(q, m)', m \notin crossed'[q]
               PROVE  /\ progress'[m] # "inserted"
                      /\ progress'[m] = "pushed" /\ (m \in Latest(RoomOf[m]))'
                            => m \in answer'[q]
    BY DEF ReadInv
  <2>1. socket[q] = "read" /\ InRoom(q, m) /\ m \notin crossed[q]
    BY <1>3 DEF InRoom
  <2>2. m # new
    BY <1>1, <2>1 DEF RoomInv, ReadInv
  <2> QED
    BY <1>2, <1>3, <1>5, <2>1, <2>2 DEF RoomInv, ReadInv
<1>10. OwnRoom'
  <2> SUFFICES ASSUME NEW q \in Page, NEW m \in Message, Live(q)', list'[q][m] > 0
               PROVE  room'[q] = {RoomOf[m]} /\ Stored(m)'
    BY DEF OwnRoom
  <2>1. CASE m = new /\ Joined(q, new)
    BY <1>1, <1>3, <1>4, <2>1 DEF Joined, Stored
  <2>2. CASE ~ (m = new /\ Joined(q, new))
    BY <1>3, <1>4, <1>6, <1>7, <2>2 DEF RoomInv, OwnRoom, Live
  <2> QED
    BY <2>1, <2>2
<1>11. UnpushedInv'
  <2> SUFFICES ASSUME NEW q \in Page, NEW m \in Message, Live(q)', InRoom(q, m)',
                      m \notin crossed'[q], ~ Stored(m)' \/ progress'[m] = "inserted"
               PROVE  list'[q][m] = 0
    BY DEF UnpushedInv
  <2>1. m # new
    BY <1>1 DEF Stored
  <2> QED
    BY <1>2, <1>3, <1>4, <1>6, <2>1 DEF RoomInv, UnpushedInv, InRoom, Live
<1>12. ShownOnce'
  <2> SUFFICES ASSUME NEW q \in Page, NEW m \in Message, Live(q)', InRoom(q, m)',
                      m \notin crossed'[q]
               PROVE  /\ list'[q][m] <= 1
                      /\ progress'[m] = "pushed" /\ (m \in Latest(RoomOf[m]))'
                            => list'[q][m] = 1
    BY DEF ShownOnce, InRoom
  <2>1. Live(q) /\ InRoom(q, m) /\ m \notin crossed[q]
    BY <1>3 DEF InRoom, Live
  <2>2. CASE m = new
    <3>1. list[q][new] = 0
      BY <1>1, <2>1, <2>2 DEF RoomInv, UnpushedInv
    <3>2. Joined(q, new)
      BY <2>1, <2>2 DEF InRoom, Joined, Live
    <3> QED
      BY <1>7, <2>2, <3>1, <3>2
  <2>3. CASE m # new
    BY <1>2, <1>5, <1>6, <2>1, <2>3 DEF RoomInv, ShownOnce, InRoom
  <2> QED
    BY <2>2, <2>3
<1> QED
  BY <1>8, <1>9, <1>10, <1>11, <1>12 DEF RoomInv

\* After a restart nobody is connected.
LEMMA RestartRoom ==
    ASSUME TypeOK, RoomInv, Restart
    PROVE  RoomInv'
<1>1. \A p \in Page : socket'[p] = "off" /\ answer'[p] = {}
  BY DEF Restart, Disconnect
<1> QED
  BY <1>1 DEF RoomInv, AnswerInv, ReadInv, UnpushedInv, OwnRoom, ShownOnce, Live

LEMMA NextRoom == TypeOK /\ RoomInv /\ [Next]_vars => RoomInv'
<1> SUFFICES ASSUME TypeOK, RoomInv, [Next]_vars
             PROVE  RoomInv'
  OBVIOUS
<1>1. ASSUME NEW p \in Page, NEW d \in Deal, Open(p, d)
      PROVE  RoomInv'
  <2>1. /\ Disconnect({p}) /\ UNCHANGED <<progress, createdAt>>
        /\ \A q \in Page \ {p} : room'[q] = room[q] /\ list'[q] = list[q]
    BY <1>1 DEF TypeOK, Open
  <2> QED
    BY <2>1, DisconnectRoom
<1>2. ASSUME NEW p \in Page, Leave(p)
      PROVE  RoomInv'
  <2>1. /\ Disconnect({p}) /\ UNCHANGED <<progress, createdAt>>
        /\ \A q \in Page \ {p} : room'[q] = room[q] /\ list'[q] = list[q]
    BY <1>2 DEF TypeOK, Leave
  <2> QED
    BY <2>1, DisconnectRoom
<1>3. ASSUME NEW p \in Page, Drop(p)
      PROVE  RoomInv'
  BY <1>3, DisconnectRoom DEF Drop
<1>4. ASSUME NEW p \in Page, Expire(p) \/ Login(p)
      PROVE  RoomInv'
  BY <1>4, SameRoom DEF Expire, Login
<1>5. ASSUME NEW p \in Page, NEW m \in Message, Send(p, m)
      PROVE  RoomInv'
  BY <1>5, SameRoom DEF TypeOK, Send
<1>6. ASSUME NEW p \in Page, Connect(p) \/ FailHistory(p)
      PROVE  RoomInv'
  BY <1>6, ConnectRoom
<1>7. ASSUME NEW p \in Page, ReadHistory(p)
      PROVE  RoomInv'
  BY <1>7, ReadHistoryRoom
<1>8. ASSUME NEW p \in Page, SendHistory(p)
      PROVE  RoomInv'
  BY <1>8, SendHistoryRoom
<1>9. ASSUME NEW m \in Message, InsertMessage(m) \/ PostMessage(m)
      PROVE  RoomInv'
  BY <1>9, StoreRoom DEF InsertMessage, PostMessage
<1>10. ASSUME NEW m \in Message, RefuseMessage(m)
       PROVE  RoomInv'
  BY <1>10, SameRoom DEF TypeOK, RefuseMessage
<1>11. ASSUME NEW m \in Message, PushMessage(m)
       PROVE  RoomInv'
  BY <1>11, PushMessageRoom
<1>12. CASE Restart
  BY <1>12, RestartRoom
<1>13. CASE UNCHANGED vars
  BY <1>13, SameRoom DEF vars
<1> QED
  BY <1>1, <1>2, <1>3, <1>4, <1>5, <1>6, <1>7, <1>8, <1>9, <1>10, <1>11, <1>12,
     <1>13 DEF Next

LEMMA RoomInvariant == Spec => []RoomInv
<1>1. Init => RoomInv
  BY InitRoom
<1>2. TypeOK /\ RoomInv /\ [Next]_vars => RoomInv'
  BY NextRoom
<1> QED
  BY <1>1, <1>2, DealRoomTypeOK, PTL DEF Spec

\* Once a page has its history it shows stored messages of its room only,
\* although the effect of DealRoomPage keeps the list of the room before.
THEOREM DealRoomOwnRoom == Spec => []OwnRoom
<1>1. RoomInv => OwnRoom
  BY DEF RoomInv
<1> QED
  BY <1>1, RoomInvariant, PTL

\* Joining before the history is queried misses nothing and shows nothing
\* twice, but for the messages whose push crosses the history.
THEOREM DealRoomShownOnce == Spec => []ShownOnce
<1>1. RoomInv => ShownOnce
  BY DEF RoomInv
<1> QED
  BY <1>1, RoomInvariant, PTL

=============================================================================
