------------------------------ MODULE DealRoom ------------------------------
(***************************************************************************)
(* The chat of a deal: backend/src/messages (the socket gateway, the       *)
(* controller and the service) and the page that shows it                  *)
(* (web/src/pages/DealRoomPage.tsx).                                       *)
(*                                                                         *)
(* A page connects a socket, authenticates, joins the room of its deal and *)
(* is then sent the latest messages, which replace its list; every message *)
(* sent through a socket is inserted and then pushed to the sockets in the *)
(* room, whose pages append it.  The gateway's handlers interleave at      *)
(* their database calls, so a push and a history may cross.  Connections   *)
(* are lost and made again, and the server may restart.                    *)
(*                                                                         *)
(* The packets of one connection arrive in order and are handled one by    *)
(* one, so a packet is modelled as handled when it is emitted; one that is *)
(* never handled is one emitted after the connection was lost.  A message  *)
(* is never changed or deleted: no operation of the service does either.   *)
(***************************************************************************)
EXTENDS Integers, FiniteSets

CONSTANTS
    Message,     \* ids of messages
    Deal,        \* ids of deals; each has a room
    RoomOf,      \* the deal a message is about
    Page,        \* browser tabs of logged-in users
    MaxHistory,  \* how many messages a history has (50)
    SocketOrg,   \* may a message of a socket be stored? Its sender's
                 \* organization is not known: see InsertMessage
    MaxLosses    \* bound on lost connections and server restarts

ASSUME ConstantsAssumption ==
    /\ IsFiniteSet(Message)
    /\ RoomOf \in [Message -> Deal]
    /\ MaxHistory \in Nat \ {0}
    /\ SocketOrg \in BOOLEAN
    /\ MaxLosses \in Nat

VARIABLES
    progress,   \* how far each message has got
    createdAt,  \* when each message was stored; 0: not yet
    room,       \* the deal whose room each page shows, if any
    socket,     \* how far the connection of each page has got
    answer,     \* the history that was read for a page and not emitted yet
    list,       \* how often the list of each page has each message
    crossed,    \* messages whose push may have crossed the history of a page
    expired,    \* pages whose token the server does not accept any more
    losses

vars == <<progress, createdAt, room, socket, answer, list, crossed, expired, losses>>

\* sent: received by the gateway; inserted: stored, but not pushed yet;
\* posted: stored, and nobody will push it; refused: never stored.
Progress == {"none", "sent", "inserted", "pushed", "posted", "refused"}

Stored(m) == progress[m] \in {"inserted", "pushed", "posted"}

\* off: connecting; refused: connected, but the token was not accepted;
\* joined: in the room, the history is being read; read: it was read;
\* live: it was emitted; bare: it could not be read, so that the page has
\* only what is pushed to it.
Socket == {"off", "refused", "joined", "read", "live", "bare"}

\* The sockets of the room of a message.
Joined(p, m) == room[p] = {RoomOf[m]} /\ socket[p] \in {"joined", "read", "live", "bare"}

Of(d) == {m \in Message : Stored(m) /\ RoomOf[m] = d}

Newer(m) == {n \in Of(RoomOf[m]) : createdAt[n] > createdAt[m]}

\* The messages a SELECT of the latest ones returns.
Latest(d) == {m \in Of(d) : Cardinality(Newer(m)) < MaxHistory}

Empty == [m \in Message |-> 0]

Clock == Cardinality({m \in Message : Stored(m)})

Init ==
    /\ progress = [m \in Message |-> "none"]
    /\ createdAt = Empty
    /\ room = [p \in Page |-> {}]
    /\ socket = [p \in Page |-> "off"]
    /\ answer = [p \in Page |-> {}]
    /\ list = [p \in Page |-> Empty]
    /\ crossed = [p \in Page |-> {}]
    /\ expired = {}
    /\ losses = 0

-----------------------------------------------------------------------------
(* DealRoomPage.                                                           *)

Disconnect(P) ==
    /\ socket' = [p \in Page |-> IF p \in P THEN "off" ELSE socket[p]]
    /\ answer' = [p \in Page |-> IF p \in P THEN {} ELSE answer[p]]
    /\ crossed' = [p \in Page |-> IF p \in P THEN {} ELSE crossed[p]]

\* Mutant of Open: the effect has no cleanup, the old socket stays.
OpenStillConnected(p, d) ==
    /\ room[p] # {d}
    /\ room' = [room EXCEPT ![p] = {d}]
    /\ UNCHANGED <<progress, createdAt, socket, answer, list, crossed, expired, losses>>

\* The page of another deal: the effect runs again, with a socket of its own,
\* but the state of the component, hence the list, stays.
Open(p, d) ==
    /\ room[p] # {d}
    /\ room' = [room EXCEPT ![p] = {d}]
    /\ Disconnect({p})
    /\ UNCHANGED <<progress, createdAt, list, expired, losses>>

\* Mutant of Leave: the effect has no cleanup, the socket stays connected.
LeaveStillConnected(p) ==
    /\ room[p] # {}
    /\ room' = [room EXCEPT ![p] = {}]
    /\ list' = [list EXCEPT ![p] = Empty]
    /\ UNCHANGED <<progress, createdAt, socket, answer, crossed, expired, losses>>

\* Any other page: the component is unmounted.
Leave(p) ==
    /\ room[p] # {}
    /\ room' = [room EXCEPT ![p] = {}]
    /\ list' = [list EXCEPT ![p] = Empty]
    /\ Disconnect({p})
    /\ UNCHANGED <<progress, createdAt, expired, losses>>

\* The connection is lost; the client library makes a new one.
Drop(p) ==
    /\ losses < MaxLosses
    /\ socket[p] # "off"
    /\ losses' = losses + 1
    /\ Disconnect({p})
    /\ UNCHANGED <<progress, createdAt, room, list, expired>>

\* The token of the page expires; the user may log in again elsewhere.
Expire(p) ==
    /\ p \notin expired
    /\ expired' = expired \cup {p}
    /\ UNCHANGED <<progress, createdAt, room, socket, answer, list, crossed, losses>>

Login(p) ==
    /\ room[p] = {}
    /\ expired' = expired \ {p}
    /\ UNCHANGED <<progress, createdAt, room, socket, answer, list, crossed, losses>>

\* handleSend. What is typed while there is no connection is sent as soon as
\* there is one, before authenticate: it is refused like that of a page whose
\* token is not accepted.
Send(p, m) ==
    /\ room[p] = {RoomOf[m]}
    /\ progress[m] = "none"
    /\ progress' = [progress EXCEPT ![m] = IF Joined(p, m) THEN "sent" ELSE "refused"]
    /\ UNCHANGED <<createdAt, room, socket, answer, list, crossed, expired, losses>>

-----------------------------------------------------------------------------
(* The gateway.                                                            *)

\* connect: authenticate, and join_deal_room up to its query.
Connect(p) ==
    /\ room[p] # {}
    /\ socket[p] = "off"
    /\ socket' = [socket EXCEPT ![p] = IF p \in expired THEN "refused" ELSE "joined"]
    /\ UNCHANGED <<progress, createdAt, room, answer, list, crossed, expired, losses>>

\* join_deal_room reads the history. What is stored already and pushed only
\* after this history was emitted reaches the page twice.
ReadHistory(p) ==
    /\ socket[p] = "joined"
    /\ socket' = [socket EXCEPT ![p] = "read"]
    /\ \E d \in room[p] :
          /\ answer' = [answer EXCEPT ![p] = Latest(d)]
          /\ crossed' = [crossed EXCEPT ![p] = {m \in Of(d) : progress[m] = "inserted"}]
    /\ UNCHANGED <<progress, createdAt, room, list, expired, losses>>

\* The query fails: the socket stays in the room, and nobody asks for the
\* history again until the page connects again.
FailHistory(p) ==
    /\ socket[p] = "joined"
    /\ socket' = [socket EXCEPT ![p] = "bare"]
    /\ UNCHANGED <<progress, createdAt, room, answer, list, crossed, expired, losses>>

\* Mutant of SendHistory: the page adds the history to its list.
SendHistoryAppended(p) ==
    /\ socket[p] = "read"
    /\ socket' = [socket EXCEPT ![p] = "live"]
    /\ list' = [list EXCEPT ![p] =
                   [m \in Message |-> IF m \in answer[p] THEN @[m] + 1 ELSE @[m]]]
    /\ answer' = [answer EXCEPT ![p] = {}]
    /\ UNCHANGED <<progress, createdAt, room, crossed, expired, losses>>

\* It emits the history, which replaces the list of the page.
SendHistory(p) ==
    /\ socket[p] = "read"
    /\ socket' = [socket EXCEPT ![p] = "live"]
    /\ list' = [list EXCEPT ![p] =
                   [m \in Message |-> IF m \in answer[p] THEN 1 ELSE 0]]
    /\ answer' = [answer EXCEPT ![p] = {}]
    /\ UNCHANGED <<progress, createdAt, room, crossed, expired, losses>>

\* What is stored between the query and the history it answers with, and
\* pushed before that history, is replaced by it.
Store(m, step) ==
    /\ progress' = [progress EXCEPT ![m] = step]
    /\ createdAt' = [createdAt EXCEPT ![m] = Clock + 1]
    /\ crossed' = [p \in Page |-> IF Joined(p, m) /\ socket[p] = "read"
                                  THEN crossed[p] \cup {m} ELSE crossed[p]]
    /\ UNCHANGED <<room, socket, answer, list, expired, losses>>

\* handleSendMessage saves the message of an authenticated socket. Nothing
\* ever sets the socket's organization, without which the schemas of the
\* repository refuse the row: the message is stored only if the table admits
\* it (SocketOrg), and the INSERT may fail in any case.
InsertMessage(m) ==
    /\ progress[m] = "sent"
    /\ SocketOrg
    /\ Store(m, "inserted")

RefuseMessage(m) ==
    /\ progress[m] = "sent"
    /\ progress' = [progress EXCEPT ![m] = "refused"]
    /\ UNCHANGED <<createdAt, room, socket, answer, list, crossed, expired, losses>>

\* Mutant of PushMessage: leaves out a socket of the room, as client.to(room)
\* does with the sender's, which is what the typing indicator uses.
PushMessageToOthers(m) ==
    /\ progress[m] = "inserted"
    /\ progress' = [progress EXCEPT ![m] = "pushed"]
    /\ \E sender \in Page : list' = [p \in Page |->
          IF Joined(p, m) /\ p # sender THEN [list[p] EXCEPT ![m] = @ + 1] ELSE list[p]]
    /\ UNCHANGED <<createdAt, room, socket, answer, crossed, expired, losses>>

\* new_message to every socket in the room; the page appends it.
PushMessage(m) ==
    /\ progress[m] = "inserted"
    /\ progress' = [progress EXCEPT ![m] = "pushed"]
    /\ list' = [p \in Page |->
          IF Joined(p, m) THEN [list[p] EXCEPT ![m] = @ + 1] ELSE list[p]]
    /\ UNCHANGED <<createdAt, room, socket, answer, crossed, expired, losses>>

\* POST /messages stores a message and pushes it to nobody.
PostMessage(m) ==
    /\ progress[m] = "none"
    /\ Store(m, "posted")

\* The server restarts: all sockets are gone, and so are the handlers between
\* receiving a message, storing it and pushing it.
Restart ==
    /\ losses < MaxLosses
    /\ losses' = losses + 1
    /\ Disconnect(Page)
    /\ progress' = [m \in Message |-> CASE progress[m] = "sent"     -> "refused"
                                        [] progress[m] = "inserted" -> "posted"
                                        [] OTHER                    -> progress[m]]
    /\ UNCHANGED <<createdAt, room, list, expired>>

Next ==
    \/ \E p \in Page, d \in Deal : Open(p, d)
    \/ \E p \in Page : Leave(p)
    \/ \E p \in Page : Drop(p)
    \/ \E p \in Page : Expire(p)
    \/ \E p \in Page : Login(p)
    \/ \E p \in Page, m \in Message : Send(p, m)
    \/ \E p \in Page : Connect(p)
    \/ \E p \in Page : ReadHistory(p)
    \/ \E p \in Page : FailHistory(p)
    \/ \E p \in Page : SendHistory(p)
    \/ \E m \in Message : InsertMessage(m)
    \/ \E m \in Message : RefuseMessage(m)
    \/ \E m \in Message : PushMessage(m)
    \/ \E m \in Message : PostMessage(m)
    \/ Restart

Spec == Init /\ [][Next]_vars

\* The client library connects again, and a handler that was started goes on;
\* its query is answered or fails.
Fairness ==
    /\ \A p \in Page : /\ WF_vars(Connect(p))
                       /\ WF_vars(ReadHistory(p) \/ FailHistory(p))
                       /\ WF_vars(SendHistory(p))
    /\ \A m \in Message : WF_vars(PushMessage(m))

FairSpec == Spec /\ Fairness

-----------------------------------------------------------------------------
(* Properties.                                                             *)

\* Every variable has its type; a page without a room has no socket and an
\* empty list, and the messages that have a time are those that are stored.
TypeOK ==
    /\ progress \in [Message -> Progress]
    /\ createdAt \in [Message -> Nat]
    /\ room \in [Page -> SUBSET Deal]
    /\ \A p \in Page, d, e \in Deal : {d, e} \subseteq room[p] => d = e
    /\ socket \in [Page -> Socket]
    /\ answer \in [Page -> SUBSET Message]
    /\ list \in [Page -> [Message -> Nat]]
    /\ crossed \in [Page -> SUBSET Message]
    /\ expired \subseteq Page
    /\ losses \in 0..MaxLosses
    /\ \A p \in Page : room[p] = {} => socket[p] = "off"
    /\ \A m \in Message : createdAt[m] = 0 <=> ~ Stored(m)

Live(p) == socket[p] = "live"

\* Once a page has its history it shows no message of another room, although
\* it keeps the list of the room it showed before until then.
OwnRoom ==
    \A p \in Page, m \in Message :
        Live(p) /\ list[p][m] > 0 => room[p] = {RoomOf[m]} /\ Stored(m)

\* Unless its push crossed the history, a page shows no message twice, and it
\* shows every message of its room that was pushed, before the page opened or
\* since, as far back as a history goes.
ShownOnce ==
    \A p \in Page, m \in Message :
        Live(p) /\ room[p] = {RoomOf[m]} /\ m \notin crossed[p] =>
            /\ list[p][m] <= 1
            /\ progress[m] = "pushed" /\ m \in Latest(RoomOf[m]) => list[p][m] = 1

\* Whoever stays in a room sees every message pushed to it: by the push, or
\* by a history after a lost connection or a restart of the server; unless
\* the token has expired, the query for the history has failed, or the
\* message crossed a history or is too old.
EveryoneCatchesUp ==
    \A p \in Page, m \in Message :
        room[p] = {RoomOf[m]} /\ progress[m] = "pushed" ~>
            \/ list[p][m] > 0
            \/ room[p] # {RoomOf[m]}
            \/ p \in expired \/ socket[p] = "bare"
            \/ m \in crossed[p]
            \/ m \notin Latest(RoomOf[m])

=============================================================================
