------------------------------ MODULE ChatServer ------------------------------
(***************************************************************************)
(* The core of the chat server: every thread at any point of any handler,    *)
(* interleaved with the clients, and what should be true of it.              *)
(***************************************************************************)
EXTENDS ChatHandlers, ChatRooms

ConnectionStep(c) ==
  \/ RecvCall(c) \/ RecvReturns(c) \/ RecvEnds(c)
  \/ Extract(c) \/ BadJson(c) \/ GateOpens(c) \/ GateCloses(c)
  \/ ReplyFatal(c) \/ ReplyFails(c) \/ ReplySent(c)
  \/ NotifySize(c) \/ NotifyEach(c)
  \/ EvictNext(c) \/ EvictFromRooms(c) \/ EvictFromUsers(c) \/ EvictDone(c)
  \/ DisconnectFind(c) \/ DisconnectFromRooms(c)
  \/ DisconnectFromUsers(c) \/ DisconnectClose(c)

HandlerStep(c) ==
  \/ IdentifyFindFd(c) \/ IdentifyFindName(c) \/ IdentifyAdd(c)
  \/ StatusFind(c) \/ StatusChange(c) \/ StatusChangeInRooms(c)
  \/ UsersList(c)
  \/ TextFindAddressee(c) \/ TextCompare(c) \/ TextFindSender(c) \/ TextSend(c)
  \/ PublicTextFindSender(c)

RoomStep(c) ==
  \/ NewRoomContains(c) \/ NewRoomAdd(c) \/ NewRoomFindCreator(c) \/ NewRoomAddCreator(c)
  \/ RoomContains(c) \/ RoomFindSender(c) \/ RoomMember(c)
  \/ InviteResolve(c) \/ InviteIsMember(c) \/ InviteIsGuest(c) \/ InviteAdd(c) \/ InviteSend(c)
  \/ JoinIsGuest(c) \/ JoinMove(c) \/ RoomUsersList(c) \/ RoomNotify(c)
  \/ LeaveRoom(c) \/ LeaveDropRoom(c)

Thread(c) == ConnectionStep(c) \/ HandlerStep(c) \/ RoomStep(c)

ClientStep(c) == Accept(c) \/ Submit(c) \/ Vanish(c)

\* Everybody waits for a client that has nothing more to say: not a deadlock.
Idling == Quiet /\ UNCHANGED vars

Next == (\E c \in Conns : ClientStep(c) \/ Thread(c)) \/ Idling

(* The descriptors a thread's next step writes to, and whether one of them
   belongs to a client that does not read: send then blocks for good once the
   socket is full, with the table's mutex if it is a broadcast.             *)
WritesTo(c) ==
  CASE pc[c] = "reply" -> {fdOf[c]}
    [] pc[c] = "tx_send" -> {loc[c].to.fd}
    [] pc[c] = "iv_send" -> {Head(loc[c].invited).fd}
    [] pc[c] = "notify_each" -> {u.fd : u \in UsersOf(users)} \ {Skipped(c)}
    [] pc[c] = "room_notify" /\ RoomExists(Room(c)) ->
         {u.fd : u \in UsersOf(rooms[Room(c)].members)} \ {fdOf[c]}
    [] OTHER -> {}

MayBlock(c) ==
  \E f \in WritesTo(c) : /\ fdt[f] # None /\ fdt[f] \notin Reading
                         /\ peer[fdt[f]] # "gone"

Waits(c) ==
  MayBlock(c) \/ \E d \in Conns : pc[d] \in {"notify_each", "room_notify"} /\ MayBlock(d)

(* The kernel runs every thread that can run and delivers what was sent.
   Clients owe nothing; who waits for one that does not read may wait for ever. *)
Fairness == \A c \in Conns : WF_vars(Thread(c) /\ ~Waits(c))

Spec == Init /\ [][Next]_vars /\ Fairness

-----------------------------------------------------------------------------
\* Types.

UserCopy == [name : Names, fd : Fds, status : Status]
ASSUME NoUserIsNone == None \notin UserCopy
Views == Status \cup {"unheard", "out"}
Note == [type : {"NEW_USER", "NEW_STATUS", "DISCONNECTED", "PUBLIC_TEXT_FROM"},
         name : Names, status : Views]
Line == [req : Request, from : Conns]
Replies == Fatal \cup {"SUCCESS", "USER_LIST", "ROOM_USER_LIST", "NO_SUCH_USER",
                       "NO_SUCH_ROOM", "ROOM_ALREADY_EXISTS", "NOT_INVITED", "NOT_JOINED"}

Locals ==
  [req : Request \cup {None}, from : Conns \cup {None},
   me : UserCopy \cup {None}, to : UserCopy \cup {None},
   todo : Seq(Names), invited : Seq(UserCopy), isIn : BOOLEAN,
   list : SUBSET (Names \X Status),
   reply : Replies \cup {None}, note : Note \cup {None}, mx : Nat,
   failed : SUBSET UserCopy, dfd : Fds \cup {0},
   gone : UserCopy \cup {None}, victim : UserCopy \cup {None}]

Table(t) ==
  /\ Usernames(t) \subseteq Names
  /\ \A n \in Usernames(t) : t.byName[n].fd \in Fds /\ t.byName[n].status \in Status
  /\ DOMAIN t.byFd \subseteq Fds

\* The places a thread can be at, by handler.
Identifying == {"id_find_fd", "id_find_name", "id_add"}
ChangingStatus == {"st_find", "st_change", "st_rooms"}
Notifying == {"notify_size", "notify_each", "evict", "evict_rooms", "evict_user"}
Disconnecting == {"dc_find", "dc_rooms", "dc_users", "dc_close"}
CreatingRoom == {"nr_contains", "nr_add", "nr_find", "nr_creator"}
EnteringRoom == {"rm_contains", "rm_find", "rm_member"}
Inviting == {"iv_resolve", "iv_member", "iv_guest", "iv_add", "iv_send"}
Serving ==
  {"reply", "bad_json", "gate", "us_list", "tx_find_to", "tx_compare", "tx_find_from",
   "tx_send", "pt_find", "jn_guest", "jn_move", "ru_list", "room_notify", "lv_leave",
   "lv_drop"}
    \cup Identifying \cup ChangingStatus \cup Notifying \cup Disconnecting
    \cup CreatingRoom \cup EnteringRoom \cup Inviting
Places == {"off", "next", "blocked", "end", "stuck", "overrun"} \cup Serving

\* Every variable keeps the shape its C declaration gives it.
TypeOK ==
  /\ peer \in [Conns -> {"away", "here", "leaving", "gone"}]
  /\ sent \in [Conns -> Nat]
  /\ wire \in [Conns -> Seq(Request)]
  /\ fdt \in [Fds -> Conns \cup {None}]
  /\ pc \in [Conns -> Places]
  /\ fdOf \in [Conns -> Fds \cup {0}]
  /\ bound \in [Conns -> Conns \cup {None}]
  /\ buf \in [Conns -> Seq(Line)]
  /\ loc \in [Conns -> Locals]
  /\ Table(users)
  /\ \A r \in DOMAIN rooms : r \in Rooms /\ Table(rooms[r].members) /\ Table(rooms[r].guests)
  /\ roomsLock \in Conns \cup {None}
  /\ self \in [Conns -> Names \cup {None}]
  /\ seen \in [Conns -> [Names -> Views]]

(* What a thread at place p has in its locals l: nothing is used before it was
   copied out of a table, and no request reaches another type's handler.    *)
Holds(p, l) ==
  /\ p \in Serving => l.req \in Request /\ l.from \in Conns /\ l.dfd \in Fds
  /\ p \in Identifying => l.req.type = "IDENTIFY"
  /\ p \in ChangingStatus => l.req.type = "STATUS" /\ l.req.status \in Status
  /\ p \in CreatingRoom => l.req.type = "NEW_ROOM"
  /\ p \in EnteringRoom => l.req.type \in RoomRequests
  /\ p \in {"st_change", "st_rooms", "nr_creator", "rm_member", "jn_guest", "jn_move", "lv_leave"}
       => l.me \in UserCopy
  /\ p \in {"tx_compare", "tx_find_from", "tx_send"} => l.to \in UserCopy
  /\ p \in Inviting \ {"iv_resolve"} => l.invited # << >>
  /\ p \in Notifying => l.note \in Note
  /\ p \in Notifying /\ l.note.type = "DISCONNECTED" => l.gone \in UserCopy
  /\ p \in {"evict_rooms", "evict_user"} => l.victim \in UserCopy
  /\ p \in {"dc_rooms", "dc_users"} => l.gone \in UserCopy

LocalsReady ==
  \A c \in Conns : /\ Holds(pc[c], loc[c])
                   /\ pc[c] \notin {"off", "end"} => fdOf[c] \in Fds
                   /\ pc[c] = "blocked" => bound[c] \in Conns

-----------------------------------------------------------------------------
\* Safety.

(* No index by descriptor, of the users or of any room, points at a freed or a
   foreign user: users_table_find_by_client_fd and users_table_remove never
   follow a dangling pointer, whatever the threads, the descriptors and the
   failures do (users_table.c:40-41, 69-70, 179-180).                       *)
UsersCoherent == Coherent(users)
RoomsCoherent ==
  \A r \in DOMAIN rooms : Coherent(rooms[r].members) /\ Coherent(rooms[r].guests)
TablesCoherent == UsersCoherent /\ RoomsCoherent

(* One client is one user: no two names share a descriptor, although IDENTIFY
   looks up the descriptor, looks up the name and adds in three separate
   critical sections (message_handler.c:152, 160, 182).                     *)
OneNamePerClient == Agrees(users)

(* Once the server rests, every name in the users table belongs to an open
   socket, although a disconnected client's thread goes on with the lines it
   has and may register a name for the descriptor just closed.              *)
NoGhosts == Quiet => \A u \in UsersOf(users) : fdt[u.fd] # None

(* A handler acts in the name of the client that wrote the request, although
   all it knows of that client is a descriptor number.                      *)
ActsForItsClient ==
  \A c \in Conns : loc[c].me # None => loc[c].me.name = self[loc[c].from]

(* When process_text is about to write, the descriptor it copied out of the
   table earlier is still the addressee's, or closed: a private text never
   reaches somebody else.                                                   *)
TextReachesItsAddressee ==
  \A c \in Conns :
    pc[c] = "tx_send" /\ fdt[loc[c].to.fd] # None
      => self[fdt[loc[c].to.fd]] = loc[c].to.name

\* The array of notify_all_but_self keeps its guard: a broadcast never records
\* more failures than the size read before it (message_handler.c:61-62).
GuardSurvives == \A c \in Conns : pc[c] # "overrun"

(* Only a client that left, or broke the protocol, loses its name: a client
   that is there and sent nothing wrong stays in the users table whatever
   fails elsewhere.                                                         *)
BrokeProtocol(d) ==
  \E c \in Conns : /\ loc[c].from = d
                   /\ Req(c).type = "BAD_JSON" \/ loc[c].reply \in Fatal

GoodClientsStay ==
  [][\A u \in UsersOf(users) :
       ~ContainsName(users', u.name) /\ fdt[u.fd] # None
         => peer[fdt[u.fd]] # "here" \/ BrokeProtocol(fdt[u.fd])]_vars

(* Who is put out of the chat because a send failed is disconnected: once the
   server rests, a client that is there and once had a name has one, unless
   its socket was closed (message_handler.c:76-87).                         *)
EvictedAreDisconnected ==
  Quiet =>
    \A f \in Fds :
      fdt[f] # None /\ peer[fdt[f]] = "here" /\ self[fdt[f]] # None => ContainsFd(users, f)

-----------------------------------------------------------------------------
\* What clients know, once the server rests.

Listens(u) == fdt[u.fd] # None /\ peer[fdt[u.fd]] = "here"

(* The last notification a client got about a connected user tells that user's
   status: NEW_USER, NEW_STATUS and DISCONNECTED reach a client in an order
   that ends with the truth, although several threads send them.            *)
NotificationsAccurate ==
  Quiet =>
    \A u, v \in UsersOf(users) :
      Listens(u) /\ u # v /\ seen[fdt[u.fd]][v.name] # "unheard"
        => seen[fdt[u.fd]][v.name] = v.status

(* Of any two users one was told about the other, however their IDENTIFYs were
   interleaved: each is added before it is announced.                       *)
EveryPairIntroduced ==
  Quiet =>
    \A u, v \in UsersOf(users) :
      u # v /\ Listens(u) /\ Listens(v)
        => \/ seen[fdt[u.fd]][v.name] # "unheard"
           \/ seen[fdt[v.fd]][u.name] # "unheard"

-----------------------------------------------------------------------------
\* Rooms.

RoomUsers(r) == UsersOf(rooms[r].members) \cup UsersOf(rooms[r].guests)

(* Once the server rests, nobody is in a room who is not in the users table,
   under the same descriptor: a disconnected client's copies are gone from
   every room.                                                              *)
RoomsForgetTheGone ==
  Quiet =>
    \A r \in DOMAIN rooms : \A u \in RoomUsers(r) :
      ContainsName(users, u.name) /\ FindByName(users, u.name).fd = u.fd

\* Once the server rests, a room's copy of a user has the user's status.
RoomsKnowTheStatus ==
  Quiet =>
    \A r \in DOMAIN rooms : \A u \in RoomUsers(r) :
      ContainsName(users, u.name) => FindByName(users, u.name).status = u.status

\* Nobody is a guest and a member of the same room.
GuestOrMember ==
  \A r \in DOMAIN rooms :
    Usernames(rooms[r].members) \cap Usernames(rooms[r].guests) = {}

\* A client that is about to be told JOIN_ROOM SUCCESS is in the room.
JoinedMeansMember ==
  \A c \in Conns :
    pc[c] = "reply" /\ loc[c].reply = "SUCCESS" /\ Req(c).type = "JOIN_ROOM"
      => IsMember(Room(c), loc[c].me.fd)

\* NO_SUCH_ROOM is answered only if there is no room of that name, with the
\* name cut the way NEW_ROOM cuts it.
NoSuchRoomIsTrue ==
  \A c \in Conns :
    pc[c] = "reply" /\ loc[c].reply = "NO_SUCH_ROOM" => ~RoomExists(Clip16[Room(c)])

\* Rooms are private: a new member was a guest of that very room, or is the
\* client creating it.
EntersByInvitation(r, n) ==
  \/ r \in DOMAIN rooms /\ n \in Usernames(rooms[r].members) \cup Usernames(rooms[r].guests)
  \/ \E c \in Conns : pc[c] = "nr_creator" /\ Clip16[Room(c)] = r /\ loc[c].me.name = n

NobodyJoinsUninvited ==
  [][\A r \in DOMAIN rooms' :
       \A n \in Usernames(rooms'[r].members) : EntersByInvitation(r, n)]_vars

-----------------------------------------------------------------------------
\* Refinement: the chat as its users know it.

TheLobby == INSTANCE Lobby WITH online <- users.byName

(* Whatever the interleaving, the users table changes as if each client came in
   with a name nobody has, changed its own status and left, at one instant
   each.                                                                    *)
ServesTheLobby == TheLobby!LobbySpec

TheChat == INSTANCE Chat WITH
  online <- users.byName,
  room <- [r \in DOMAIN rooms |-> [members |-> Usernames(rooms[r].members),
                                    guests  |-> Usernames(rooms[r].guests)]]

(* With room requests served one at a time, every handler is one of the steps
   of Chat, or a few of them.                                               *)
ServesTheChat == TheChat!ChatSpec

-----------------------------------------------------------------------------
\* Progress.

\* A thread that serves a request comes back to its client or ends, unless it, or
\* a thread with a table's mutex, writes to a client that does not read.
HandlersReturn == \A c \in Conns : ~Resting(c) ~> Resting(c) \/ Waits(c)

\* The rooms mutex does not stay locked.
RoomsMutexIsReleased == roomsLock # None ~> roomsLock = None
=============================================================================
