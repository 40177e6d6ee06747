---------------------------- MODULE RoomsProofs -----------------------------
(***************************************************************************)
(* Rooms, in the executions that serve one request at a time: the copies in  *)
(* the rooms follow the users table, nobody is guest and member of a room or *)
(* joins it uninvited, and users and rooms together implement Chat.  For any *)
(* number of clients and rooms, with clients that vanish, sends that fail    *)
(* and numbers that are handed out again.  Nothing in the server makes its   *)
(* threads take turns, and nothing here speaks of requests that overlap.     *)
(***************************************************************************)
EXTENDS PresenceProofs

(* The hypothesis: a thread that serves a request is the only one that does.
   It restricts what clients do and when, and no step of the server.        *)
OneAtATime == \A c, d \in Conns : pc[c] \in Serving /\ pc[d] \in Serving => c = d

-----------------------------------------------------------------------------
\* A room's tables against the users table.

\* u is a copy of what table w has under its name.
Known(w, u) ==
  /\ u.name \in Usernames(w)
  /\ w.byName[u.name].fd = u.fd /\ w.byName[u.name].status = u.status

\* Table t has copies of users of w; the statuses may lag behind.
CopyOf(t, w) ==
  /\ Agrees(t)
  /\ \A n \in Usernames(t) : n \in Usernames(w) /\ t.byName[n].fd = w.byName[n].fd

\* They do not, but for the names in N.
UpToDate(t, w, N) == \A n \in Usernames(t) \ N : t.byName[n].status = w.byName[n].status

\* A copy of a user is found by its descriptor if and only if by its name.
LEMMA FoundEitherWay ==
  ASSUME NEW t, NEW w, NEW u, CopyOf(t, w), Agrees(w), Known(w, u)
  PROVE  ContainsFd(t, u.fd) <=> u.name \in Usernames(t)
<1>1. ASSUME u.name \in Usernames(t) PROVE ContainsFd(t, u.fd)
  BY <1>1 DEF CopyOf, Agrees, Known
<1>2. ASSUME ContainsFd(t, u.fd) PROVE u.name \in Usernames(t)
  <2> DEFINE m == t.byFd[u.fd]
  <2>1. m \in Usernames(t) /\ t.byName[m].fd = u.fd
    BY <1>2 DEF CopyOf, Agrees, Coherent, ContainsFd
  <2>2. m \in Usernames(w) /\ w.byName[m].fd = u.fd
    BY <2>1 DEF CopyOf
  <2>3. m = u.name
    BY <2>2 DEF Agrees, Known
  <2> QED BY <2>1, <2>3
<1> QED BY <1>1, <1>2

\* A lookup by descriptor yields a copy with that descriptor.
LEMMA LookupKnows ==
  ASSUME NEW w, Agrees(w), NEW fd, ContainsFd(w, fd)
  PROVE  Known(w, FindByFd(w, fd)) /\ FindByFd(w, fd).fd = fd
  BY DEF Agrees, Coherent, ContainsFd, FindByFd, FindByName, Known

\* Adding a user of w to a table of copies, or removing one by name.
LEMMA CopyGrows ==
  ASSUME NEW t, NEW w, CopyOf(t, w), Agrees(w), NEW u, Known(w, u)
  PROVE  /\ CopyOf(AddUser(t, u.name, u.fd, u.status), w)
         /\ \A N : UpToDate(t, w, N) => UpToDate(AddUser(t, u.name, u.fd, u.status), w, N)
<1>1. CASE u.name \in Usernames(t)
  BY <1>1 DEF AddUser, ContainsName, Usernames
<1>2. CASE u.name \notin Usernames(t)
  <2> DEFINE s == AddUser(t, u.name, u.fd, u.status)
  <2>1. Agrees(s)
    BY <1>2, FoundEitherWay, AddUserAgrees DEF CopyOf, ContainsName, Usernames
  <2>2. /\ Usernames(s) = Usernames(t) \cup {u.name}
        /\ \A m \in Usernames(t) : s.byName[m] = t.byName[m]
        /\ s.byName[u.name] = [fd |-> u.fd, status |-> u.status]
    BY <1>2, AddUserEntries
  <2> HIDE DEF s
  <2>3. CopyOf(s, w)
    BY <2>1, <2>2 DEF CopyOf, Known
  <2>4. ASSUME NEW N, UpToDate(t, w, N) PROVE UpToDate(s, w, N)
    BY <2>2, <2>4 DEF UpToDate, Known
  <2> QED BY <2>3, <2>4 DEF s
<1> QED BY <1>1, <1>2

LEMMA CopyShrinks ==
  ASSUME NEW t, NEW w, CopyOf(t, w), NEW n
  PROVE  /\ CopyOf(RemoveUser(t, n), w)
         /\ \A N : UpToDate(t, w, N) => UpToDate(RemoveUser(t, n), w, N)
<1> DEFINE s == RemoveUser(t, n)
<1>1. Agrees(s)
  BY RemoveUserAgrees DEF CopyOf
<1>2. /\ Usernames(s) = Usernames(t) \ {n}
      /\ \A m \in Usernames(s) : s.byName[m] = t.byName[m]
  BY RemoveUserEntries
<1> HIDE DEF s
<1>3. CopyOf(s, w)
  BY <1>1, <1>2 DEF CopyOf
<1>4. ASSUME NEW N, UpToDate(t, w, N) PROVE UpToDate(s, w, N)
  BY <1>2, <1>4 DEF UpToDate
<1> QED BY <1>3, <1>4 DEF s

\* A newcomer to w, one who leaves it and has no copy in t, and a new status in
\* w leave t a table of copies.
LEMMA OriginalGrows ==
  ASSUME NEW t, NEW w, CopyOf(t, w), NEW n, NEW fd, NEW status, n \notin Usernames(w)
  PROVE  /\ CopyOf(t, AddUser(w, n, fd, status))
         /\ \A N : UpToDate(t, w, N) => UpToDate(t, AddUser(w, n, fd, status), N)
<1> DEFINE v == AddUser(w, n, fd, status)
<1>1. /\ Usernames(v) = Usernames(w) \cup {n}
      /\ \A m \in Usernames(w) : v.byName[m] = w.byName[m]
      /\ n \notin Usernames(w) => v.byName[n] = [fd |-> fd, status |-> status]
  BY AddUserEntries
<1> HIDE DEF v
<1>2. CopyOf(t, v)
  BY <1>1 DEF CopyOf
<1>3. ASSUME NEW N, UpToDate(t, w, N) PROVE UpToDate(t, v, N)
  BY <1>1, <1>3 DEF UpToDate, CopyOf
<1> QED BY <1>2, <1>3 DEF v

LEMMA OriginalShrinks ==
  ASSUME NEW t, NEW w, CopyOf(t, w), NEW n, n \notin Usernames(t)
  PROVE  /\ CopyOf(t, RemoveUser(w, n))
         /\ \A N : UpToDate(t, w, N) => UpToDate(t, RemoveUser(w, n), N)
<1> DEFINE v == RemoveUser(w, n)
<1>1. /\ Usernames(v) = Usernames(w) \ {n}
      /\ \A m \in Usernames(w) \ {n} : v.byName[m] = w.byName[m]
  BY RemoveUserEntries, Zenon
<1> HIDE DEF v
<1>2. CopyOf(t, v)
  BY <1>1 DEF CopyOf
<1>3. ASSUME NEW N, UpToDate(t, w, N) PROVE UpToDate(t, v, N)
  BY <1>1, <1>3 DEF UpToDate, CopyOf
<1> QED BY <1>2, <1>3 DEF v

LEMMA OriginalChanges ==
  ASSUME NEW t, NEW w, CopyOf(t, w), Agrees(w), NEW u, Known(w, u), NEW status
  PROVE  /\ CopyOf(t, ChangeStatusByFd(w, u.fd, status))
         /\ UpToDate(t, w, {}) => UpToDate(t, ChangeStatusByFd(w, u.fd, status), {u.name})
         /\ Known(ChangeStatusByFd(w, u.fd, status), [u EXCEPT !.status = status])
<1> DEFINE v == ChangeStatusByFd(w, u.fd, status)
<1>1. ContainsFd(w, u.fd) /\ w.byFd[u.fd] = u.name
  BY DEF Agrees, Known
<1>2. /\ Usernames(v) = Usernames(w)
      /\ \A m \in Usernames(w) : v.byName[m].fd = w.byName[m].fd
      /\ \A m \in Usernames(w) \ {u.name} : v.byName[m].status = w.byName[m].status
      /\ v.byName[u.name].status = status
  BY <1>1, ChangeStatusEntries DEF Known
<1> HIDE DEF v
<1>3. CopyOf(t, v)
  BY <1>2 DEF CopyOf
<1>4. ASSUME UpToDate(t, w, {}) PROVE UpToDate(t, v, {u.name})
  BY <1>2, <1>4 DEF UpToDate, CopyOf
<1> QED BY <1>2, <1>3, <1>4 DEF v, Known

\* A copy is told the new status of its original.
LEMMA CopyChanges ==
  ASSUME NEW t, NEW w, CopyOf(t, w), Agrees(w), NEW u, Known(w, u),
         UpToDate(t, w, {u.name})
  PROVE  /\ CopyOf(ChangeStatusByFd(t, u.fd, u.status), w)
         /\ UpToDate(ChangeStatusByFd(t, u.fd, u.status), w, {})
<1> DEFINE s == ChangeStatusByFd(t, u.fd, u.status)
<1>1. Agrees(s)
  BY ChangeStatusAgrees DEF CopyOf
<1>2. ContainsFd(t, u.fd) => t.byFd[u.fd] = u.name
  BY FoundEitherWay DEF CopyOf, Agrees, Known
<1>3. u.name \in Usernames(t) => ContainsFd(t, u.fd)
  BY FoundEitherWay
<1>4. /\ Usernames(s) = Usernames(t)
      /\ \A m \in Usernames(t) : s.byName[m].fd = t.byName[m].fd
      /\ \A m \in Usernames(t) \ {u.name} : s.byName[m].status = t.byName[m].status
      /\ u.name \in Usernames(t) => s.byName[u.name].status = u.status
  BY <1>2, <1>3, ChangeStatusEntries
<1> HIDE DEF s
<1>5. CopyOf(s, w)
  BY <1>1, <1>4 DEF CopyOf
<1>6. UpToDate(s, w, {})
  BY <1>4 DEF UpToDate, Known
<1> QED BY <1>5, <1>6 DEF s

-----------------------------------------------------------------------------
\* The invariant.

\* The rooms' tables, and a room whose copies are in order.
TablesOf(room) == {room.members, room.guests}
Ordered(room, w) ==
  /\ \A t \in TablesOf(room) : CopyOf(t, w)
  /\ Usernames(room.members) \cap Usernames(room.guests) = {}

\* The users whose new status is on its way to the rooms.
Changing == {loc[c].me.name : c \in {d \in Conns : pc[d] = "st_rooms"}}

\* All rooms are in order for users w, up to the statuses of the names in N.
Orderly(rms, w, N) ==
  /\ Agrees(w)
  /\ \A r \in DOMAIN rms :
       Ordered(rms[r], w) /\ \A t \in TablesOf(rms[r]) : UpToDate(t, w, N)
RoomsInOrder == Orderly(rooms, users, Changing)

\* Name n is in no room, or in room r as a member or as a guest.
Absent(n) == \A r \in DOMAIN rooms : \A t \in TablesOf(rooms[r]) : n \notin Usernames(t)
MemberOf(r, n) == RoomExists(r) /\ n \in Usernames(rooms[r].members)
GuestOf(r, n) == RoomExists(r) /\ n \in Usernames(rooms[r].guests)

\* What a thread at place p has learnt from the tables still holds.
Informed(p, l, f) ==
  /\ p \in {"id_find_name", "id_add"} => ~ContainsFd(users, f)
  /\ p = "st_change" => Known(users, l.me) /\ l.me.fd = f
  /\ p = "st_rooms" => Known(users, [l.me EXCEPT !.status = l.req.status])
  /\ p \in {"nr_find", "nr_creator"} =>
       LET r == Clip16[l.req.roomname] IN
       RoomExists(r) /\ \A t \in TablesOf(rooms[r]) : Usernames(t) = {}
  /\ p \in {"nr_creator", "rm_member", "jn_guest", "jn_move", "lv_leave"} => Known(users, l.me)
  /\ p \in Inviting =>
       /\ RoomExists(l.req.roomname) /\ Usernames(rooms[l.req.roomname].members) # {}
       /\ \A i \in DOMAIN l.invited : Known(users, l.invited[i])
  /\ p = "iv_guest" => l.isIn \/ ~MemberOf(l.req.roomname, Head(l.invited).name)
  /\ p = "iv_add" => /\ ~MemberOf(l.req.roomname, Head(l.invited).name)
                     /\ ~GuestOf(l.req.roomname, Head(l.invited).name)
  /\ p = "jn_move" => GuestOf(l.req.roomname, l.me.name)
  /\ p = "lv_leave" => MemberOf(l.req.roomname, l.me.name)
  /\ p = "lv_drop" => RoomExists(l.req.roomname) /\ Usernames(rooms[l.req.roomname].members) = {}
  /\ p = "reply" /\ l.reply = "SUCCESS" /\ l.req.type = "JOIN_ROOM"
       => IsMember(l.req.roomname, l.me.fd)
  /\ p = "evict_user" => Absent(l.victim.name)
  /\ p = "dc_users" => Absent(l.gone.name)

(* The inductive invariant, for as long as requests are served one at a time. *)
RoomsInv == RoomsInOrder /\ \A c \in Conns : Informed(pc[c], loc[c], fdOf[c])

-----------------------------------------------------------------------------
\* What holds before a thread starts, and before it knows its room, in all
\* executions: nobody has been served, nobody has been invited.
Beforehand ==
  \A c \in Conns : /\ peer[c] = "away" => pc[c] = "off"
                   /\ pc[c] \in {"gate"} \cup EnteringRoom => loc[c].invited = << >>

\* A thread gets there in four ways.
LEMMA WhoEnters ==
  ASSUME IInv, NEW c \in Conns, Thread(c), pc'[c] \in {"gate"} \cup EnteringRoom
  PROVE  Extract(c) \/ GateOpens(c) \/ RoomContains(c) \/ RoomFindSender(c)
<1>1. pc \in [Conns -> Places]
  BY DEF IInv, TypeOK
<1>2. \A q : Goto(c, q) => pc'[c] = q
  BY <1>1 DEF Goto
<1> USE DEF Done, Reply, Broadcast, Disconnect, EnteringRoom
<1>3. CASE ConnectionStep(c)
  BY <1>1, <1>2, <1>3 DEF ConnectionStep, RecvCall, RecvReturns, RecvEnds, BadJson, GateCloses,
       ReplyFatal, ReplyFails, ReplySent, NotifySize, NotifyEach, EvictNext, EvictFromRooms,
       EvictFromUsers, EvictDone, DisconnectFind, DisconnectFromRooms, DisconnectFromUsers,
       DisconnectClose
<1>4. CASE HandlerStep(c)
  BY <1>2, <1>4 DEF HandlerStep, IdentifyFindFd, IdentifyFindName, IdentifyAdd, StatusFind,
       StatusChange, StatusChangeInRooms, UsersList, TextFindAddressee, TextCompare,
       TextFindSender, TextSend, PublicTextFindSender
<1>5. CASE RoomMember(c)
  <2>1. Req(c).type \in RoomRequests
    BY <1>5, ThreadFacts, HoldsAt DEF RoomMember, Req, Holds
  <2> QED BY <1>2, <1>5, <2>1 DEF RoomMember, RoomRequests
<1>6. CASE RoomStep(c) /\ ~RoomMember(c)
  BY <1>2, <1>6 DEF RoomStep, NewRoomContains, NewRoomAdd, NewRoomFindCreator, NewRoomAddCreator,
       InviteResolve, InviteIsMember, InviteIsGuest, InviteAdd, InviteSend, JoinIsGuest, JoinMove,
       RoomUsersList, RoomNotify, LeaveRoom, LeaveDropRoom
<1> QED BY <1>3, <1>4, <1>5, <1>6 DEF Thread

LEMMA BeforehandKept == IInv /\ Beforehand /\ [Next]_vars => Beforehand'
<1> SUFFICES ASSUME IInv, Beforehand, [Next]_vars PROVE Beforehand'
  OBVIOUS
<1>0. /\ pc \in [Conns -> Places] /\ loc \in [Conns -> Locals]
      /\ peer \in [Conns -> {"away", "here", "leaving", "gone"}]
  BY DEF IInv, TypeOK
<1>1. ASSUME NEW c \in Conns, ClientStep(c) PROVE Beforehand'
  <2>1. CASE Submit(c) \/ Vanish(c)
    BY <1>0, <2>1 DEF Submit, Vanish, Beforehand
  <2>2. CASE Accept(c)
    BY <1>0, <2>2 DEF Accept, Goto, Beforehand, EnteringRoom
  <2> QED BY <1>1, <2>1, <2>2 DEF ClientStep
<1>2. ASSUME NEW c \in Conns, Thread(c) PROVE Beforehand'
  <2>1. pc[c] \notin {"off", "end"} /\ peer' = peer
    BY <1>2, ThreadsAreOn
  <2>2. ASSUME NEW d \in Conns, d # c PROVE pc'[d] = pc[d] /\ loc'[d] = loc[d]
    BY <1>2, <2>2, OthersStandStill
  <2>3. ASSUME pc'[c] \in {"gate"} \cup EnteringRoom PROVE loc'[c].invited = << >>
    <3>1. CASE Extract(c)
      BY <1>0, <2>3, <3>1 DEF Extract, Fresh
    <3>2. CASE GateOpens(c)
      BY <1>0, <2>3, <3>2 DEF GateOpens, Goto, Done, Reply, Fresh, Beforehand, EnteringRoom
    <3>3. CASE RoomContains(c) \/ RoomFindSender(c)
      BY <1>0, <2>3, <3>3 DEF RoomContains, RoomFindSender, Goto, Reply, Beforehand, EnteringRoom, Locals
    <3> QED BY <1>2, <2>3, <3>1, <3>2, <3>3, WhoEnters
  <2> QED BY <2>1, <2>2, <2>3 DEF Beforehand
<1>3. CASE UNCHANGED vars
  BY <1>3 DEF vars, sockVars, Beforehand
<1> QED BY <1>1, <1>2, <1>3 DEF Next, Idling

-----------------------------------------------------------------------------
\* What steps do to the rooms.

\* A single thread at work, and not at the rooms' statuses, finds them up to date.
LEMMA OrderlyNow ==
  ASSUME OneAtATime, RoomsInOrder, NEW c \in Conns, pc[c] \in Serving \ {"st_rooms"}
  PROVE  Orderly(rooms, users, {})
<1>1. Changing = {}
  BY DEF Changing, OneAtATime, Serving, ChangingStatus
<1> QED BY <1>1 DEF RoomsInOrder

LEMMA OrderlyThen ==
  ASSUME Orderly(rooms', users', {})
  PROVE  RoomsInOrder'
  BY DEF RoomsInOrder, Orderly, UpToDate

\* A step of another thread, or one that leaves the tables alone.
LEMMA StaysOrderly ==
  ASSUME IInv, RoomsInOrder, users' = users, rooms' = rooms,
         \A d \in Conns : pc[d] = "st_rooms" => pc'[d] = "st_rooms" /\ loc'[d] = loc[d]
  PROVE  RoomsInOrder'
<1>1. Changing \subseteq Changing'
  BY DEF Changing
<1>2. \A t : UpToDate(t, users, Changing) => UpToDate(t, users, Changing')
  BY <1>1 DEF UpToDate
<1> QED BY <1>2 DEF RoomsInOrder, Orderly

\* Somebody comes in, ...
LEMMA UsersGrow ==
  ASSUME Orderly(rooms, users, {}), NEW n, NEW fd, NEW status,
         n \notin Usernames(users), ~ContainsFd(users, fd),
         users' = AddUser(users, n, fd, status), rooms' = rooms
  PROVE  Orderly(rooms', users', {})
<1>1. Agrees(users')
  BY AddUserAgrees DEF Orderly, ContainsName, Usernames
<1>2. ASSUME NEW t, CopyOf(t, users), UpToDate(t, users, {})
      PROVE  CopyOf(t, users') /\ UpToDate(t, users', {})
  BY <1>2, OriginalGrows
<1> QED BY <1>1, <1>2 DEF Orderly, Ordered

\* ... somebody who is in no room leaves, ...
LEMMA UsersShrink ==
  ASSUME Orderly(rooms, users, {}), NEW n, Absent(n),
         users' = RemoveUser(users, n), rooms' = rooms
  PROVE  Orderly(rooms', users', {})
<1>1. Agrees(users')
  BY RemoveUserAgrees DEF Orderly
<1>2. ASSUME NEW t, n \notin Usernames(t), CopyOf(t, users), UpToDate(t, users, {})
      PROVE  CopyOf(t, users') /\ UpToDate(t, users', {})
  BY <1>2, OriginalShrinks
<1> QED BY <1>1, <1>2 DEF Orderly, Ordered, Absent

\* ... a name goes out of all rooms, ...
LEMMA RoomsShrink ==
  ASSUME Orderly(rooms, users, {}), NEW n, RemoveFromRooms(n), users' = users
  PROVE  Orderly(rooms', users', {}) /\ Absent(n)'
<1>1. ASSUME NEW r \in DOMAIN rooms'
      PROVE  /\ Ordered(rooms'[r], users) /\ \A t \in TablesOf(rooms'[r]) : UpToDate(t, users, {})
             /\ \A t \in TablesOf(rooms'[r]) : n \notin Usernames(t)
  <2> DEFINE m == rooms[r].members
  <2> DEFINE g == rooms[r].guests
  <2>1. /\ r \in DOMAIN rooms
        /\ rooms'[r] = [members |-> RemoveUser(m, n), guests |-> RemoveUser(g, n)]
    BY <1>1 DEF RemoveFromRooms
  <2>2. /\ CopyOf(m, users) /\ UpToDate(m, users, {}) /\ CopyOf(g, users) /\ UpToDate(g, users, {})
        /\ Usernames(m) \cap Usernames(g) = {}
    BY <2>1 DEF Orderly, Ordered, TablesOf
  <2>3. /\ CopyOf(RemoveUser(m, n), users) /\ UpToDate(RemoveUser(m, n), users, {})
        /\ CopyOf(RemoveUser(g, n), users) /\ UpToDate(RemoveUser(g, n), users, {})
    BY <2>2, CopyShrinks
  <2>4. /\ Usernames(RemoveUser(m, n)) = Usernames(m) \ {n}
        /\ Usernames(RemoveUser(g, n)) = Usernames(g) \ {n}
    BY RemoveUserEntries
  <2> HIDE DEF m, g
  <2> QED BY <2>1, <2>2, <2>3, <2>4 DEF Ordered, TablesOf
<1> QED BY <1>1 DEF Orderly, Absent

\* ... one room changes, ...
LEMMA OneRoomChanges ==
  ASSUME Orderly(rooms, users, {}), NEW r, NEW room, WithRoom(r, room), users' = users,
         RoomExists(r) => /\ Ordered(room, users)
                          /\ \A t \in TablesOf(room) : UpToDate(t, users, {})
  PROVE  Orderly(rooms', users', {})
<1>1. ASSUME NEW q \in DOMAIN rooms'
      PROVE  Ordered(rooms'[q], users) /\ \A t \in TablesOf(rooms'[q]) : UpToDate(t, users, {})
  <2>1. CASE ~RoomExists(r)
    BY <1>1, <2>1 DEF WithRoom, Orderly
  <2>2. CASE RoomExists(r)
    <3>1. rooms' = [rooms EXCEPT ![r] = room]
      BY <2>2 DEF WithRoom
    <3>2. q \in DOMAIN rooms /\ (q = r => rooms'[q] = room) /\ (q # r => rooms'[q] = rooms[q])
      BY <1>1, <3>1
    <3>3. CASE q = r
      BY <2>2, <3>2, <3>3
    <3>4. CASE q # r
      BY <3>2, <3>4 DEF Orderly
    <3> QED BY <3>3, <3>4
  <2> QED BY <2>1, <2>2
<1> QED BY <1>1 DEF Orderly

\* ... or a room opens or closes.
LEMMA RoomOpens ==
  ASSUME Orderly(rooms, users, {}), NEW r, AddRoom(r), users' = users
  PROVE  Orderly(rooms', users', {})
<1>1. Agrees(EmptyTable) /\ Usernames(EmptyTable) = {}
  BY DEF EmptyTable, Agrees, Coherent, Usernames
<1>2. ASSUME NEW q \in DOMAIN rooms'
      PROVE  Ordered(rooms'[q], users) /\ \A t \in TablesOf(rooms'[q]) : UpToDate(t, users, {})
  <2>1. CASE q = r
    <3>1. rooms'[q] = [members |-> EmptyTable, guests |-> EmptyTable]
      BY <1>2, <2>1 DEF AddRoom
    <3> QED BY <1>1, <3>1 DEF Ordered, TablesOf, CopyOf, UpToDate
  <2>2. CASE q # r
    <3>1. q \in DOMAIN rooms /\ rooms'[q] = rooms[q]
      BY <1>2, <2>2 DEF AddRoom
    <3> QED BY <3>1 DEF Orderly
  <2> QED BY <2>1, <2>2
<1> QED BY <1>2 DEF Orderly

LEMMA RoomCloses ==
  ASSUME Orderly(rooms, users, {}), NEW r, DropRoom(r), users' = users
  PROVE  Orderly(rooms', users', {})
  BY DEF Orderly, DropRoom

-----------------------------------------------------------------------------
\* What the threads have learnt.

\* The places where a thread goes on from something it has learnt.
Learned ==
  {"id_find_name", "id_add", "st_change", "st_rooms", "nr_find", "nr_creator", "rm_member",
   "jn_guest", "jn_move", "lv_leave", "lv_drop", "evict_user", "dc_users"} \cup Inviting

\* No client is about to be told that it has joined a room.
TellsNoJoin(p, l) == p = "reply" => l.reply # "SUCCESS" \/ l.req.type # "JOIN_ROOM"

LEMMA KnowsNothing ==
  ASSUME NEW c \in Conns, pc'[c] \notin Learned, TellsNoJoin(pc'[c], loc'[c])
  PROVE  Informed(pc[c], loc[c], fdOf[c])'
  BY DEF Informed, Learned, Inviting, TellsNoJoin

\* The step of the one thread that serves.
LEMMA Serves ==
  ASSUME IInv, OneAtATime, NEW c \in Conns, pc[c] \in Serving, NEW q, Goto(c, q),
         RoomsInOrder', Informed(pc[c], loc[c], fdOf[c])'
  PROVE  RoomsInv'
<1>1. ASSUME NEW d \in Conns PROVE Informed(pc[d], loc[d], fdOf[d])'
  <2>1. CASE d = c
    BY <2>1
  <2>2. CASE d # c
    <3>1. pc[d] \notin Serving
      BY <2>2 DEF OneAtATime
    <3>2. pc'[d] = pc[d]
      BY <2>2 DEF IInv, TypeOK, Goto
    <3>3. pc'[d] \notin Learned /\ pc'[d] # "reply"
      BY <3>1, <3>2 DEF Learned, Serving, Identifying, ChangingStatus, Notifying,
         Disconnecting, CreatingRoom, EnteringRoom, Inviting
    <3> QED BY <3>3, KnowsNothing DEF TellsNoJoin
  <2> QED BY <2>1, <2>2
<1> QED BY <1>1 DEF RoomsInv

\* Such a step that leaves the tables alone, ...
LEMMA ServesQuietly ==
  ASSUME IInv, OneAtATime, RoomsInv, NEW c \in Conns, pc[c] \in Serving \ {"st_rooms"},
         NEW q, Goto(c, q), NEW l, loc' = [loc EXCEPT ![c] = l], users' = users, rooms' = rooms,
         Informed(pc[c], loc[c], fdOf[c])'
  PROVE  RoomsInv'
<1>1. \A d \in Conns : pc[d] = "st_rooms" => pc'[d] = "st_rooms" /\ loc'[d] = loc[d]
  BY DEF Goto, IInv, TypeOK
<1>2. RoomsInOrder'
  BY <1>1, StaysOrderly DEF RoomsInv
<1> QED BY <1>2, Serves

\* ... and goes on from nothing it has learnt.
LEMMA ServesPlainly ==
  ASSUME IInv, OneAtATime, RoomsInv, NEW c \in Conns, pc[c] \in Serving \ {"st_rooms"},
         NEW q, Goto(c, q), q \notin Learned,
         NEW l, loc' = [loc EXCEPT ![c] = l], TellsNoJoin(q, l), users' = users, rooms' = rooms
  PROVE  RoomsInv'
<1>1. pc'[c] = q /\ loc'[c] = l
  BY DEF Goto, IInv, TypeOK
<1>2. Informed(pc[c], loc[c], fdOf[c])'
  BY <1>1, KnowsNothing
<1> QED BY <1>2, ServesQuietly

\* A handler that is done, or that sends a reply but that of a JOIN_ROOM.
LEMMA DoneInOrder ==
  ASSUME IInv, OneAtATime, RoomsInv, NEW c \in Conns, pc[c] \in Serving \ {"st_rooms"},
         Done(c), users' = users, rooms' = rooms
  PROVE  RoomsInv'
<1>1. "next" \notin Learned /\ TellsNoJoin("next", Fresh)
  BY DEF Learned, Inviting, TellsNoJoin
<1> QED BY <1>1, ServesPlainly DEF Done

LEMMA ReplyInOrder ==
  ASSUME IInv, OneAtATime, RoomsInv, NEW c \in Conns, pc[c] \in Serving \ {"st_rooms"},
         NEW x, x # "SUCCESS", Reply(c, x), users' = users, rooms' = rooms
  PROVE  RoomsInv'
<1> DEFINE l == [loc[c] EXCEPT !.reply = x]
<1>1. loc' = [loc EXCEPT ![c] = l] /\ Goto(c, "reply")
  BY DEF Reply
<1>2. TellsNoJoin("reply", l)
  BY ThreadFacts DEF TellsNoJoin, Locals, Serving
<1>3. "reply" \notin Learned
  BY DEF Learned, Inviting
<1> QED BY <1>1, <1>2, <1>3, ServesPlainly

\* A handler that goes on from nothing it has learnt.
LEMMA GoesInOrder ==
  ASSUME IInv, OneAtATime, RoomsInv, NEW c \in Conns, pc[c] \in Serving \ {"st_rooms"},
         NEW q, q \notin Learned \cup {"reply"}, Goto(c, q), NEW l, loc' = [loc EXCEPT ![c] = l],
         users' = users, rooms' = rooms
  PROVE  RoomsInv'
<1>1. TellsNoJoin(q, l) /\ q \notin Learned
  BY DEF TellsNoJoin
<1> QED BY <1>1, ServesPlainly

\* The step of a thread that serves nothing, or of a client.
LEMMA Idles ==
  ASSUME IInv, RoomsInv, users' = users, rooms' = rooms,
         \A d \in Conns :
           \/ pc'[d] = pc[d] /\ loc'[d] = loc[d] /\ fdOf'[d] = fdOf[d]
           \/ pc[d] # "st_rooms" /\ pc'[d] \notin Learned /\ TellsNoJoin(pc'[d], loc'[d])
  PROVE  RoomsInv'
<1>1. RoomsInOrder'
  BY StaysOrderly DEF RoomsInv
<1>2. ASSUME NEW d \in Conns PROVE Informed(pc[d], loc[d], fdOf[d])'
  <2>1. CASE pc'[d] = pc[d] /\ loc'[d] = loc[d] /\ fdOf'[d] = fdOf[d]
    BY <2>1, SMTT(30) DEF RoomsInv, Informed, MemberOf, GuestOf, Absent, RoomExists, IsMember
  <2>2. CASE pc'[d] \notin Learned /\ TellsNoJoin(pc'[d], loc'[d])
    BY <2>2, KnowsNothing
  <2> QED BY <2>1, <2>2
<1> QED BY <1>1, <1>2 DEF RoomsInv

-----------------------------------------------------------------------------
\* The receive loop, the replies, the broadcasts and the disconnections.

\* Where the dispatcher and the extraction loop start knows nothing yet.
LEMMA StartsKnowNothing ==
  /\ \A req : HandlerOf(req) \notin Learned
  /\ \A req : Entry(req) \notin Learned
  BY DEF HandlerOf, Entry, Learned, Inviting

\* A thread that receives serves nobody, and starts from nothing.
LEMMA ReceivingInOrder ==
  ASSUME IInv, RoomsInv, NEW c \in Conns,
         RecvCall(c) \/ RecvReturns(c) \/ RecvEnds(c) \/ Extract(c)
  PROVE  RoomsInv'
<1>1. users' = users /\ rooms' = rooms /\ fdOf' = fdOf
  BY DEF RecvCall, RecvReturns, RecvEnds, Extract, tabVars
<1>2. pc[c] # "st_rooms"
  BY DEF RecvCall, RecvReturns, RecvEnds, Extract
<1>3. \A d \in Conns \ {c} : pc'[d] = pc[d] /\ loc'[d] = loc[d]
  BY DEF RecvCall, RecvReturns, RecvEnds, Extract, Goto, IInv, TypeOK
<1>4. pc'[c] \notin Learned /\ TellsNoJoin(pc'[c], loc'[c])
  <2>1. CASE ~Extract(c)
    <3>1. pc'[c] \in {"end", "blocked", "next"}
      BY <2>1 DEF RecvCall, RecvReturns, RecvEnds, Goto, IInv, TypeOK
    <3> QED BY <3>1 DEF Learned, Inviting, TellsNoJoin
  <2>2. CASE Extract(c)
    <3> DEFINE req == Head(buf[c]).req
    <3>1. /\ pc'[c] = Entry(req)
          /\ Entry(req) = "reply" => loc'[c].reply = "INVALID"
      BY <2>2 DEF Extract, Goto, IInv, TypeOK, Fresh
    <3> QED BY <3>1, StartsKnowNothing DEF TellsNoJoin
  <2> QED BY <2>1, <2>2
<1> QED BY <1>1, <1>2, <1>3, <1>4, Idles

\* The dispatcher, the replies and the broadcasts leave the tables alone.
LEMMA TalkingInOrder ==
  ASSUME IInv, OneAtATime, RoomsInv, NEW c \in Conns,
         \/ BadJson(c) \/ GateOpens(c) \/ GateCloses(c)
         \/ ReplyFatal(c) \/ ReplyFails(c) \/ ReplySent(c)
         \/ NotifySize(c) \/ NotifyEach(c) \/ EvictNext(c) \/ EvictDone(c)
         \/ DisconnectFind(c) \/ DisconnectClose(c)
  PROVE  RoomsInv'
<1> USE DEF OnlyThread, OnlyThreadAndSeen, tabVars
<1>0. loc = [loc EXCEPT ![c] = loc[c]]
  BY DEF IInv, TypeOK
<1>1. \A q \in {"bad_json", "dc_find", "dc_close", "dc_rooms", "notify_size", "notify_each",
                "evict", "evict_rooms", "room_notify", "overrun", "next", "end"} :
        q \notin Learned \cup {"reply"}
  BY DEF Learned, Inviting
<1>2. pc[c] \in {"bad_json", "gate", "reply", "notify_size", "notify_each", "evict", "dc_find", "dc_close"}
        => pc[c] \in Serving \ {"st_rooms"}
  BY DEF Serving, Notifying, Disconnecting
<1> DEFINE Goes == \E q \in {"bad_json", "dc_find", "dc_close", "dc_rooms", "notify_size", "notify_each",
                "evict", "evict_rooms", "room_notify", "overrun", "next", "end"} :
                     Goto(c, q) /\ \E l : loc' = [loc EXCEPT ![c] = l]
<1>3. ASSUME pc[c] \in Serving \ {"st_rooms"}, Goes, users' = users, rooms' = rooms PROVE RoomsInv'
  BY <1>1, <1>3, GoesInOrder
<1>4. CASE BadJson(c)
  BY <1>0, <1>2, <1>3, <1>4 DEF BadJson
<1>5. CASE GateOpens(c)
  <2> DEFINE q == HandlerOf(Req(c))
  <2>1. pc[c] \in Serving \ {"st_rooms"} /\ users' = users /\ rooms' = rooms
    BY <1>2, <1>5 DEF GateOpens
  <2>2. CASE q = "next"
    BY <1>5, <2>1, <2>2, DoneInOrder DEF GateOpens
  <2>3. CASE q = "reply"
    BY <1>5, <2>1, <2>3, ReplyInOrder DEF GateOpens
  <2>4. CASE q # "next" /\ q # "reply"
    <3>1. Goto(c, q) /\ loc' = loc
      BY <1>5, <2>4 DEF GateOpens
    <3>2. q \notin Learned \cup {"reply"}
      BY <2>4, StartsKnowNothing
    <3> HIDE DEF q
    <3> QED BY <1>0, <2>1, <3>1, <3>2, GoesInOrder
  <2> QED BY <2>2, <2>3, <2>4
<1>6. CASE GateCloses(c)
  BY <1>2, <1>6, ReplyInOrder DEF GateCloses
<1>7. CASE ReplyFatal(c)
  BY <1>0, <1>2, <1>3, <1>7 DEF ReplyFatal, Disconnect
<1>8. CASE ReplyFails(c)
  BY <1>2, <1>3, <1>8 DEF ReplyFails, Disconnect
<1>9. CASE ReplySent(c)
  <2>1. pc[c] \in Serving \ {"st_rooms"} /\ users' = users /\ rooms' = rooms
    BY <1>2, <1>9 DEF ReplySent
  <2>2. CASE Req(c).type = "IDENTIFY"
    BY <1>3, <1>9, <2>1, <2>2 DEF ReplySent, Broadcast
  <2>3. CASE Req(c).type # "IDENTIFY" /\ Req(c).type = "JOIN_ROOM" /\ loc[c].reply = "SUCCESS"
    BY <1>0, <1>3, <1>9, <2>1, <2>3 DEF ReplySent
  <2>4. CASE Req(c).type # "IDENTIFY" /\ ~(Req(c).type = "JOIN_ROOM" /\ loc[c].reply = "SUCCESS")
    BY <1>9, <2>1, <2>4, DoneInOrder DEF ReplySent
  <2> QED BY <2>2, <2>3, <2>4
<1>10. CASE NotifySize(c)
  BY <1>2, <1>3, <1>10 DEF NotifySize
<1>11. CASE NotifyEach(c)
  BY <1>2, <1>3, <1>11 DEF NotifyEach
<1>12. CASE EvictNext(c)
  <2>1. pc[c] = "evict" /\ users' = users /\ rooms' = rooms
    BY <1>12 DEF EvictNext
  <2>2. Goto(c, "evict_rooms") \/ Goto(c, "evict")
    BY <1>12 DEF EvictNext, Goto, IInv, TypeOK
  <2>3. \E l : loc' = [loc EXCEPT ![c] = l]
    BY <1>12 DEF EvictNext
  <2> QED BY <1>2, <1>3, <2>1, <2>2, <2>3
<1>13. CASE EvictDone(c)
  BY <1>0, <1>2, <1>3, <1>13 DEF EvictDone, Done
<1>14. CASE DisconnectFind(c)
  BY <1>0, <1>2, <1>3, <1>14 DEF DisconnectFind
<1>15. CASE DisconnectClose(c)
  BY <1>2, <1>3, <1>15 DEF DisconnectClose
<1> QED BY <1>4, <1>5, <1>6, <1>7, <1>8, <1>9, <1>10, <1>11, <1>12, <1>13, <1>14, <1>15

\* Who is taken out of the chat is taken out of the rooms first.
LEMMA RemovingInOrder ==
  ASSUME IInv, OneAtATime, RoomsInv, NEW c \in Conns,
         \/ EvictFromRooms(c) \/ EvictFromUsers(c)
         \/ DisconnectFromRooms(c) \/ DisconnectFromUsers(c)
  PROVE  RoomsInv'
<1> USE DEF OnlyThreadAndTables
<1>1. pc[c] \in Serving \ {"st_rooms"}
  BY DEF EvictFromRooms, EvictFromUsers, DisconnectFromRooms, DisconnectFromUsers,
         Serving, Notifying, Disconnecting
<1>2. Orderly(rooms, users, {})
  BY <1>1, OrderlyNow DEF RoomsInv
<1>3. CASE EvictFromRooms(c)
  <2>1. Orderly(rooms', users', {}) /\ Absent(loc[c].victim.name)'
    BY <1>2, <1>3, RoomsShrink DEF EvictFromRooms
  <2>2. pc'[c] = "evict_user" /\ loc'[c] = loc[c]
    BY <1>3 DEF EvictFromRooms, Goto, IInv, TypeOK
  <2>3. Informed(pc[c], loc[c], fdOf[c])'
    BY <1>3, <2>1, <2>2 DEF EvictFromRooms, Informed, Inviting, Absent
  <2> QED BY <1>1, <1>3, <2>1, <2>3, OrderlyThen, Serves DEF EvictFromRooms
<1>4. CASE EvictFromUsers(c)
  <2>1. Absent(loc[c].victim.name)
    BY <1>4 DEF EvictFromUsers, RoomsInv, Informed
  <2>2. Orderly(rooms', users', {})
    BY <1>2, <1>4, <2>1, UsersShrink DEF EvictFromUsers
  <2>3. pc'[c] = "evict"
    BY <1>4 DEF EvictFromUsers, Goto, IInv, TypeOK
  <2>4. Informed(pc[c], loc[c], fdOf[c])'
    BY <2>3, KnowsNothing DEF Learned, Inviting, TellsNoJoin
  <2> QED BY <1>1, <1>4, <2>2, <2>4, OrderlyThen, Serves DEF EvictFromUsers
<1>5. CASE DisconnectFromRooms(c)
  <2>1. Orderly(rooms', users', {}) /\ Absent(loc[c].gone.name)'
    BY <1>2, <1>5, RoomsShrink DEF DisconnectFromRooms
  <2>2. pc'[c] = "dc_users" /\ loc'[c] = loc[c]
    BY <1>5 DEF DisconnectFromRooms, Goto, IInv, TypeOK
  <2>3. Informed(pc[c], loc[c], fdOf[c])'
    BY <1>5, <2>1, <2>2 DEF DisconnectFromRooms, Informed, Inviting, Absent
  <2> QED BY <1>1, <1>5, <2>1, <2>3, OrderlyThen, Serves DEF DisconnectFromRooms
<1>6. CASE DisconnectFromUsers(c)
  <2>1. Absent(loc[c].gone.name)
    BY <1>6 DEF DisconnectFromUsers, RoomsInv, Informed
  <2>2. Orderly(rooms', users', {})
    BY <1>2, <1>6, <2>1, UsersShrink DEF DisconnectFromUsers
  <2>3. pc'[c] = "dc_close"
    BY <1>6 DEF DisconnectFromUsers, Goto, IInv, TypeOK
  <2>4. Informed(pc[c], loc[c], fdOf[c])'
    BY <2>3, KnowsNothing DEF Learned, Inviting, TellsNoJoin
  <2> QED BY <1>1, <1>6, <2>2, <2>4, OrderlyThen, Serves DEF DisconnectFromUsers
<1> QED BY <1>3, <1>4, <1>5, <1>6

-----------------------------------------------------------------------------
\* The handlers of requests outside rooms.

\* Changing one local keeps the others.
LEMMA OtherLocals ==
  ASSUME NEW l \in Locals, NEW x
  PROVE  /\ [l EXCEPT !.me = x].me = x /\ [l EXCEPT !.me = x].req = l.req
         /\ [l EXCEPT !.isIn = x].isIn = x /\ [l EXCEPT !.isIn = x].req = l.req
         /\ [l EXCEPT !.isIn = x].invited = l.invited
         /\ [l EXCEPT !.todo = x].req = l.req /\ [l EXCEPT !.todo = x].invited = l.invited
         /\ [l EXCEPT !.invited = x].req = l.req /\ [l EXCEPT !.invited = x].invited = x
         /\ [l EXCEPT !.reply = x].reply = x /\ [l EXCEPT !.reply = x].req = l.req
         /\ [l EXCEPT !.reply = x].me = l.me
  BY DEF Locals

\* IDENTIFY adds a name and a descriptor nobody has.
LEMMA IdentifyInOrder ==
  ASSUME IInv, OneAtATime, RoomsInv, NEW c \in Conns,
         IdentifyFindFd(c) \/ IdentifyFindName(c) \/ IdentifyAdd(c)
  PROVE  RoomsInv'
<1> USE DEF OnlyThread, tabVars
<1>0. loc = [loc EXCEPT ![c] = loc[c]]
  BY DEF IInv, TypeOK
<1>1. pc[c] \in Serving \ {"st_rooms"}
  BY DEF IdentifyFindFd, IdentifyFindName, IdentifyAdd, Serving, Identifying
<1>2. CASE IdentifyFindFd(c)
  <2>1. CASE ~ContainsFd(users, fdOf[c])
    <3>1. pc'[c] = "id_find_name" /\ Goto(c, "id_find_name") /\ loc' = loc
      BY <1>2, <2>1 DEF IdentifyFindFd, Goto, IInv, TypeOK
    <3>2. Informed(pc[c], loc[c], fdOf[c])'
      BY <1>2, <2>1, <3>1 DEF IdentifyFindFd, Informed, Inviting
    <3> QED BY <1>0, <1>1, <1>2, <3>1, <3>2, ServesQuietly DEF IdentifyFindFd
  <2>2. CASE ContainsFd(users, fdOf[c])
    BY <1>1, <1>2, <2>2, DoneInOrder, ReplyInOrder DEF IdentifyFindFd
  <2> QED BY <2>1, <2>2
<1>3. CASE IdentifyFindName(c)
  <2>1. CASE ~ContainsName(users, Wanted(c))
    <3>1. pc'[c] = "id_add" /\ Goto(c, "id_add") /\ loc' = loc
      BY <1>3, <2>1 DEF IdentifyFindName, Goto, IInv, TypeOK
    <3>2. ~ContainsFd(users, fdOf[c])
      BY <1>3 DEF IdentifyFindName, RoomsInv, Informed
    <3>3. Informed(pc[c], loc[c], fdOf[c])'
      BY <1>3, <3>1, <3>2 DEF IdentifyFindName, Informed, Inviting
    <3> QED BY <1>0, <1>1, <1>3, <3>1, <3>3, ServesQuietly DEF IdentifyFindName
  <2>2. CASE ContainsName(users, Wanted(c))
    BY <1>1, <1>3, <2>2, DoneInOrder, ReplyInOrder DEF IdentifyFindName
  <2> QED BY <2>1, <2>2
<1>4. CASE IdentifyAdd(c)
  <2>1. CASE Wanted(c) = Blank \/ ContainsName(users, Wanted(c))
    BY <1>1, <1>4, <2>1, DoneInOrder DEF IdentifyAdd
  <2>2. CASE ~(Wanted(c) = Blank \/ ContainsName(users, Wanted(c)))
    <3>1. ~ContainsFd(users, fdOf[c]) /\ Wanted(c) \notin Usernames(users)
      BY <1>4, <2>2 DEF IdentifyAdd, RoomsInv, Informed, ContainsName, Usernames
    <3>2. Orderly(rooms, users, {})
      BY <1>1, OrderlyNow DEF RoomsInv
    <3>3. Orderly(rooms', users', {})
      BY <1>4, <2>2, <3>1, <3>2, UsersGrow DEF IdentifyAdd
    <3>4. loc[c] \in Locals /\ loc[c].req.type = "IDENTIFY"
      BY <1>1, <1>4, ThreadFacts, HoldsAt DEF IdentifyAdd, Identifying, Serving
    <3>5. Goto(c, "reply") /\ pc'[c] = "reply" /\ loc'[c] = [loc[c] EXCEPT !.reply = "SUCCESS"]
      BY <1>4, <2>2 DEF IdentifyAdd, Reply, Goto, IInv, TypeOK
    <3>6. loc'[c].req.type = "IDENTIFY"
      BY <3>4, <3>5, OtherLocals
    <3>7. Informed(pc[c], loc[c], fdOf[c])'
      BY <3>5, <3>6, KnowsNothing DEF Learned, Inviting, TellsNoJoin
    <3> QED BY <1>1, <3>3, <3>5, <3>7, OrderlyThen, Serves
  <2> QED BY <2>1, <2>2
<1> QED BY <1>2, <1>3, <1>4

\* A new status is on its way to the rooms from one step of STATUS to the next.
LEMMA StatusInOrder ==
  ASSUME IInv, OneAtATime, RoomsInv, NEW c \in Conns,
         StatusFind(c) \/ StatusChange(c) \/ StatusChangeInRooms(c)
  PROVE  RoomsInv'
<1>0. pc \in [Conns -> Places] /\ loc \in [Conns -> Locals]
  BY DEF IInv, TypeOK
<1>1. CASE StatusFind(c)
  <2>1. pc[c] \in Serving \ {"st_rooms"} /\ users' = users /\ rooms' = rooms /\ fdOf' = fdOf
    BY <1>1 DEF StatusFind, Serving, ChangingStatus, OnlyThread, tabVars
  <2>2. CASE ContainsFd(users, fdOf[c]) /\ FindByFd(users, fdOf[c]).status # Req(c).status
    <3> DEFINE u == FindByFd(users, fdOf[c])
    <3> DEFINE l == [loc[c] EXCEPT !.me = u]
    <3>1. Goto(c, "st_change") /\ loc' = [loc EXCEPT ![c] = l]
      BY <1>1, <2>2 DEF StatusFind
    <3>2. Known(users, u) /\ u.fd = fdOf[c]
      BY <2>2, LookupKnows DEF RoomsInv, RoomsInOrder, Orderly
    <3>3. pc'[c] = "st_change" /\ loc'[c].me = u
      BY <1>0, <3>1, OtherLocals DEF Goto
    <3> HIDE DEF u
    <3>4. Informed(pc[c], loc[c], fdOf[c])'
      BY <2>1, <3>2, <3>3 DEF Informed, Inviting
    <3> QED BY <2>1, <3>1, <3>4, ServesQuietly
  <2>3. CASE ~(ContainsFd(users, fdOf[c]) /\ FindByFd(users, fdOf[c]).status # Req(c).status)
    <3>1. Done(c)
      BY <1>1, <2>3 DEF StatusFind
    <3> QED BY <2>1, <3>1, DoneInOrder
  <2> QED BY <2>2, <2>3
<1>2. CASE StatusChange(c)
  <2> DEFINE u == loc[c].me
  <2> DEFINE s == Req(c).status
  <2>1. /\ pc[c] \in Serving \ {"st_rooms"} /\ Goto(c, "st_rooms")
        /\ loc' = loc /\ rooms' = rooms /\ fdOf' = fdOf
        /\ users' = ChangeStatusByFd(users, fdOf[c], s)
    BY <1>2 DEF StatusChange, Serving, ChangingStatus, OnlyThreadAndTables
  <2>2. Orderly(rooms, users, {}) /\ Known(users, u) /\ u.fd = fdOf[c]
    <3>1. Orderly(rooms, users, {})
      BY <2>1, OrderlyNow DEF RoomsInv
    <3>2. Known(users, u) /\ u.fd = fdOf[c]
      BY <1>2 DEF StatusChange, RoomsInv, Informed
    <3> QED BY <3>1, <3>2
  <2>3. pc'[c] = "st_rooms"
    BY <1>0, <2>1 DEF Goto
  <2> HIDE DEF s
  <2>4. Agrees(users')
    BY <2>1, <2>2, ChangeStatusAgrees DEF Orderly
  <2>5. ASSUME NEW t, CopyOf(t, users), UpToDate(t, users, {})
        PROVE  CopyOf(t, users') /\ UpToDate(t, users', {u.name})
    <3> HIDE DEF u
    <3> QED BY <2>1, <2>2, <2>5, OriginalChanges DEF Orderly
  <2>6. u.name \in Changing'
    BY <2>1, <2>3 DEF Changing
  <2>7. ASSUME NEW t, UpToDate(t, users', {u.name}) PROVE UpToDate(t, users', Changing')
    <3> HIDE DEF u
    <3> QED BY <2>6, <2>7 DEF UpToDate
  <2>8. RoomsInOrder'
    <3> HIDE DEF u
    <3>1. ASSUME NEW r \in DOMAIN rooms
          PROVE  Ordered(rooms[r], users') /\ \A t \in TablesOf(rooms[r]) : UpToDate(t, users', Changing')
      BY <2>2, <2>5, <2>7 DEF Orderly, Ordered
    <3> QED BY <2>1, <2>4, <3>1 DEF RoomsInOrder, Orderly
  <2>9. Known(users', [u EXCEPT !.status = s])
    <3>1. CopyOf(EmptyTable, users)
      BY DEF CopyOf, EmptyTable, Agrees, Coherent, Usernames
    <3> HIDE DEF u
    <3> QED BY <2>1, <2>2, <3>1, OriginalChanges DEF Orderly
  <2>10. Informed(pc[c], loc[c], fdOf[c])'
    BY <2>1, <2>3, <2>9 DEF Informed, Inviting, s, Req
  <2> QED BY <2>1, <2>8, <2>10, Serves
<1>3. CASE StatusChangeInRooms(c)
  <2> DEFINE s == Req(c).status
  <2> DEFINE u == [loc[c].me EXCEPT !.status = s]
  <2>1. /\ pc[c] \in Serving /\ pc[c] = "st_rooms" /\ users' = users
        /\ UpdateStatusInRooms(loc[c].me.fd, s) /\ Goto(c, "notify_size")
    BY <1>3 DEF StatusChangeInRooms, Serving, ChangingStatus, OnlyThreadAndTables, Broadcast
  <2>2. u.fd = loc[c].me.fd /\ u.status = s /\ u.name = loc[c].me.name
    <3>1. loc[c].me \in UserCopy
      BY <2>1, ThreadFacts, HoldsAt DEF Serving
    <3> QED BY <3>1 DEF UserCopy
  <2>3. Known(users, u) /\ Agrees(users)
    BY <2>1 DEF RoomsInv, Informed, RoomsInOrder, Orderly, Req
  <2>4. Changing = {u.name}
    BY <2>1, <2>2 DEF Changing, OneAtATime, Serving, ChangingStatus
  <2> HIDE DEF u
  <2>5. ASSUME NEW t, CopyOf(t, users), UpToDate(t, users, Changing)
        PROVE  /\ CopyOf(ChangeStatusByFd(t, u.fd, s), users)
               /\ UpToDate(ChangeStatusByFd(t, u.fd, s), users, {})
               /\ Usernames(ChangeStatusByFd(t, u.fd, s)) = Usernames(t)
    <3>1. UpToDate(t, users, {u.name})
      BY <2>4, <2>5
    <3>2. Usernames(ChangeStatusByFd(t, u.fd, s)) = Usernames(t)
      BY ChangeStatusEntries
    <3> QED BY <2>2, <2>3, <2>5, <3>1, <3>2, CopyChanges
  <2>6. ASSUME NEW r \in DOMAIN rooms'
        PROVE  Ordered(rooms'[r], users) /\ \A t \in TablesOf(rooms'[r]) : UpToDate(t, users, {})
    <3> DEFINE m == rooms[r].members
    <3> DEFINE g == rooms[r].guests
    <3>1. /\ r \in DOMAIN rooms
          /\ rooms'[r] = [members |-> ChangeStatusByFd(m, u.fd, s),
                          guests |-> ChangeStatusByFd(g, u.fd, s)]
      BY <2>1, <2>2, <2>6 DEF UpdateStatusInRooms
    <3>2. /\ CopyOf(m, users) /\ UpToDate(m, users, Changing)
          /\ CopyOf(g, users) /\ UpToDate(g, users, Changing)
          /\ Usernames(m) \cap Usernames(g) = {}
      BY <3>1 DEF RoomsInv, RoomsInOrder, Orderly, Ordered, TablesOf
    <3> HIDE DEF m, g
    <3> QED BY <2>5, <3>1, <3>2 DEF Ordered, TablesOf
  <2>7. RoomsInOrder'
    BY <2>1, <2>3, <2>6, OrderlyThen DEF Orderly
  <2>8. pc'[c] = "notify_size"
    BY <1>0, <2>1 DEF Goto
  <2>9. Informed(pc[c], loc[c], fdOf[c])'
    BY <2>8, KnowsNothing DEF Learned, Inviting, TellsNoJoin
  <2> QED BY <2>1, <2>7, <2>9, Serves
<1> QED BY <1>1, <1>2, <1>3

\* The other requests outside rooms only look users up.
LEMMA LookingInOrder ==
  ASSUME IInv, OneAtATime, RoomsInv, NEW c \in Conns,
         \/ UsersList(c) \/ TextFindAddressee(c) \/ TextCompare(c) \/ TextFindSender(c)
         \/ TextSend(c) \/ PublicTextFindSender(c)
  PROVE  RoomsInv'
<1>0. /\ loc = [loc EXCEPT ![c] = loc[c]]
      /\ pc[c] \in Serving \ {"st_rooms"} /\ users' = users /\ rooms' = rooms
  BY DEF IInv, TypeOK, UsersList, TextFindAddressee, TextCompare, TextFindSender, TextSend,
         PublicTextFindSender, Serving, OnlyThread, tabVars
<1>1. \A q \in {"tx_compare", "tx_find_from", "tx_send", "dc_find", "notify_size"} :
        q \notin Learned \cup {"reply"}
  BY DEF Learned, Inviting
<1>2. ASSUME \E q \in {"tx_compare", "tx_find_from", "tx_send", "dc_find", "notify_size"} : Goto(c, q),
             \E l : loc' = [loc EXCEPT ![c] = l]
      PROVE RoomsInv'
  BY <1>0, <1>1, <1>2, GoesInOrder
<1>3. CASE UsersList(c)
  <2> DEFINE k == [loc[c] EXCEPT !.reply = "USER_LIST"]
  <2> DEFINE l == [k EXCEPT !.list = {<< u.name, u.status >> : u \in UsersOf(users)}]
  <2>1. Goto(c, "reply") /\ loc' = [loc EXCEPT ![c] = l]
    BY <1>3 DEF UsersList
  <2>2. l.reply = "USER_LIST"
    BY <1>0, ThreadFacts DEF Locals, Serving
  <2>3. TellsNoJoin("reply", l) /\ "reply" \notin Learned
    BY <2>2 DEF TellsNoJoin, Learned, Inviting
  <2> QED BY <1>0, <2>1, <2>3, ServesPlainly
<1>4. CASE TextFindAddressee(c)
  <2>1. CASE ContainsName(users, Req(c).username)
    BY <1>2, <1>4, <2>1 DEF TextFindAddressee
  <2>2. CASE ~ContainsName(users, Req(c).username)
    BY <1>0, <1>4, <2>2, ReplyInOrder DEF TextFindAddressee
  <2> QED BY <2>1, <2>2
<1>5. CASE TextCompare(c)
  <2>1. CASE Done(c)
    BY <1>0, <2>1, DoneInOrder
  <2>2. CASE Goto(c, "tx_find_from") /\ loc' = loc
    BY <1>0, <1>2, <2>2
  <2> QED BY <1>5, <2>1, <2>2 DEF TextCompare
<1>6. CASE TextFindSender(c)
  <2>1. CASE Done(c)
    BY <1>0, <2>1, DoneInOrder
  <2>2. CASE ~Done(c)
    <3> DEFINE l == [loc[c] EXCEPT !.me = FindByFd(users, fdOf[c])]
    <3>1. Goto(c, "tx_send") /\ loc' = [loc EXCEPT ![c] = l]
      BY <1>6, <2>2 DEF TextFindSender
    <3> HIDE DEF l
    <3> QED BY <1>2, <3>1
  <2> QED BY <2>1, <2>2
<1>7. CASE TextSend(c)
  <2>1. CASE Done(c)
    BY <1>0, <2>1, DoneInOrder
  <2>2. CASE ~Done(c)
    <3> DEFINE l == [loc[c] EXCEPT !.dfd = fdOf[c]]
    <3>1. Goto(c, "dc_find") /\ loc' = [loc EXCEPT ![c] = l]
      BY <1>7, <2>2 DEF TextSend, Disconnect
    <3> HIDE DEF l
    <3> QED BY <1>2, <3>1
  <2> QED BY <2>1, <2>2
<1>8. CASE PublicTextFindSender(c)
  <2>1. CASE Done(c)
    BY <1>0, <2>1, DoneInOrder
  <2>2. CASE ~Done(c)
    <3> DEFINE u == FindByFd(users, fdOf[c])
    <3> DEFINE k == [loc[c] EXCEPT !.me = u]
    <3> DEFINE l == [k EXCEPT !.note = [type |-> "PUBLIC_TEXT_FROM", name |-> u.name, status |-> "unheard"]]
    <3>1. Goto(c, "notify_size") /\ loc' = [loc EXCEPT ![c] = l]
      BY <1>8, <2>2 DEF PublicTextFindSender
    <3> HIDE DEF l
    <3> QED BY <1>2, <3>1
  <2> QED BY <2>1, <2>2
<1> QED BY <1>3, <1>4, <1>5, <1>6, <1>7, <1>8

-----------------------------------------------------------------------------
\* NEW_ROOM, and the way into a room.

\* What an orderly room holds is found by name and by descriptor alike.
LEMMA RoomFindsEitherWay ==
  ASSUME Orderly(rooms, users, {}), NEW r, NEW u, Known(users, u)
  PROVE  (IsMember(r, u.fd) <=> MemberOf(r, u.name)) /\ (IsGuest(r, u.fd) <=> GuestOf(r, u.name))
<1>1. CASE RoomExists(r)
  <2>1. CopyOf(rooms[r].members, users) /\ CopyOf(rooms[r].guests, users) /\ Agrees(users)
    BY <1>1 DEF RoomExists, Orderly, Ordered, TablesOf
  <2>2. /\ ContainsFd(rooms[r].members, u.fd) <=> u.name \in Usernames(rooms[r].members)
        /\ ContainsFd(rooms[r].guests, u.fd) <=> u.name \in Usernames(rooms[r].guests)
    BY <2>1, FoundEitherWay
  <2> QED BY <1>1, <2>2 DEF IsMember, IsGuest, MemberOf, GuestOf
<1>2. CASE ~RoomExists(r)
  BY <1>2 DEF IsMember, IsGuest, MemberOf, GuestOf
<1> QED BY <1>1, <1>2

\* The serving thread changes one room.
LEMMA ServesARoom ==
  ASSUME IInv, OneAtATime, RoomsInv, NEW c \in Conns, pc[c] \in Serving \ {"st_rooms"},
         NEW r, NEW room, WithRoom(r, room), users' = users,
         RoomExists(r) => /\ Ordered(room, users)
                          /\ \A t \in TablesOf(room) : UpToDate(t, users, {}),
         NEW q, Goto(c, q), Informed(pc[c], loc[c], fdOf[c])'
  PROVE  RoomsInv'
<1>1. Orderly(rooms, users, {})
  BY OrderlyNow DEF RoomsInv
<1>2. Orderly(rooms', users', {})
  BY <1>1, OneRoomChanges
<1> QED BY <1>2, OrderlyThen, Serves

\* A thread copies its own user out of the users table.
LEMMA FindsItself ==
  ASSUME IInv, RoomsInv, NEW c \in Conns, pc[c] \in Serving, ContainsFd(users, fdOf[c]),
         NEW q \in Places, Goto(c, q), users' = users,
         loc' = [loc EXCEPT ![c].me = FindByFd(users, fdOf[c])]
  PROVE  /\ pc'[c] = q /\ loc'[c].req = loc[c].req
         /\ Known(users', loc'[c].me)
         /\ \E l : loc' = [loc EXCEPT ![c] = l]
<1> DEFINE u == FindByFd(users, fdOf[c])
<1> DEFINE l == [loc[c] EXCEPT !.me = u]
<1>1. Known(users, u)
  BY LookupKnows DEF RoomsInv, RoomsInOrder, Orderly
<1>2. loc[c] \in Locals /\ pc'[c] = q /\ loc' = [loc EXCEPT ![c] = l] /\ loc'[c] = l
  BY DEF IInv, TypeOK, Goto
<1> HIDE DEF u
<1>3. l.me = u /\ l.req = loc[c].req
  BY <1>2, OtherLocals
<1> HIDE DEF l
<1> QED BY <1>1, <1>2, <1>3

\* A new room is empty until its creator is in it.
LEMMA NewRoomInOrder ==
  ASSUME IInv, OneAtATime, RoomsInv, NEW c \in Conns,
         \/ NewRoomContains(c) \/ NewRoomAdd(c) \/ NewRoomFindCreator(c) \/ NewRoomAddCreator(c)
  PROVE  RoomsInv'
<1> DEFINE r == Clip16[loc[c].req.roomname]
<1>0. /\ loc = [loc EXCEPT ![c] = loc[c]] /\ loc[c] \in Locals
      /\ pc \in [Conns -> Places] /\ loc \in [Conns -> Locals]
      /\ pc[c] \in Serving \ {"st_rooms"} /\ Orderly(rooms, users, {})
  <2>1. pc[c] \in Serving \ {"st_rooms"}
    BY DEF NewRoomContains, NewRoomAdd, NewRoomFindCreator, NewRoomAddCreator, Serving,
           CreatingRoom
  <2> QED BY <2>1, OrderlyNow DEF IInv, TypeOK, RoomsInv
<1>1. CASE NewRoomContains(c)
  <2>1. users' = users /\ rooms' = rooms
    BY <1>1 DEF NewRoomContains, OnlyThread, tabVars
  <2>2. CASE RoomExists(Room(c))
    <3>1. Reply(c, "ROOM_ALREADY_EXISTS")
      BY <1>1, <2>2 DEF NewRoomContains
    <3> QED BY <1>0, <2>1, <3>1, ReplyInOrder
  <2>3. CASE ~RoomExists(Room(c))
    <3>1. Goto(c, "nr_add") /\ loc' = loc
      BY <1>1, <2>3 DEF NewRoomContains
    <3>2. "nr_add" \notin Learned \cup {"reply"}
      BY DEF Learned, Inviting
    <3> QED BY <1>0, <2>1, <3>1, <3>2, GoesInOrder
  <2> QED BY <2>2, <2>3
<1>2. CASE NewRoomAdd(c)
  <2>1. CASE Done(c) /\ rooms' = rooms
    BY <1>0, <1>2, <2>1, DoneInOrder DEF NewRoomAdd
  <2>2. CASE Goto(c, "nr_find") /\ AddRoom(r) /\ loc' = loc
    <3>1. Orderly(rooms', users', {})
      BY <1>0, <1>2, <2>2, RoomOpens DEF NewRoomAdd
    <3>2. pc'[c] = "nr_find" /\ r \in DOMAIN rooms' /\ Clip16[loc'[c].req.roomname] = r
      BY <1>0, <2>2 DEF Goto, AddRoom
    <3>3. rooms'[r] = [members |-> EmptyTable, guests |-> EmptyTable]
      BY <2>2 DEF AddRoom
    <3>4. \A t \in TablesOf(rooms'[r]) : Usernames(t) = {}
      BY <3>3 DEF TablesOf, Usernames, EmptyTable
    <3> HIDE DEF r
    <3>5. Informed(pc[c], loc[c], fdOf[c])'
      BY <3>2, <3>4 DEF Informed, Inviting, RoomExists
    <3> QED BY <1>0, <2>2, <3>1, <3>5, OrderlyThen, Serves
  <2> QED BY <1>2, <2>1, <2>2 DEF NewRoomAdd, Room, Req
<1>3. CASE NewRoomFindCreator(c)
  <2>1. users' = users /\ rooms' = rooms
    BY <1>3 DEF NewRoomFindCreator, OnlyThread, tabVars
  <2>2. CASE ContainsFd(users, fdOf[c])
    <3>1. /\ pc'[c] = "nr_creator" /\ loc'[c].req = loc[c].req /\ Known(users', loc'[c].me)
          /\ \E l : loc' = [loc EXCEPT ![c] = l]
      BY <1>0, <1>3, <2>1, <2>2, FindsItself DEF NewRoomFindCreator, Places, Serving, CreatingRoom
    <3>2. RoomExists(r) /\ \A t \in TablesOf(rooms[r]) : Usernames(t) = {}
      BY <1>3 DEF NewRoomFindCreator, RoomsInv, Informed
    <3>3. Informed(pc[c], loc[c], fdOf[c])'
      BY <2>1, <3>1, <3>2 DEF Informed, Inviting, RoomExists
    <3> QED BY <1>0, <1>3, <2>1, <2>2, <3>1, <3>3, ServesQuietly DEF NewRoomFindCreator
  <2>3. CASE ~ContainsFd(users, fdOf[c])
    BY <1>0, <1>3, <2>1, <2>3, DoneInOrder DEF NewRoomFindCreator
  <2> QED BY <2>2, <2>3
<1>4. CASE NewRoomAddCreator(c)
  <2> DEFINE u == loc[c].me
  <2> DEFINE m == rooms[r].members
  <2> DEFINE g == rooms[r].guests
  <2> DEFINE room == [members |-> AddUser(m, u.name, u.fd, u.status), guests |-> g]
  <2>1. /\ WithRoom(r, room) /\ users' = users /\ Goto(c, "reply")
        /\ loc' = [loc EXCEPT ![c].reply = "SUCCESS"]
    BY <1>4 DEF NewRoomAddCreator, AddMember, Reply, Room, Req
  <2>2. RoomExists(r) /\ Usernames(m) = {} /\ Usernames(g) = {} /\ Known(users, u)
    BY <1>4 DEF NewRoomAddCreator, RoomsInv, Informed, TablesOf
  <2>3. /\ CopyOf(m, users) /\ UpToDate(m, users, {}) /\ CopyOf(g, users) /\ UpToDate(g, users, {})
        /\ Agrees(users)
    BY <1>0, <2>2 DEF Orderly, Ordered, TablesOf, RoomExists
  <2> HIDE DEF m, g, u
  <2>4. Ordered(room, users) /\ \A t \in TablesOf(room) : UpToDate(t, users, {})
    <3>1. /\ CopyOf(AddUser(m, u.name, u.fd, u.status), users)
          /\ UpToDate(AddUser(m, u.name, u.fd, u.status), users, {})
      BY <2>2, <2>3, CopyGrows
    <3> QED BY <2>2, <2>3, <3>1 DEF Ordered, TablesOf
  <2>5. pc'[c] = "reply" /\ loc'[c] = [loc[c] EXCEPT !.reply = "SUCCESS"]
    BY <1>0, <2>1 DEF Goto
  <2>6. loc'[c].req.type = "NEW_ROOM"
    <3>1. loc[c].req.type = "NEW_ROOM"
      BY <1>0, <1>4, ThreadFacts DEF NewRoomAddCreator, Holds, CreatingRoom, Serving
    <3> QED BY <1>0, <2>5, <3>1, OtherLocals
  <2>7. Informed(pc[c], loc[c], fdOf[c])'
    BY <2>5, <2>6, KnowsNothing DEF Learned, Inviting, TellsNoJoin
  <2> HIDE DEF room, r
  <2> QED BY <1>0, <2>1, <2>4, <2>7, ServesARoom
<1> QED BY <1>1, <1>2, <1>3, <1>4

\* The way into a room: it exists, and the sender is who the table says it is.
LEMMA EnteringInOrder ==
  ASSUME IInv, OneAtATime, RoomsInv, NEW c \in Conns, RoomContains(c) \/ RoomFindSender(c)
  PROVE  RoomsInv'
<1>0. /\ loc = [loc EXCEPT ![c] = loc[c]] /\ pc[c] \in Serving \ {"st_rooms"}
      /\ users' = users /\ rooms' = rooms
  BY DEF IInv, TypeOK, RoomContains, RoomFindSender, Serving, EnteringRoom, OnlyThread, tabVars
<1>1. CASE RoomContains(c)
  <2>1. CASE RoomExists(Room(c))
    <3>1. Goto(c, "rm_find") /\ loc' = loc
      BY <1>1, <2>1 DEF RoomContains
    <3>2. "rm_find" \notin Learned \cup {"reply"}
      BY DEF Learned, Inviting
    <3> QED BY <1>0, <3>1, <3>2, GoesInOrder
  <2>2. CASE ~RoomExists(Room(c))
    <3>1. Reply(c, "NO_SUCH_ROOM")
      BY <1>1, <2>2 DEF RoomContains
    <3> QED BY <1>0, <3>1, ReplyInOrder
  <2> QED BY <2>1, <2>2
<1>2. CASE RoomFindSender(c)
  <2>1. CASE ContainsFd(users, fdOf[c])
    <3>1. /\ pc'[c] = "rm_member" /\ Known(users', loc'[c].me)
          /\ \E l : loc' = [loc EXCEPT ![c] = l]
      BY <1>0, <1>2, <2>1, FindsItself DEF RoomFindSender, Places, Serving, EnteringRoom
    <3>2. Informed(pc[c], loc[c], fdOf[c])'
      BY <3>1 DEF Informed, Inviting
    <3> QED BY <1>0, <1>2, <2>1, <3>1, <3>2, ServesQuietly DEF RoomFindSender
  <2>2. CASE ~ContainsFd(users, fdOf[c])
    <3>1. Reply(c, "INVALID")
      BY <1>2, <2>2 DEF RoomFindSender
    <3> QED BY <1>0, <3>1, ReplyInOrder
  <2> QED BY <2>1, <2>2
<1> QED BY <1>1, <1>2

\* The request goes its way, and the sender is a member or is not.
LEMMA MemberInOrder ==
  ASSUME IInv, OneAtATime, RoomsInv, Beforehand, NEW c \in Conns, RoomMember(c)
  PROVE  RoomsInv'
<1> DEFINE r == loc[c].req.roomname
<1> DEFINE u == loc[c].me
<1>0. /\ loc = [loc EXCEPT ![c] = loc[c]] /\ loc[c] \in Locals
      /\ pc \in [Conns -> Places] /\ loc \in [Conns -> Locals]
      /\ pc[c] = "rm_member" /\ pc[c] \in Serving \ {"st_rooms"} /\ Orderly(rooms, users, {})
      /\ users' = users /\ rooms' = rooms
  <2>1. pc[c] = "rm_member" /\ pc[c] \in Serving \ {"st_rooms"} /\ users' = users /\ rooms' = rooms
    BY DEF RoomMember, Serving, EnteringRoom, OnlyThread, tabVars
  <2> QED BY <2>1, OrderlyNow DEF IInv, TypeOK, RoomsInv
<1>1. Known(users, u)
  BY <1>0 DEF RoomsInv, Informed
<1>2. IsMember(r, u.fd) <=> MemberOf(r, u.name)
  <2> HIDE DEF u, r
  <2> QED BY <1>0, <1>1, RoomFindsEitherWay
<1> DEFINE l == [loc[c] EXCEPT !.todo = loc[c].req.usernames]
<1>3. CASE Goto(c, "iv_resolve") /\ IsMember(r, u.fd) /\ loc' = [loc EXCEPT ![c] = l]
  <2>1. pc'[c] = "iv_resolve"
    BY <1>0, <1>3 DEF Goto
  <2>2. loc'[c] = l
    BY <1>0, <1>3
  <2>3. loc'[c].req = loc[c].req /\ loc'[c].invited = loc[c].invited /\ loc[c].invited = << >>
    BY <1>0, <2>2, OtherLocals DEF Beforehand, EnteringRoom
  <2>4. RoomExists(r) /\ Usernames(rooms[r].members) # {}
    BY <1>2, <1>3 DEF MemberOf
  <2>5. Informed(pc[c], loc[c], fdOf[c])'
    BY <1>0, <2>1, <2>3, <2>4 DEF Informed, Inviting, RoomExists
  <2> QED BY <1>0, <1>3, <2>1, <2>5, ServesQuietly
<1>4. CASE Goto(c, "lv_leave") /\ IsMember(r, u.fd) /\ loc' = loc
  <2>1. pc'[c] = "lv_leave" /\ MemberOf(r, u.name)'
    BY <1>0, <1>2, <1>4 DEF Goto, MemberOf, RoomExists
  <2>2. Informed(pc[c], loc[c], fdOf[c])'
    BY <1>0, <1>1, <1>4, <2>1 DEF Informed, Inviting, MemberOf, RoomExists
  <2> QED BY <1>0, <1>4, <2>2, ServesQuietly
<1>5. CASE Goto(c, "jn_guest") /\ loc' = loc
  <2>1. pc'[c] = "jn_guest"
    BY <1>0, <1>5 DEF Goto
  <2>2. Informed(pc[c], loc[c], fdOf[c])'
    BY <1>0, <1>1, <1>5, <2>1 DEF Informed, Inviting
  <2> QED BY <1>0, <1>5, <2>2, ServesQuietly
<1>6. CASE \E q \in {"ru_list", "room_notify"} : Goto(c, q) /\ loc' = loc
  <2>1. \A q \in {"ru_list", "room_notify"} : q \notin Learned \cup {"reply"}
    BY DEF Learned, Inviting
  <2> QED BY <1>0, <1>6, <2>1, GoesInOrder
<1>7. CASE Done(c)
  BY <1>0, <1>7, DoneInOrder
<1>8. CASE Reply(c, "INVALID") \/ Reply(c, "NOT_JOINED")
  BY <1>0, <1>8, ReplyInOrder
<1>9. \/ Goto(c, "iv_resolve") /\ IsMember(r, u.fd) /\ loc' = [loc EXCEPT ![c] = l]
      \/ Goto(c, "lv_leave") /\ IsMember(r, u.fd) /\ loc' = loc
      \/ Goto(c, "jn_guest") /\ loc' = loc
      \/ \E q \in {"ru_list", "room_notify"} : Goto(c, q) /\ loc' = loc
      \/ Done(c) \/ Reply(c, "INVALID") \/ Reply(c, "NOT_JOINED")
  <2>1. Req(c).type \in RoomRequests
    BY <1>0, ThreadFacts DEF Holds, EnteringRoom, Req
  <2>2. CASE IsMember(r, u.fd)
    BY <2>1, <2>2 DEF RoomMember, RoomRequests, Room, Req
  <2>3. CASE ~IsMember(r, u.fd)
    BY <2>1, <2>3 DEF RoomMember, RoomRequests, Room, Req
  <2> QED BY <2>2, <2>3
<1> QED BY <1>3, <1>4, <1>5, <1>6, <1>7, <1>8, <1>9

-----------------------------------------------------------------------------
\* INVITE: the invitees are copies of users, and each one becomes a guest only
\* when it is neither guest nor member.
LEMMA InvitationFacts ==
  ASSUME IInv, OneAtATime, RoomsInv, NEW c \in Conns, pc[c] \in Inviting
  PROVE  /\ loc = [loc EXCEPT ![c] = loc[c]] /\ loc[c] \in Locals
         /\ pc \in [Conns -> Places] /\ loc \in [Conns -> Locals]
         /\ pc[c] \in Serving \ {"st_rooms"} /\ Orderly(rooms, users, {})
         /\ RoomExists(loc[c].req.roomname) /\ Usernames(rooms[loc[c].req.roomname].members) # {}
         /\ \A i \in DOMAIN loc[c].invited : Known(users, loc[c].invited[i])
         /\ loc[c].invited \in Seq(UserCopy)
         /\ pc[c] # "iv_resolve" => loc[c].invited # << >> /\ Known(users, Head(loc[c].invited))
<1>1. pc[c] \in Serving \ {"st_rooms"} /\ pc[c] \notin {"off", "end"}
  BY DEF Serving, Inviting
<1>2. /\ loc = [loc EXCEPT ![c] = loc[c]] /\ loc[c] \in Locals
      /\ pc \in [Conns -> Places] /\ loc \in [Conns -> Locals]
  BY DEF IInv, TypeOK
<1>3. /\ RoomExists(loc[c].req.roomname) /\ Usernames(rooms[loc[c].req.roomname].members) # {}
      /\ \A i \in DOMAIN loc[c].invited : Known(users, loc[c].invited[i])
  BY DEF RoomsInv, Informed
<1>4. loc[c].invited \in Seq(UserCopy)
  BY <1>2 DEF Locals
<1>5. ASSUME pc[c] # "iv_resolve" PROVE loc[c].invited # << >> /\ Known(users, Head(loc[c].invited))
  <2>1. loc[c].invited # << >>
    BY <1>1, <1>5, ThreadFacts DEF Holds
  <2>2. Head(loc[c].invited) = loc[c].invited[1] /\ 1 \in DOMAIN loc[c].invited
    BY <1>4, <2>1
  <2> QED BY <1>3, <2>1, <2>2
<1>6. Orderly(rooms, users, {})
  BY <1>1, OrderlyNow DEF RoomsInv
<1> QED BY <1>1, <1>2, <1>3, <1>4, <1>5, <1>6

\* From one step of INVITE to the next, with nothing changed in the tables.
LEMMA GoesOnInviting ==
  ASSUME IInv, OneAtATime, RoomsInv, NEW c \in Conns, pc[c] \in Inviting,
         users' = users, rooms' = rooms, NEW q \in Inviting, Goto(c, q),
         NEW l, loc' = [loc EXCEPT ![c] = l], l.req = loc[c].req,
         \A i \in DOMAIN l.invited : Known(users, l.invited[i]),
         q = "iv_guest" => l.isIn \/ ~MemberOf(l.req.roomname, Head(l.invited).name),
         q = "iv_add" => /\ ~MemberOf(l.req.roomname, Head(l.invited).name)
                         /\ ~GuestOf(l.req.roomname, Head(l.invited).name)
  PROVE  RoomsInv'
<1>1. pc'[c] = q /\ loc'[c] = l
  BY InvitationFacts DEF Goto
<1>2. RoomExists(l.req.roomname) /\ Usernames(rooms[l.req.roomname].members) # {}
  BY InvitationFacts
<1>3. Informed(pc[c], loc[c], fdOf[c])'
  BY <1>1, <1>2 DEF Informed, Inviting, RoomExists, MemberOf, GuestOf
<1> QED BY <1>3, InvitationFacts, ServesQuietly

LEMMA ResolvingInOrder ==
  ASSUME IInv, OneAtATime, RoomsInv, NEW c \in Conns, InviteResolve(c)
  PROVE  RoomsInv'
<1>0. pc[c] \in Inviting /\ pc[c] \in Serving \ {"st_rooms"} /\ users' = users /\ rooms' = rooms
  BY DEF InviteResolve, Inviting, Serving, OnlyThread, tabVars
<1>1. CASE ContainsName(users, Head(loc[c].todo))
  <2> DEFINE u == FindByName(users, Head(loc[c].todo))
  <2> DEFINE k == [loc[c] EXCEPT !.todo = Tail(loc[c].todo)]
  <2> DEFINE s == Append(loc[c].invited, u)
  <2> DEFINE l == [k EXCEPT !.invited = s]
  <2> DEFINE q == IF Len(loc[c].todo) = 1 THEN "iv_member" ELSE "iv_resolve"
  <2>1. Goto(c, q) /\ q \in Inviting /\ q \in {"iv_member", "iv_resolve"}
    BY <1>1 DEF InviteResolve, Inviting
  <2>2. loc' = [loc EXCEPT ![c] = l]
    <3>1. k.invited = loc[c].invited
      BY <1>0, InvitationFacts, OtherLocals
    <3>2. loc' = [loc EXCEPT ![c] = [[loc[c] EXCEPT !.todo = Tail(loc[c].todo)] EXCEPT
                               !.invited = Append(loc[c].invited, u)]]
      BY <1>0, <1>1, InvitationFacts DEF InviteResolve, Locals
    <3> QED BY <3>1, <3>2
  <2>3. Known(users, u)
    BY <1>1 DEF Known, FindByName, ContainsName, Usernames
  <2>4. l.req = loc[c].req /\ l.invited = s
    BY <1>0, InvitationFacts DEF Locals
  <2>5. \A i \in DOMAIN s : Known(users, s[i])
    <3> HIDE DEF u
    <3>1. \A i \in DOMAIN loc[c].invited : Known(users, loc[c].invited[i])
      BY <1>0, InvitationFacts
    <3>2. loc[c].invited \in Seq(UserCopy)
      BY <1>0, InvitationFacts
    <3>3. /\ DOMAIN s = 1..(Len(loc[c].invited) + 1) /\ s[Len(loc[c].invited) + 1] = u
          /\ \A i \in 1..Len(loc[c].invited) : s[i] = loc[c].invited[i]
          /\ DOMAIN loc[c].invited = 1..Len(loc[c].invited) /\ Len(loc[c].invited) \in Nat
      BY <3>2
    <3> HIDE DEF s
    <3> QED BY <2>3, <3>1, <3>3
  <2> HIDE DEF l, q, s, u, k
  <2> QED BY <1>0, <2>1, <2>2, <2>4, <2>5, GoesOnInviting
<1>2. CASE ~ContainsName(users, Head(loc[c].todo))
  <2>1. Reply(c, "NO_SUCH_USER")
    BY <1>2 DEF InviteResolve
  <2> QED BY <1>0, <2>1, ReplyInOrder
<1> QED BY <1>1, <1>2

LEMMA InvitingInOrder ==
  ASSUME IInv, OneAtATime, RoomsInv, NEW c \in Conns, InviteIsMember(c) \/ InviteIsGuest(c)
  PROVE  RoomsInv'
<1> DEFINE r == loc[c].req.roomname
<1> DEFINE u == Head(loc[c].invited)
<1>0. pc[c] \in Inviting \ {"iv_resolve"} /\ users' = users /\ rooms' = rooms
  BY DEF InviteIsMember, InviteIsGuest, Inviting, OnlyThread, tabVars
<1>1. (IsMember(r, u.fd) <=> MemberOf(r, u.name)) /\ (IsGuest(r, u.fd) <=> GuestOf(r, u.name))
  <2>1. Known(users, u) /\ Orderly(rooms, users, {})
    BY <1>0, InvitationFacts
  <2> HIDE DEF u, r
  <2> QED BY <2>1, RoomFindsEitherWay
<1>2. \A i \in DOMAIN loc[c].invited : Known(users, loc[c].invited[i])
  BY <1>0, InvitationFacts
<1>3. CASE InviteIsMember(c)
  <2> DEFINE l == [loc[c] EXCEPT !.isIn = IsMember(r, u.fd)]
  <2>1. loc' = [loc EXCEPT ![c] = l] /\ Goto(c, "iv_guest")
    BY <1>3 DEF InviteIsMember, Room, Req
  <2>2. l.req = loc[c].req /\ l.invited = loc[c].invited /\ l.isIn = IsMember(r, u.fd)
    BY <1>0, InvitationFacts, OtherLocals
  <2>3. l.isIn \/ ~MemberOf(l.req.roomname, Head(l.invited).name)
    BY <1>1, <2>2
  <2>4. "iv_guest" \in Inviting
    BY DEF Inviting
  <2>5. \A i \in DOMAIN l.invited : Known(users, l.invited[i])
    BY <1>2, <2>2
  <2> HIDE DEF l
  <2> QED BY <1>0, <2>1, <2>2, <2>3, <2>4, <2>5, GoesOnInviting
<1>4. CASE InviteIsGuest(c)
  <2>1. CASE loc[c].isIn \/ IsGuest(r, u.fd)
    <3>1. Done(c)
      BY <1>4, <2>1 DEF InviteIsGuest, Room, Req
    <3> QED BY <1>0, <3>1, InvitationFacts, DoneInOrder
  <2>2. CASE ~(loc[c].isIn \/ IsGuest(r, u.fd))
    <3>1. Goto(c, "iv_add") /\ loc' = [loc EXCEPT ![c] = loc[c]] /\ "iv_add" \in Inviting
      BY <1>0, <1>4, <2>2, InvitationFacts DEF InviteIsGuest, Inviting, Room, Req
    <3>2. loc[c].isIn \/ ~MemberOf(r, u.name)
      BY <1>4 DEF InviteIsGuest, RoomsInv, Informed
    <3>3. ~MemberOf(r, u.name) /\ ~GuestOf(r, u.name)
      BY <1>1, <2>2, <3>2
    <3> QED BY <1>0, <1>2, <3>1, <3>3, GoesOnInviting
  <2> QED BY <2>1, <2>2
<1> QED BY <1>3, <1>4

LEMMA InvitedInOrder ==
  ASSUME IInv, OneAtATime, RoomsInv, NEW c \in Conns, InviteAdd(c) \/ InviteSend(c)
  PROVE  RoomsInv'
<1> DEFINE r == loc[c].req.roomname
<1> DEFINE u == Head(loc[c].invited)
<1>0. pc[c] \in Inviting \ {"iv_resolve"} /\ users' = users
  BY DEF InviteAdd, InviteSend, Inviting, OnlyThread, OnlyThreadAndTables, tabVars
<1>1. /\ loc[c].invited \in Seq(UserCopy) /\ loc[c].invited # << >> /\ Known(users, u)
      /\ \A i \in DOMAIN loc[c].invited : Known(users, loc[c].invited[i])
      /\ RoomExists(r) /\ Usernames(rooms[r].members) # {} /\ Orderly(rooms, users, {})
      /\ loc = [loc EXCEPT ![c] = loc[c]] /\ loc[c] \in Locals
      /\ pc \in [Conns -> Places] /\ pc[c] \in Serving \ {"st_rooms"}
  BY <1>0, InvitationFacts
<1>2. CASE InviteAdd(c)
  <2> DEFINE m == rooms[r].members
  <2> DEFINE g == rooms[r].guests
  <2> DEFINE h == AddUser(g, u.name, u.fd, u.status)
  <2> DEFINE room == [members |-> m, guests |-> h]
  <2>1. WithRoom(r, room) /\ Goto(c, "iv_send") /\ loc' = loc
    BY <1>2 DEF InviteAdd, AddGuest, Room, Req
  <2>2. u.name \notin Usernames(m) /\ u.name \notin Usernames(g)
    <3>1. ~MemberOf(r, u.name) /\ ~GuestOf(r, u.name)
      BY <1>2 DEF InviteAdd, RoomsInv, Informed
    <3> QED BY <1>1, <3>1 DEF MemberOf, GuestOf
  <2>3. /\ CopyOf(m, users) /\ UpToDate(m, users, {}) /\ CopyOf(g, users) /\ UpToDate(g, users, {})
        /\ Agrees(users) /\ Usernames(m) \cap Usernames(g) = {}
    BY <1>1 DEF Orderly, Ordered, TablesOf, RoomExists
  <2>4. rooms' = [rooms EXCEPT ![r] = room]
    BY <1>1, <2>1 DEF WithRoom
  <2>5. r \in DOMAIN rooms' /\ Usernames(rooms'[r].members) # {}
    BY <1>1, <2>4 DEF RoomExists
  <2> HIDE DEF m, g, u
  <2>6. /\ Usernames(h) = Usernames(g) \cup {u.name}
        /\ \A n \in Usernames(g) : h.byName[n] = g.byName[n]
        /\ u.name \notin Usernames(g) => h.byName[u.name] = [fd |-> u.fd, status |-> u.status]
    BY AddUserEntries
  <2>7. CopyOf(h, users) /\ UpToDate(h, users, {})
    BY <1>1, <2>3, CopyGrows
  <2>8. Ordered(room, users) /\ \A t \in TablesOf(room) : UpToDate(t, users, {})
    <3> HIDE DEF h
    <3> QED BY <2>2, <2>3, <2>6, <2>7 DEF Ordered, TablesOf
  <2>9. pc'[c] = "iv_send"
    BY <1>1, <2>1 DEF Goto
  <2>10. Informed(pc[c], loc[c], fdOf[c])'
    BY <1>0, <1>1, <2>1, <2>5, <2>9 DEF Informed, Inviting, RoomExists
  <2> HIDE DEF room, r
  <2> QED BY <1>0, <1>1, <2>1, <2>8, <2>10, ServesARoom
<1>3. CASE InviteSend(c)
  <2>0. users' = users /\ rooms' = rooms
    BY <1>3 DEF InviteSend, OnlyThread, tabVars
  <2>1. CASE Done(c)
    BY <1>1, <2>0, <2>1, DoneInOrder
  <2>2. CASE Disconnect(c, u.fd)
    <3> DEFINE l == [loc[c] EXCEPT !.dfd = u.fd]
    <3>1. Goto(c, "dc_find") /\ loc' = [loc EXCEPT ![c] = l]
      BY <2>2 DEF Disconnect
    <3>2. "dc_find" \notin Learned \cup {"reply"}
      BY DEF Learned, Inviting
    <3> HIDE DEF l
    <3> QED BY <1>1, <2>0, <3>1, <3>2, GoesInOrder
  <2>3. CASE ~Done(c) /\ ~Disconnect(c, u.fd)
    <3> DEFINE s == Tail(loc[c].invited)
    <3> DEFINE l == [loc[c] EXCEPT !.invited = s]
    <3>1. Goto(c, "iv_member") /\ loc' = [loc EXCEPT ![c].invited = s]
      BY <1>3, <2>3 DEF InviteSend
    <3>2. loc' = [loc EXCEPT ![c] = l] /\ Goto(c, "iv_member") /\ "iv_member" \in Inviting
      BY <3>1 DEF Inviting
    <3>3. l.req = loc[c].req /\ l.invited = s
      BY <1>1, OtherLocals
    <3>4. \A i \in DOMAIN s : i \in Nat /\ i + 1 \in DOMAIN loc[c].invited /\ s[i] = loc[c].invited[i + 1]
      BY <1>1
    <3>5. \A i \in DOMAIN l.invited : Known(users, l.invited[i])
      BY <1>1, <3>3, <3>4
    <3> HIDE DEF l, s
    <3> QED BY <1>0, <2>0, <3>2, <3>3, <3>5, GoesOnInviting
  <2> QED BY <2>1, <2>2, <2>3
<1> QED BY <1>2, <1>3

-----------------------------------------------------------------------------
\* JOIN_ROOM, ROOM_USERS, ROOM_TEXT and LEAVE_ROOM.

\* Who joins was a guest, and is a member when it is told so.
LEMMA JoiningInOrder ==
  ASSUME IInv, OneAtATime, RoomsInv, NEW c \in Conns, JoinIsGuest(c) \/ JoinMove(c)
  PROVE  RoomsInv'
<1> DEFINE r == loc[c].req.roomname
<1> DEFINE u == loc[c].me
<1>0. /\ loc = [loc EXCEPT ![c] = loc[c]] /\ loc[c] \in Locals
      /\ pc \in [Conns -> Places] /\ loc \in [Conns -> Locals]
      /\ pc[c] \in Serving \ {"st_rooms"} /\ Orderly(rooms, users, {}) /\ Known(users, u)
  <2>1. pc[c] \in Serving \ {"st_rooms"} /\ pc[c] \in {"jn_guest", "jn_move"}
    BY DEF JoinIsGuest, JoinMove, Serving
  <2>2. Known(users, u)
    BY <2>1 DEF RoomsInv, Informed
  <2> QED BY <2>1, <2>2, OrderlyNow DEF IInv, TypeOK, RoomsInv
<1>1. CASE JoinIsGuest(c)
  <2>0. users' = users /\ rooms' = rooms
    BY <1>1 DEF JoinIsGuest, OnlyThread, tabVars
  <2>1. CASE IsGuest(r, u.fd)
    <3>1. Goto(c, "jn_move") /\ loc' = loc
      BY <1>1, <2>1 DEF JoinIsGuest, Room, Req
    <3>2. GuestOf(r, u.name)
      <4> HIDE DEF r, u
      <4> QED BY <1>0, <2>1, RoomFindsEitherWay
    <3>3. pc'[c] = "jn_move"
      BY <1>0, <3>1 DEF Goto
    <3>4. Informed(pc[c], loc[c], fdOf[c])'
      BY <1>0, <2>0, <3>1, <3>2, <3>3 DEF Informed, Inviting, GuestOf, RoomExists
    <3> QED BY <1>0, <2>0, <3>1, <3>4, ServesQuietly
  <2>2. CASE ~IsGuest(r, u.fd)
    <3>1. Reply(c, "NOT_INVITED")
      BY <1>1, <2>2 DEF JoinIsGuest, Room, Req
    <3> QED BY <1>0, <2>0, <3>1, ReplyInOrder
  <2> QED BY <2>1, <2>2
<1>2. CASE JoinMove(c)
  <2> DEFINE m == rooms[r].members
  <2> DEFINE g == rooms[r].guests
  <2> DEFINE a == AddUser(m, u.name, u.fd, u.status)
  <2> DEFINE b == RemoveUser(g, u.name)
  <2> DEFINE room == [members |-> a, guests |-> b]
  <2>1. /\ WithRoom(r, room) /\ users' = users /\ Goto(c, "reply")
        /\ loc' = [loc EXCEPT ![c].reply = "SUCCESS"]
    BY <1>2 DEF JoinMove, GuestToMember, Reply, Room, Req
  <2>2. RoomExists(r) /\ u.name \in Usernames(g)
    BY <1>2 DEF JoinMove, RoomsInv, Informed, GuestOf
  <2>3. /\ CopyOf(m, users) /\ UpToDate(m, users, {}) /\ CopyOf(g, users) /\ UpToDate(g, users, {})
        /\ Agrees(users) /\ Usernames(m) \cap Usernames(g) = {}
    BY <1>0, <2>2 DEF Orderly, Ordered, TablesOf, RoomExists
  <2>4. rooms' = [rooms EXCEPT ![r] = room]
    BY <2>1, <2>2 DEF WithRoom
  <2>5. r \in DOMAIN rooms' /\ rooms'[r].members = a
    BY <2>2, <2>4 DEF RoomExists
  <2>6. pc'[c] = "reply" /\ loc'[c] = [loc[c] EXCEPT !.reply = "SUCCESS"]
    BY <1>0, <2>1 DEF Goto
  <2>7. loc'[c].req = loc[c].req /\ loc'[c].me = u
    BY <1>0, <2>6, OtherLocals
  <2> HIDE DEF m, g
  <2>8. ContainsFd(a, u.fd)
    <3>1. u.name \notin Usernames(m)
      BY <2>2, <2>3
    <3> HIDE DEF u
    <3> QED BY <3>1 DEF AddUser, ContainsName, ContainsFd, Usernames
  <2>9. Informed(pc[c], loc[c], fdOf[c])'
    BY <2>5, <2>6, <2>7, <2>8 DEF Informed, Inviting, IsMember, RoomExists
  <2> HIDE DEF u
  <2>10. /\ Usernames(a) = Usernames(m) \cup {u.name}
         /\ \A n \in Usernames(m) : a.byName[n] = m.byName[n]
         /\ u.name \notin Usernames(m) => a.byName[u.name] = [fd |-> u.fd, status |-> u.status]
    BY AddUserEntries
  <2>14. /\ Usernames(b) = Usernames(g) \ {u.name}
         /\ \A n \in Usernames(g) \ {u.name} : b.byName[n] = g.byName[n]
    BY RemoveUserEntries, Zenon
  <2>11. CopyOf(a, users) /\ UpToDate(a, users, {})
    BY <1>0, <2>3, CopyGrows
  <2>12. CopyOf(b, users) /\ UpToDate(b, users, {})
    BY <2>3, CopyShrinks
  <2>13. Ordered(room, users) /\ \A t \in TablesOf(room) : UpToDate(t, users, {})
    <3> HIDE DEF a, b
    <3> QED BY <2>3, <2>10, <2>11, <2>12, <2>14 DEF Ordered, TablesOf
  <2> HIDE DEF room, r
  <2> QED BY <1>0, <2>1, <2>9, <2>13, ServesARoom
<1> QED BY <1>1, <1>2

\* Who leaves a room leaves its members; an emptied room is dropped as it is.
LEMMA LeavingInOrder ==
  ASSUME IInv, OneAtATime, RoomsInv, NEW c \in Conns,
         RoomUsersList(c) \/ RoomNotify(c) \/ LeaveRoom(c) \/ LeaveDropRoom(c)
  PROVE  RoomsInv'
<1> DEFINE r == loc[c].req.roomname
<1> DEFINE u == loc[c].me
<1>0. /\ loc = [loc EXCEPT ![c] = loc[c]] /\ loc[c] \in Locals
      /\ pc \in [Conns -> Places] /\ loc \in [Conns -> Locals]
      /\ pc[c] \in Serving \ {"st_rooms"} /\ Orderly(rooms, users, {})
  <2>1. pc[c] \in Serving \ {"st_rooms"}
    BY DEF RoomUsersList, RoomNotify, LeaveRoom, LeaveDropRoom, Serving
  <2> QED BY <2>1, OrderlyNow DEF IInv, TypeOK, RoomsInv
<1>1. CASE RoomUsersList(c)
  <2> DEFINE x == IF RoomExists(Room(c))
                  THEN {<< v.name, v.status >> : v \in UsersOf(rooms[Room(c)].members)} ELSE {}
  <2> DEFINE k == [loc[c] EXCEPT !.reply = "ROOM_USER_LIST"]
  <2> DEFINE l == [k EXCEPT !.list = x]
  <2>1. Goto(c, "reply") /\ loc' = [loc EXCEPT ![c] = l] /\ users' = users /\ rooms' = rooms
    BY <1>1 DEF RoomUsersList, OnlyThread, tabVars
  <2> HIDE DEF x
  <2>2. l.reply = "ROOM_USER_LIST"
    BY <1>0 DEF Locals
  <2>3. TellsNoJoin("reply", l) /\ "reply" \notin Learned
    BY <2>2 DEF TellsNoJoin, Learned, Inviting
  <2> HIDE DEF l
  <2> QED BY <1>0, <2>1, <2>3, ServesPlainly
<1>2. CASE RoomNotify(c)
  <2>1. users' = users /\ rooms' = rooms
    BY <1>2 DEF RoomNotify
  <2>2. CASE Done(c)
    BY <1>0, <2>1, <2>2, DoneInOrder
  <2>3. CASE ~Done(c)
    <3>1. Goto(c, "stuck") /\ loc' = loc
      BY <1>2, <2>3 DEF RoomNotify
    <3>2. "stuck" \notin Learned \cup {"reply"}
      BY DEF Learned, Inviting
    <3> QED BY <1>0, <2>1, <3>1, <3>2, GoesInOrder
  <2> QED BY <2>2, <2>3
<1>3. CASE LeaveRoom(c)
  <2> DEFINE m == rooms[r].members
  <2> DEFINE g == rooms[r].guests
  <2> DEFINE b == RemoveUser(m, u.name)
  <2> DEFINE room == [members |-> b, guests |-> g]
  <2> DEFINE q == IF RoomExists(r) /\ Usernames(m) \subseteq {u.name} THEN "lv_drop" ELSE "room_notify"
  <2>1. WithRoom(r, room) /\ users' = users /\ Goto(c, q) /\ loc' = loc
    BY <1>3 DEF LeaveRoom, RemoveMember, Room, Req
  <2>2. RoomExists(r)
    BY <1>3 DEF LeaveRoom, RoomsInv, Informed, MemberOf
  <2>3. /\ CopyOf(m, users) /\ UpToDate(m, users, {}) /\ CopyOf(g, users) /\ UpToDate(g, users, {})
        /\ Agrees(users) /\ Usernames(m) \cap Usernames(g) = {}
    BY <1>0, <2>2 DEF Orderly, Ordered, TablesOf, RoomExists
  <2>4. rooms' = [rooms EXCEPT ![r] = room]
    BY <2>1, <2>2 DEF WithRoom
  <2>5. r \in DOMAIN rooms' /\ rooms'[r].members = b
    BY <2>2, <2>4 DEF RoomExists
  <2>6. /\ Usernames(b) = Usernames(m) \ {u.name}
        /\ \A n \in Usernames(m) \ {u.name} : b.byName[n] = m.byName[n]
    BY RemoveUserEntries, Zenon
  <2>7. CopyOf(b, users) /\ UpToDate(b, users, {})
    BY <2>3, CopyShrinks
  <2>8. Ordered(room, users) /\ \A t \in TablesOf(room) : UpToDate(t, users, {})
    <3> HIDE DEF m, g, b
    <3> QED BY <2>3, <2>6, <2>7 DEF Ordered, TablesOf
  <2>9. pc'[c] = q
    BY <1>0, <2>1 DEF Goto
  <2>10. Informed(pc[c], loc[c], fdOf[c])'
    <3>1. CASE q = "lv_drop"
      <4>1. Usernames(m) \subseteq {u.name}
        BY <3>1
      <4>2. Usernames(b) = {}
        BY <2>6, <4>1
      <4> HIDE DEF b
      <4> QED BY <2>1, <2>5, <2>9, <3>1, <4>2 DEF Informed, Inviting, RoomExists
    <3>2. CASE q = "room_notify"
      BY <2>9, <3>2, KnowsNothing DEF Learned, Inviting, TellsNoJoin
    <3> QED BY <3>1, <3>2
  <2> HIDE DEF room, r, q
  <2> QED BY <1>0, <2>1, <2>8, <2>10, ServesARoom
<1>4. CASE LeaveDropRoom(c)
  <2>1. users' = users /\ DropRoom(r) /\ Goto(c, "room_notify")
    BY <1>4 DEF LeaveDropRoom, Room, Req
  <2>2. Orderly(rooms', users', {})
    BY <1>0, <2>1, RoomCloses
  <2>3. pc'[c] = "room_notify"
    BY <1>0, <2>1 DEF Goto
  <2>4. Informed(pc[c], loc[c], fdOf[c])'
    BY <2>3, KnowsNothing DEF Learned, Inviting, TellsNoJoin
  <2> QED BY <1>0, <2>1, <2>2, <2>4, OrderlyThen, Serves
<1> QED BY <1>1, <1>2, <1>3, <1>4

-----------------------------------------------------------------------------
\* The invariant is inductive.

\* A new thread, and what clients do, changes nothing a thread has learnt.
LEMMA ClientsInOrder ==
  ASSUME IInv, Beforehand, RoomsInv, NEW c \in Conns, ClientStep(c)
  PROVE  RoomsInv'
<1>1. users' = users /\ rooms' = rooms
  BY DEF ClientStep, Accept, Submit, Vanish, tabVars
<1>2. CASE Submit(c) \/ Vanish(c)
  BY <1>1, <1>2, Idles DEF Submit, Vanish
<1>3. CASE Accept(c)
  <2>1. pc[c] = "off" /\ loc' = loc /\ pc' = [pc EXCEPT ![c] = "next"] /\ pc \in [Conns -> Places]
    BY <1>3 DEF Accept, Goto, Beforehand, IInv, TypeOK
  <2>2. \A d \in Conns \ {c} : fdOf'[d] = fdOf[d] \/ pc[d] = "end"
    BY <1>3 DEF Accept
  <2>3. \A q \in {"next", "end"} : q \notin Learned /\ \A d \in Conns : TellsNoJoin(q, loc'[d])
    BY DEF Learned, Inviting, TellsNoJoin
  <2>4. \A d \in Conns : \/ pc'[d] = pc[d] /\ loc'[d] = loc[d] /\ fdOf'[d] = fdOf[d]
                         \/ pc[d] # "st_rooms" /\ pc'[d] \in {"next", "end"}
    BY <2>1, <2>2
  <2> QED BY <1>1, <2>1, <2>2, <2>3, <2>4, Idles
<1> QED BY <1>2, <1>3 DEF ClientStep

\* With the invariants of every execution, and one request served at a time
\* before the step, each step keeps the rooms in order.
LEMMA RoomsStep ==
  IInv /\ Beforehand /\ OneAtATime /\ RoomsInv /\ [Next]_vars => RoomsInv'
<1> SUFFICES ASSUME IInv, Beforehand, OneAtATime, RoomsInv, [Next]_vars PROVE RoomsInv'
  OBVIOUS
<1>1. ASSUME NEW c \in Conns, ClientStep(c) PROVE RoomsInv'
  BY <1>1, ClientsInOrder
<1>2. ASSUME NEW c \in Conns, ConnectionStep(c) PROVE RoomsInv'
  BY <1>2, ReceivingInOrder, TalkingInOrder, RemovingInOrder DEF ConnectionStep
<1>3. ASSUME NEW c \in Conns, HandlerStep(c) PROVE RoomsInv'
  BY <1>3, IdentifyInOrder, StatusInOrder, LookingInOrder DEF HandlerStep
<1>4. ASSUME NEW c \in Conns, RoomStep(c) PROVE RoomsInv'
  BY <1>4, NewRoomInOrder, EnteringInOrder, MemberInOrder, ResolvingInOrder, InvitingInOrder,
     InvitedInOrder, JoiningInOrder, LeavingInOrder DEF RoomStep
<1>5. CASE UNCHANGED vars
  BY <1>5, Idles DEF vars, tabVars
<1> QED BY <1>1, <1>2, <1>3, <1>4, <1>5 DEF Next, Idling, Thread

LEMMA RoomsStart == Init => RoomsInv /\ Beforehand
<1> SUFFICES ASSUME Init PROVE RoomsInv /\ Beforehand
  OBVIOUS
<1>1. \A c \in Conns : pc[c] = "off"
  BY DEF Init
<1>2. RoomsInOrder
  BY DEF Init, RoomsInOrder, Orderly, EmptyTable, Agrees, Coherent, Usernames
<1>3. \A c \in Conns : Informed(pc[c], loc[c], fdOf[c])
  BY <1>1 DEF Informed, Inviting
<1> QED BY <1>1, <1>2, <1>3 DEF RoomsInv, Beforehand, EnteringRoom

(* As long as requests are served one at a time the invariant holds: the rooms'
   copies follow the users table, and what a thread has learnt stays true.   *)
THEOREM RoomsInvariance == Spec /\ []OneAtATime => []RoomsInv
<1>1. Init => IInv /\ Beforehand /\ RoomsInv
  BY InitHolds, RoomsStart
<1>2. IInv /\ [Next]_vars => IInv'
  BY StepKeeps
<1>3. IInv /\ Beforehand /\ [Next]_vars => Beforehand'
  BY BeforehandKept
<1>4. IInv /\ Beforehand /\ OneAtATime /\ RoomsInv /\ [Next]_vars => RoomsInv'
  BY RoomsStep
<1> QED BY <1>1, <1>2, <1>3, <1>4, PTL DEF Spec

(* Nobody is a guest and a member of the same room, although INVITE looks at
   the members, looks at the guests and adds in three critical sections.    *)
THEOREM GuestOrMemberHolds == Spec /\ []OneAtATime => []GuestOrMember
<1>1. RoomsInv => GuestOrMember
  BY DEF RoomsInv, RoomsInOrder, Orderly, Ordered, GuestOrMember
<1> QED BY <1>1, RoomsInvariance, PTL

(* Nobody is left in a room after leaving the chat, however it left it.      *)
THEOREM RoomsForgetTheGoneHolds == Spec /\ []OneAtATime => []RoomsForgetTheGone
<1>1. RoomsInv => RoomsForgetTheGone
  <2> SUFFICES ASSUME RoomsInv, NEW r \in DOMAIN rooms, NEW u \in RoomUsers(r)
               PROVE  ContainsName(users, u.name) /\ FindByName(users, u.name).fd = u.fd
    BY DEF RoomsForgetTheGone
  <2>1. PICK t \in TablesOf(rooms[r]) : u \in UsersOf(t)
    BY DEF RoomUsers, TablesOf
  <2>2. CopyOf(t, users)
    BY <2>1 DEF RoomsInv, RoomsInOrder, Orderly, Ordered
  <2>3. PICK n \in Usernames(t) : u = FindByName(t, n)
    BY <2>1 DEF UsersOf
  <2> QED BY <2>2, <2>3 DEF CopyOf, FindByName, ContainsName, Usernames
<1> QED BY <1>1, RoomsInvariance, PTL

(* Once the server rests every copy of a user has the user's status, although
   STATUS changes the users table first and the rooms in a section of its
   own.                                                                     *)
THEOREM RoomsKnowTheStatusHolds == Spec /\ []OneAtATime => []RoomsKnowTheStatus
<1>1. RoomsInv => RoomsKnowTheStatus
  <2> SUFFICES ASSUME RoomsInv, Quiet, NEW r \in DOMAIN rooms, NEW u \in RoomUsers(r)
               PROVE  FindByName(users, u.name).status = u.status
    BY DEF RoomsKnowTheStatus
  <2>1. PICK t \in TablesOf(rooms[r]) : u \in UsersOf(t)
    BY DEF RoomUsers, TablesOf
  <2>2. Changing = {}
    BY DEF Quiet, Changing
  <2>3. UpToDate(t, users, {})
    BY <2>1, <2>2 DEF RoomsInv, RoomsInOrder, Orderly
  <2>4. PICK n \in Usernames(t) : u = FindByName(t, n)
    BY <2>1 DEF UsersOf
  <2> QED BY <2>3, <2>4 DEF UpToDate, FindByName
<1> QED BY <1>1, RoomsInvariance, PTL

-----------------------------------------------------------------------------
\* Only who founds a room or was its guest becomes a member.

LEMMA MembersAreInvited ==
  ASSUME IInv, RoomsInv, NEW c \in Conns, Thread(c),
         NEW r \in DOMAIN rooms', NEW n \in Usernames(rooms'[r].members)
  PROVE  EntersByInvitation(r, n)
<1> DEFINE Was == r \in DOMAIN rooms /\ n \in Usernames(rooms[r].members)
<1>1. ASSUME rooms' = rooms PROVE Was
  BY <1>1
<1>2. ASSUME NEW m, RemoveFromRooms(m) PROVE Was
  BY <1>2 DEF RemoveFromRooms, RemoveUser, Usernames
<1>3. ASSUME NEW fd, NEW s, UpdateStatusInRooms(fd, s) PROVE Was
  BY <1>3 DEF UpdateStatusInRooms, ChangeStatusByFd, Usernames
<1>4. ASSUME NEW q, AddRoom(q) PROVE Was
  BY <1>4 DEF AddRoom, EmptyTable, Usernames
<1>5. ASSUME NEW q, DropRoom(q) PROVE Was
  BY <1>5 DEF DropRoom
<1>6. ASSUME NEW q, NEW room, WithRoom(q, room)
      PROVE  Was \/ (q = r /\ RoomExists(q) /\ n \in Usernames(room.members))
  <2>1. CASE ~RoomExists(q)
    <3>1. rooms' = rooms
      BY <1>6, <2>1 DEF WithRoom
    <3> QED BY <1>1, <3>1
  <2>2. CASE RoomExists(q)
    <3>1. rooms' = [rooms EXCEPT ![q] = room]
      BY <1>6, <2>2 DEF WithRoom
    <3>2. r \in DOMAIN rooms /\ (q = r => rooms'[r] = room) /\ (q # r => rooms'[r] = rooms[r])
      BY <3>1
    <3>3. CASE q = r
      BY <2>2, <3>2, <3>3
    <3>4. CASE q # r
      <4>1. rooms'[r] = rooms[r] /\ r \in DOMAIN rooms
        BY <3>2, <3>4
      <4> QED BY <4>1
    <3> QED BY <3>3, <3>4
  <2> QED BY <2>1, <2>2
<1>7. Was => EntersByInvitation(r, n)
  BY DEF EntersByInvitation
<1> HIDE DEF Was
<1>8. CASE ConnectionStep(c)
  <2>1. CASE EvictFromRooms(c) \/ DisconnectFromRooms(c)
    BY <2>1, <1>2, <1>7 DEF EvictFromRooms, DisconnectFromRooms
  <2>2. CASE ~(EvictFromRooms(c) \/ DisconnectFromRooms(c))
    BY <2>2, <1>1, <1>7, <1>8 DEF ConnectionStep, RecvCall, RecvReturns, RecvEnds, Extract, BadJson,
       GateOpens, GateCloses, ReplyFatal, ReplyFails, ReplySent, NotifySize, NotifyEach, EvictNext,
       EvictFromUsers, EvictDone, DisconnectFind, DisconnectFromUsers, DisconnectClose,
       OnlyThread, OnlyThreadAndTables, OnlyThreadAndSeen, tabVars
  <2> QED BY <2>1, <2>2
<1>9. CASE HandlerStep(c)
  <2>1. CASE StatusChangeInRooms(c)
    BY <2>1, <1>3, <1>7 DEF StatusChangeInRooms
  <2>2. CASE ~StatusChangeInRooms(c)
    BY <2>2, <1>1, <1>7, <1>9 DEF HandlerStep, IdentifyFindFd, IdentifyFindName, IdentifyAdd,
       StatusFind, StatusChange, UsersList, TextFindAddressee, TextCompare, TextFindSender,
       TextSend, PublicTextFindSender, OnlyThread, OnlyThreadAndTables, tabVars
  <2> QED BY <2>1, <2>2
<1>10. CASE NewRoomAdd(c) \/ LeaveDropRoom(c)
  BY <1>10, <1>1, <1>4, <1>5, <1>7 DEF NewRoomAdd, LeaveDropRoom
<1>11. CASE NewRoomAddCreator(c)
  <2> DEFINE q == Clip16[Room(c)]
  <2> DEFINE u == loc[c].me
  <2> DEFINE m == rooms[q].members
  <2> DEFINE room == [members |-> AddUser(m, u.name, u.fd, u.status), guests |-> rooms[q].guests]
  <2>1. WithRoom(q, room) /\ pc[c] = "nr_creator"
    BY <1>11 DEF NewRoomAddCreator, AddMember
  <2>2. CASE q = r /\ RoomExists(q) /\ n \in Usernames(room.members)
    <3>1. n \in Usernames(m) \/ n = u.name
      BY <2>2 DEF AddUser, ContainsName, Usernames
    <3> QED BY <2>1, <2>2, <3>1 DEF EntersByInvitation, RoomExists
  <2> HIDE DEF q, room
  <2> QED BY <1>6, <1>7, <2>1, <2>2
<1>12. CASE JoinMove(c)
  <2> DEFINE q == Room(c)
  <2> DEFINE u == loc[c].me
  <2> DEFINE m == rooms[q].members
  <2> DEFINE room == [members |-> AddUser(m, u.name, u.fd, u.status),
                      guests |-> RemoveUser(rooms[q].guests, u.name)]
  <2>1. WithRoom(q, room) /\ GuestOf(q, u.name)
    BY <1>12 DEF JoinMove, GuestToMember, RoomsInv, Informed, Room, Req
  <2>2. CASE q = r /\ RoomExists(q) /\ n \in Usernames(room.members)
    <3>1. n \in Usernames(m) \/ n = u.name
      BY <2>2 DEF AddUser, ContainsName, Usernames
    <3> QED BY <2>1, <2>2, <3>1 DEF EntersByInvitation, RoomExists, GuestOf
  <2> HIDE DEF q, room
  <2> QED BY <1>6, <1>7, <2>1, <2>2
<1>13. CASE InviteAdd(c)
  <2> DEFINE q == Room(c)
  <2> DEFINE room == AddGuest(rooms[q], Head(loc[c].invited))
  <2>1. WithRoom(q, room) /\ room.members = rooms[q].members
    BY <1>13 DEF InviteAdd, AddGuest
  <2> HIDE DEF room
  <2> QED BY <1>6, <1>7, <2>1 DEF EntersByInvitation, RoomExists
<1>14. CASE LeaveRoom(c)
  <2> DEFINE q == Room(c)
  <2> DEFINE room == RemoveMember(rooms[q], loc[c].me)
  <2>1. WithRoom(q, room) /\ room.members = RemoveUser(rooms[q].members, loc[c].me.name)
    BY <1>14 DEF LeaveRoom, RemoveMember
  <2>2. n \in Usernames(room.members) => n \in Usernames(rooms[q].members)
    <3> DEFINE t == rooms[q].members
    <3> DEFINE m == loc[c].me.name
    <3>1. /\ Usernames(RemoveUser(t, m)) = Usernames(t) \ {m}
          /\ \A k \in Usernames(t) \ {m} : RemoveUser(t, m).byName[k] = t.byName[k]
      BY RemoveUserEntries, Zenon
    <3> QED BY <2>1, <3>1
  <2> HIDE DEF room
  <2> QED BY <1>6, <1>7, <2>1, <2>2 DEF EntersByInvitation, RoomExists
<1>15. CASE RoomStep(c) /\ ~(\/ NewRoomAdd(c) \/ LeaveDropRoom(c) \/ NewRoomAddCreator(c)
                            \/ JoinMove(c) \/ InviteAdd(c) \/ LeaveRoom(c))
  BY <1>1, <1>7, <1>15 DEF RoomStep, NewRoomContains, NewRoomFindCreator, RoomContains, RoomFindSender,
       RoomMember, InviteResolve, InviteIsMember, InviteIsGuest, InviteSend, JoinIsGuest,
       RoomUsersList, RoomNotify, OnlyThread, tabVars
<1> QED BY <1>8, <1>9, <1>10, <1>11, <1>12, <1>13, <1>14, <1>15 DEF Thread

(* Rooms are private: no step makes a member of anybody but the founder and the
   guests of that very room, although JOIN_ROOM looks at the guests in one
   critical section and moves one of them in another.                       *)
THEOREM NobodyJoinsUninvitedHolds == Spec /\ []OneAtATime => NobodyJoinsUninvited
<1> DEFINE Invited == \A r \in DOMAIN rooms' :
                        \A n \in Usernames(rooms'[r].members) : EntersByInvitation(r, n)
<1>1. IInv /\ RoomsInv /\ [Next]_vars => [Invited]_vars
  <2> SUFFICES ASSUME IInv, RoomsInv, [Next]_vars, vars' # vars PROVE Invited
    OBVIOUS
  <2>1. ASSUME NEW c \in Conns, ClientStep(c) PROVE Invited
    BY <2>1 DEF ClientStep, Accept, Submit, Vanish, tabVars, EntersByInvitation
  <2>2. ASSUME NEW c \in Conns, Thread(c) PROVE Invited
    BY <2>2, MembersAreInvited
  <2> QED BY <2>1, <2>2 DEF Next, Idling
<1> QED BY <1>1, RoomsInvariance, Invariance, PTL DEF Spec, NobodyJoinsUninvited

-----------------------------------------------------------------------------
\* The steps of Chat.

\* The rooms as Chat knows them.
RoomNames == [r \in DOMAIN rooms |-> [members |-> Usernames(rooms[r].members),
                                      guests  |-> Usernames(rooms[r].guests)]]

\* A step of Chat, or none.
InChat == TheChat!ChatNext \/ (users'.byName = users.byName /\ RoomNames' = RoomNames)

\* One room changes, for Chat.
LEMMA RoomNamesChange ==
  ASSUME NEW r, RoomExists(r), NEW room, WithRoom(r, room)
  PROVE  RoomNames' = [RoomNames EXCEPT ![r] = [members |-> Usernames(room.members),
                                                guests  |-> Usernames(room.guests)]]
<1>1. rooms' = [rooms EXCEPT ![r] = room] /\ r \in DOMAIN rooms
  BY DEF WithRoom, RoomExists
<1>2. DOMAIN rooms' = DOMAIN rooms
  BY <1>1
<1> QED BY <1>1, <1>2 DEF RoomNames

\* Steps of Chat by their names.
LEMMA ChatSteps ==
  ASSUME NEW n \in Names
  PROVE  /\ \A fd \in Fds : TheChat!ComesIn(n, fd) /\ RoomNames' = RoomNames => InChat
         /\ \A s \in Status : TheChat!ChangesStatus(n, s) /\ RoomNames' = RoomNames => InChat
         /\ TheChat!LeavesAllRooms(n) => InChat
         /\ TheChat!LeavesChat(n) => InChat
         /\ \A r \in Rooms : \/ TheChat!Founds(n, r) \/ TheChat!IsInvited(n, r)
                            \/ TheChat!Joins(n, r) \/ TheChat!LeavesRoom(n, r) => InChat
  BY Zenon DEF TheChat!ChatNext, InChat, RoomNames

LEMMA RoomSteps ==
  ASSUME NEW r \in Rooms, TheChat!Opens(r) \/ TheChat!Closes(r)
  PROVE  InChat
  BY Zenon DEF TheChat!ChatNext, InChat

LEMMA Stutters ==
  ASSUME users' = users, rooms' = rooms
  PROVE  InChat
  BY DEF InChat, RoomNames

\* Coming in, changing one's status and leaving are what they are in the lobby.
LEMMA AddingInChat ==
  ASSUME Agrees(users), NEW n \in Names, NEW fd \in Fds,
         ~ContainsName(users, n), ~ContainsFd(users, fd),
         users' = AddUser(users, n, fd, "ACTIVE"), rooms' = rooms
  PROVE  InChat
<1>1. \A m \in DOMAIN users.byName : users.byName[m].fd # fd
  BY DEF Agrees, ContainsFd, Usernames
<1>2. users'.byName = [m \in DOMAIN users.byName \cup {n} |->
                         IF m = n THEN [fd |-> fd, status |-> "ACTIVE"] ELSE users.byName[m]]
  BY DEF AddUser, Usernames
<1>3. TheChat!ComesIn(n, fd)
  BY <1>1, <1>2 DEF TheChat!ComesIn, ContainsName
<1>4. RoomNames' = RoomNames
  BY DEF RoomNames
<1> QED BY <1>3, <1>4, ChatSteps

LEMMA ChangingInChat ==
  ASSUME Table(users), Coherent(users), NEW fd, NEW s \in Status,
         users' = ChangeStatusByFd(users, fd, s), rooms' = rooms
  PROVE  InChat
<1>1. CASE ~ContainsFd(users, fd)
  BY <1>1, Stutters DEF ChangeStatusByFd
<1>2. CASE ContainsFd(users, fd)
  <2> DEFINE n == users.byFd[fd]
  <2>1. n \in DOMAIN users.byName /\ n \in Names
    BY <1>2 DEF Coherent, ContainsFd, Usernames, Table
  <2>2. users'.byName = [users.byName EXCEPT ![n] = [fd |-> @.fd, status |-> s]]
    BY <1>2 DEF ChangeStatusByFd, Usernames
  <2>3. TheChat!ChangesStatus(n, s)
    BY <2>1, <2>2 DEF TheChat!ChangesStatus
  <2>4. RoomNames' = RoomNames
    BY DEF RoomNames
  <2> QED BY <2>1, <2>3, <2>4, ChatSteps
<1> QED BY <1>1, <1>2

LEMMA LeavingInChat ==
  ASSUME Table(users), NEW n, Absent(n), users' = RemoveUser(users, n), rooms' = rooms
  PROVE  InChat
<1>1. CASE ~ContainsName(users, n)
  BY <1>1, Stutters DEF RemoveUser
<1>2. CASE ContainsName(users, n)
  <2>1. n \in DOMAIN users.byName /\ n \in Names
    BY <1>2 DEF ContainsName, Table, Usernames
  <2>2. users'.byName = [m \in DOMAIN users.byName \ {n} |-> users.byName[m]]
    BY <1>2 DEF RemoveUser, Usernames
  <2>3. \A r \in DOMAIN RoomNames : n \notin RoomNames[r].members \cup RoomNames[r].guests
    BY DEF RoomNames, Absent, TablesOf
  <2>4. TheChat!LeavesChat(n)
    BY <2>1, <2>2, <2>3 DEF TheChat!LeavesChat, TheChat!Leaves, TheChat!In, RoomNames
  <2> QED BY <2>1, <2>4, ChatSteps
<1> QED BY <1>1, <1>2

\* A name goes out of all rooms at once.
LEMMA LeavingRoomsInChat ==
  ASSUME NEW n \in Names, RemoveFromRooms(n), users' = users
  PROVE  InChat
<1>1. \A t : Usernames(RemoveUser(t, n)) = Usernames(t) \ {n}
  BY DEF RemoveUser, Usernames, ContainsName
<1>2. RoomNames' = [r \in DOMAIN rooms |-> [members |-> Usernames(rooms[r].members) \ {n},
                                            guests  |-> Usernames(rooms[r].guests) \ {n}]]
  BY <1>1 DEF RoomNames, RemoveFromRooms
<1>3. RoomNames' = [r \in DOMAIN RoomNames |-> [members |-> RoomNames[r].members \ {n},
                                                guests  |-> RoomNames[r].guests \ {n}]]
  BY <1>2 DEF RoomNames
<1>4. TheChat!LeavesAllRooms(n)
  BY <1>3 DEF TheChat!LeavesAllRooms, RoomNames
<1> QED BY <1>4, ChatSteps

\* Statuses are not what Chat keeps of a room.
LEMMA StatusesInChat ==
  ASSUME NEW fd, NEW s, UpdateStatusInRooms(fd, s), users' = users
  PROVE  InChat
<1>1. \A t : Usernames(ChangeStatusByFd(t, fd, s)) = Usernames(t)
  BY DEF ChangeStatusByFd, Usernames
<1>2. RoomNames' = RoomNames
  BY <1>1 DEF RoomNames, UpdateStatusInRooms
<1> QED BY <1>2 DEF InChat

\* Outside rooms.
LEMMA ConnectionStepInChat ==
  ASSUME IInv, RoomsInv, NEW c \in Conns, ConnectionStep(c)
  PROVE  InChat
<1>1. Table(users)
  BY DEF IInv, TypeOK
<1>2. CASE EvictFromUsers(c)
  <2>1. Absent(loc[c].victim.name)
    BY <1>2 DEF EvictFromUsers, RoomsInv, Informed
  <2> QED BY <1>1, <1>2, <2>1, LeavingInChat DEF EvictFromUsers
<1>3. CASE DisconnectFromUsers(c)
  <2>1. Absent(loc[c].gone.name)
    BY <1>3 DEF DisconnectFromUsers, RoomsInv, Informed
  <2> QED BY <1>1, <1>3, <2>1, LeavingInChat DEF DisconnectFromUsers
<1>4. CASE EvictFromRooms(c)
  <2>1. loc[c].victim \in UserCopy
    BY <1>4, ThreadFacts DEF EvictFromRooms, Holds
  <2>2. loc[c].victim.name \in Names
    BY <2>1 DEF UserCopy
  <2> QED BY <1>4, <2>2, LeavingRoomsInChat DEF EvictFromRooms
<1>5. CASE DisconnectFromRooms(c)
  <2>1. loc[c].gone \in UserCopy
    BY <1>5, ThreadFacts DEF DisconnectFromRooms, Holds
  <2>2. loc[c].gone.name \in Names
    BY <2>1 DEF UserCopy
  <2> QED BY <1>5, <2>2, LeavingRoomsInChat DEF DisconnectFromRooms
<1>6. CASE ~(EvictFromUsers(c) \/ DisconnectFromUsers(c) \/ EvictFromRooms(c) \/ DisconnectFromRooms(c))
  <2>1. users' = users /\ rooms' = rooms
    BY <1>6 DEF ConnectionStep, RecvCall, RecvReturns, RecvEnds, Extract, BadJson, GateOpens,
       GateCloses, ReplyFatal, ReplyFails, ReplySent, NotifySize, NotifyEach, EvictNext,
       EvictDone, DisconnectFind, DisconnectClose, OnlyThread, OnlyThreadAndSeen, tabVars
  <2> QED BY <2>1, Stutters
<1> QED BY <1>2, <1>3, <1>4, <1>5, <1>6

LEMMA HandlerStepInChat ==
  ASSUME IInv, RoomsInv, NEW c \in Conns, HandlerStep(c)
  PROVE  InChat
<1>1. Table(users) /\ Agrees(users) /\ Coherent(users)
  BY DEF IInv, TypeOK, RoomsInv, RoomsInOrder, Orderly, Agrees
<1>2. CASE IdentifyAdd(c)
  <2>1. pc[c] = "id_add" /\ rooms' = rooms
    BY <1>2 DEF IdentifyAdd
  <2>2. fdOf[c] \in Fds /\ Holds("id_add", loc[c]) /\ loc[c] \in Locals
    BY <2>1, ThreadFacts
  <2>3. Wanted(c) \in Names
    <3>1. Req(c) \in Request /\ Req(c).type = "IDENTIFY"
      BY <2>2, HoldsAt DEF Identifying, Basic, Req
    <3>2. Req(c).username \in Names
      BY <3>1, RequestFields
    <3> QED BY <3>2, ChatAssumption DEF Wanted
  <2>4. ~ContainsFd(users, fdOf[c])
    BY <2>1 DEF RoomsInv, Informed
  <2>5. \/ users' = users
        \/ ~ContainsName(users, Wanted(c)) /\ users' = AddUser(users, Wanted(c), fdOf[c], "ACTIVE")
    BY <1>2 DEF IdentifyAdd
  <2> QED BY <1>1, <2>1, <2>2, <2>3, <2>4, <2>5, AddingInChat, Stutters
<1>3. CASE StatusChange(c)
  <2>1. Req(c).status \in Status
    BY <1>3, ThreadFacts, HoldsAt DEF StatusChange, Req
  <2> QED BY <1>1, <1>3, <2>1, ChangingInChat DEF StatusChange
<1>4. CASE StatusChangeInRooms(c)
  BY <1>4, StatusesInChat DEF StatusChangeInRooms
<1>5. CASE ~(IdentifyAdd(c) \/ StatusChange(c) \/ StatusChangeInRooms(c))
  <2>1. users' = users /\ rooms' = rooms
    BY <1>5 DEF HandlerStep, StatusFind, UsersList, TextFindAddressee, TextCompare,
       TextFindSender, TextSend, PublicTextFindSender, IdentifyFindFd, IdentifyFindName,
       OnlyThread, tabVars
  <2> QED BY <2>1, Stutters
<1> QED BY <1>2, <1>3, <1>4, <1>5

\* Inside them: the rooms a request names exist, and who it moves is there.
LEMMA RoomsAreRooms ==
  ASSUME IInv, NEW r, RoomExists(r)
  PROVE  r \in Rooms
  BY DEF IInv, TypeOK, RoomExists

\* A room opens ...
LEMMA NewRoomOpens ==
  ASSUME IInv, NEW c \in Conns, NewRoomAdd(c)
  PROVE  InChat
<1> DEFINE r == Clip16[Room(c)]
<1>1. CASE rooms' = rooms
  BY <1>1, Stutters DEF NewRoomAdd
<1>2. CASE rooms' # rooms
  <2>1. ~RoomExists(r) /\ AddRoom(r) /\ users' = users
    BY <1>2 DEF NewRoomAdd
  <2>2. r \in Rooms
    <3>1. pc[c] = "nr_add"
      BY DEF NewRoomAdd
    <3>2. Req(c) \in Request /\ Req(c).type = "NEW_ROOM"
      BY <3>1, ThreadFacts DEF Holds, CreatingRoom, Serving, Req
    <3>3. Room(c) \in Rooms
      BY <3>2, RequestFields DEF Room
    <3> QED BY <3>3, ChatAssumption
  <2> HIDE DEF r
  <2>3. RoomNames' = [q \in DOMAIN RoomNames \cup {r} |->
                        IF q = r THEN [members |-> {}, guests |-> {}] ELSE RoomNames[q]]
    <3>1. Usernames(EmptyTable) = {}
      BY DEF EmptyTable, Usernames
    <3>2. DOMAIN rooms' = DOMAIN rooms \cup {r} /\ DOMAIN RoomNames = DOMAIN rooms
      BY <2>1 DEF AddRoom, RoomNames
    <3>3. ASSUME NEW q \in DOMAIN rooms \cup {r}
          PROVE  [members |-> Usernames(rooms'[q].members), guests |-> Usernames(rooms'[q].guests)]
                 = IF q = r THEN [members |-> {}, guests |-> {}] ELSE RoomNames[q]
      <4>1. CASE q = r
        <5>1. rooms'[q] = [members |-> EmptyTable, guests |-> EmptyTable]
          BY <2>1, <4>1 DEF AddRoom
        <5> QED BY <3>1, <4>1, <5>1
      <4>2. CASE q # r
        <5>1. q \in DOMAIN rooms /\ rooms'[q] = rooms[q]
          BY <2>1, <3>3, <4>2 DEF AddRoom
        <5> QED BY <4>2, <5>1 DEF RoomNames
      <4> QED BY <4>1, <4>2
    <3> QED BY <3>2, <3>3 DEF RoomNames
  <2>4. r \notin DOMAIN RoomNames
    BY <2>1 DEF RoomNames, RoomExists
  <2>5. TheChat!Opens(r)
    BY <2>1, <2>3, <2>4 DEF TheChat!Opens, RoomNames
  <2> QED BY <2>2, <2>5, RoomSteps
<1> QED BY <1>1, <1>2

\* ... and its founder enters it, ...
LEMMA CreatorFounds ==
  ASSUME IInv, RoomsInv, NEW c \in Conns, NewRoomAddCreator(c)
  PROVE  InChat
<1> DEFINE r == Clip16[Room(c)]
<1> DEFINE u == loc[c].me
<1> DEFINE m == rooms[r].members
<1> DEFINE g == rooms[r].guests
<1> DEFINE room == [members |-> AddUser(m, u.name, u.fd, u.status), guests |-> g]
<1>1. WithRoom(r, room) /\ pc[c] = "nr_creator" /\ users' = users
  BY DEF NewRoomAddCreator, AddMember
<1>2. RoomExists(r) /\ Usernames(m) = {} /\ Usernames(g) = {} /\ Known(users, u)
  BY <1>1 DEF RoomsInv, Informed, TablesOf, Room, Req
<1>3. u.name \in Names /\ r \in Rooms
  BY <1>1, <1>2, RoomsAreRooms DEF Known, IInv, TypeOK, Table
<1>4. RoomNames[r] = [members |-> {}, guests |-> {}] /\ r \in DOMAIN RoomNames
  BY <1>2 DEF RoomNames, RoomExists
<1>5. Usernames(AddUser(m, u.name, u.fd, u.status)) = {u.name}
  BY <1>2 DEF AddUser, Usernames, ContainsName
<1> HIDE DEF m, g
<1>6. RoomNames' = [RoomNames EXCEPT ![r] = [members |-> {u.name}, guests |-> {}]]
  <2>1. Usernames(room.members) = {u.name} /\ Usernames(room.guests) = {}
    BY <1>2, <1>5
  <2> HIDE DEF room, r
  <2> QED BY <1>1, <1>2, <2>1, RoomNamesChange
<1>7. TheChat!Founds(u.name, r)
  <2> HIDE DEF r, room
  <2> QED BY <1>1, <1>2, <1>4, <1>6 DEF TheChat!Founds, TheChat!With, RoomNames, Known, Usernames
<1> HIDE DEF r, u
<1> QED BY <1>3, <1>7, ChatSteps

\* ... a user becomes a guest, ...
LEMMA InviteeIsInvited ==
  ASSUME IInv, OneAtATime, RoomsInv, NEW c \in Conns, InviteAdd(c)
  PROVE  InChat
<1> DEFINE r == Room(c)
<1> DEFINE u == Head(loc[c].invited)
<1> DEFINE m == rooms[r].members
<1> DEFINE g == rooms[r].guests
<1> DEFINE room == [members |-> m, guests |-> AddUser(g, u.name, u.fd, u.status)]
<1>1. WithRoom(r, room) /\ pc[c] = "iv_add" /\ users' = users
  BY DEF InviteAdd, AddGuest
<1>2. RoomExists(r) /\ Usernames(m) # {} /\ Known(users, u)
  BY <1>1, InvitationFacts DEF Inviting, Room, Req
<1>3. u.name \notin Usernames(m) /\ u.name \notin Usernames(g)
  <2>1. ~MemberOf(r, u.name) /\ ~GuestOf(r, u.name)
    BY <1>1 DEF RoomsInv, Informed, Room, Req
  <2> QED BY <1>2, <2>1 DEF MemberOf, GuestOf
<1>4. u.name \in Names /\ r \in Rooms
  BY <1>1, <1>2, RoomsAreRooms DEF Known, IInv, TypeOK, Table
<1>5. RoomNames[r] = [members |-> Usernames(m), guests |-> Usernames(g)] /\ r \in DOMAIN RoomNames
  BY <1>2 DEF RoomNames, RoomExists
<1>6. Usernames(AddUser(g, u.name, u.fd, u.status)) = Usernames(g) \cup {u.name}
  BY <1>3 DEF AddUser, Usernames, ContainsName
<1> HIDE DEF m, g
<1>7. RoomNames' = [RoomNames EXCEPT ![r] = [members |-> RoomNames[r].members,
                                             guests |-> RoomNames[r].guests \cup {u.name}]]
  <2>1. Usernames(room.members) = RoomNames[r].members
        /\ Usernames(room.guests) = RoomNames[r].guests \cup {u.name}
    BY <1>5, <1>6
  <2> HIDE DEF room, r
  <2> QED BY <1>1, <1>2, <2>1, RoomNamesChange
<1>8. TheChat!IsInvited(u.name, r)
  <2> HIDE DEF r, room
  <2> QED BY <1>1, <1>2, <1>3, <1>5, <1>7
          DEF TheChat!IsInvited, TheChat!With, TheChat!In, RoomNames, Known, Usernames
<1> HIDE DEF r, u
<1> QED BY <1>4, <1>8, ChatSteps

\* ... a guest becomes a member, ...
LEMMA GuestJoins ==
  ASSUME IInv, OneAtATime, RoomsInv, NEW c \in Conns, JoinMove(c)
  PROVE  InChat
<1> DEFINE r == Room(c)
<1> DEFINE u == loc[c].me
<1> DEFINE m == rooms[r].members
<1> DEFINE g == rooms[r].guests
<1> DEFINE room == [members |-> AddUser(m, u.name, u.fd, u.status),
                    guests |-> RemoveUser(g, u.name)]
<1>1. WithRoom(r, room) /\ pc[c] = "jn_move" /\ users' = users
  BY DEF JoinMove, GuestToMember
<1>2. RoomExists(r) /\ Known(users, u) /\ u.name \in Usernames(g)
  BY <1>1 DEF RoomsInv, Informed, GuestOf, Room, Req
<1>3. u.name \in Names /\ r \in Rooms
  BY <1>1, <1>2, RoomsAreRooms DEF Known, IInv, TypeOK, Table
<1>4. RoomNames[r] = [members |-> Usernames(m), guests |-> Usernames(g)] /\ r \in DOMAIN RoomNames
  BY <1>2 DEF RoomNames, RoomExists
<1>5. Usernames(AddUser(m, u.name, u.fd, u.status)) = Usernames(m) \cup {u.name}
  BY DEF AddUser, Usernames, ContainsName
<1>6. Usernames(RemoveUser(g, u.name)) = Usernames(g) \ {u.name}
  BY DEF RemoveUser, Usernames, ContainsName
<1> HIDE DEF m, g
<1>7. RoomNames' = [RoomNames EXCEPT ![r] = [members |-> RoomNames[r].members \cup {u.name},
                                             guests |-> RoomNames[r].guests \ {u.name}]]
  <2>1. Usernames(room.members) = RoomNames[r].members \cup {u.name}
        /\ Usernames(room.guests) = RoomNames[r].guests \ {u.name}
    BY <1>4, <1>5, <1>6
  <2> HIDE DEF room, r
  <2> QED BY <1>1, <1>2, <2>1, RoomNamesChange
<1>8. TheChat!Joins(u.name, r)
  <2> HIDE DEF r, room
  <2> QED BY <1>1, <1>2, <1>4, <1>7 DEF TheChat!Joins, TheChat!With, RoomNames
<1> HIDE DEF r, u
<1> QED BY <1>3, <1>8, ChatSteps

\* ... a member leaves, ...
LEMMA MemberLeaves ==
  ASSUME IInv, RoomsInv, NEW c \in Conns, LeaveRoom(c)
  PROVE  InChat
<1> DEFINE r == Room(c)
<1> DEFINE u == loc[c].me
<1> DEFINE m == rooms[r].members
<1> DEFINE g == rooms[r].guests
<1> DEFINE room == [members |-> RemoveUser(m, u.name), guests |-> g]
<1>1. WithRoom(r, room) /\ pc[c] = "lv_leave" /\ users' = users
  BY DEF LeaveRoom, RemoveMember
<1>2. RoomExists(r) /\ Known(users, u) /\ u.name \in Usernames(m)
  BY <1>1 DEF RoomsInv, Informed, MemberOf, Room, Req
<1>3. u.name \in Names /\ r \in Rooms
  BY <1>1, <1>2, RoomsAreRooms DEF Known, IInv, TypeOK, Table
<1>4. RoomNames[r] = [members |-> Usernames(m), guests |-> Usernames(g)] /\ r \in DOMAIN RoomNames
  BY <1>2 DEF RoomNames, RoomExists
<1>5. Usernames(RemoveUser(m, u.name)) = Usernames(m) \ {u.name}
  BY DEF RemoveUser, Usernames, ContainsName
<1> HIDE DEF m, g
<1>6. RoomNames' = [RoomNames EXCEPT ![r] = [members |-> RoomNames[r].members \ {u.name},
                                             guests |-> RoomNames[r].guests]]
  <2>1. Usernames(room.members) = RoomNames[r].members \ {u.name}
        /\ Usernames(room.guests) = RoomNames[r].guests
    BY <1>4, <1>5
  <2> HIDE DEF room, r
  <2> QED BY <1>1, <1>2, <2>1, RoomNamesChange
<1>7. TheChat!LeavesRoom(u.name, r)
  <2> HIDE DEF r, room
  <2> QED BY <1>1, <1>2, <1>4, <1>6 DEF TheChat!LeavesRoom, TheChat!With, RoomNames
<1> HIDE DEF r, u
<1> QED BY <1>3, <1>7, ChatSteps

\* ... and the room it emptied closes.
LEMMA EmptiedRoomCloses ==
  ASSUME IInv, RoomsInv, NEW c \in Conns, LeaveDropRoom(c)
  PROVE  InChat
<1> DEFINE r == Room(c)
<1>1. DropRoom(r) /\ pc[c] = "lv_drop" /\ users' = users
  BY DEF LeaveDropRoom
<1>2. RoomExists(r) /\ Usernames(rooms[r].members) = {}
  BY <1>1 DEF RoomsInv, Informed, Room, Req
<1>3. r \in Rooms
  BY <1>2, RoomsAreRooms
<1> HIDE DEF r
<1>4. r \in DOMAIN RoomNames /\ RoomNames[r].members = {}
  BY <1>2 DEF RoomNames, RoomExists
<1>5. RoomNames' = [q \in DOMAIN RoomNames \ {r} |-> RoomNames[q]]
  BY <1>1 DEF RoomNames, DropRoom
<1>6. TheChat!Closes(r)
  BY <1>1, <1>4, <1>5 DEF TheChat!Closes, RoomNames
<1> QED BY <1>3, <1>6, RoomSteps

\* The other steps of the handlers of rooms only look.
LEMMA RoomStepInChat ==
  ASSUME IInv, OneAtATime, RoomsInv, NEW c \in Conns, RoomStep(c)
  PROVE  InChat
<1>1. CASE \/ NewRoomAdd(c) \/ NewRoomAddCreator(c) \/ InviteAdd(c) \/ JoinMove(c)
           \/ LeaveRoom(c) \/ LeaveDropRoom(c)
  BY <1>1, NewRoomOpens, CreatorFounds, InviteeIsInvited, GuestJoins, MemberLeaves, EmptiedRoomCloses
<1>2. CASE ~(\/ NewRoomAdd(c) \/ NewRoomAddCreator(c) \/ InviteAdd(c) \/ JoinMove(c)
             \/ LeaveRoom(c) \/ LeaveDropRoom(c))
  <2>1. users' = users /\ rooms' = rooms
    BY <1>2 DEF RoomStep, NewRoomContains, NewRoomFindCreator, RoomContains, RoomFindSender,
       RoomMember, InviteResolve, InviteIsMember, InviteIsGuest, InviteSend, JoinIsGuest,
       RoomUsersList, RoomNotify, OnlyThread, tabVars
  <2> QED BY <2>1, Stutters
<1> QED BY <1>1, <1>2

(* With requests served one at a time the server implements Chat: every step of
   every handler opens, founds or closes a room, invites or moves one user,
   takes one out of all rooms, lets one in or out of the chat, or is invisible.
   An INVITE, a LEAVE_ROOM, an eviction or a disconnection is a few of them, and
   whoever leaves the chat has left its rooms before.                        *)
THEOREM ServerImplementsChat == Spec /\ []OneAtATime => ServesTheChat
<1>1. Init => TheChat!ChatInit
  BY DEF Init, EmptyTable, TheChat!ChatInit, TheChat!LobbyInit
<1>2. IInv /\ OneAtATime /\ RoomsInv /\ [Next]_vars
        => [TheChat!ChatNext]_<< users.byName, RoomNames >>
  <2> SUFFICES ASSUME IInv, OneAtATime, RoomsInv, [Next]_vars PROVE InChat
    BY DEF InChat
  <2>1. ASSUME NEW c \in Conns, ClientStep(c) PROVE InChat
    BY <2>1, Stutters DEF ClientStep, Accept, Submit, Vanish, tabVars
  <2>2. ASSUME NEW c \in Conns, Thread(c) PROVE InChat
    BY <2>2, ConnectionStepInChat, HandlerStepInChat, RoomStepInChat DEF Thread
  <2>3. CASE UNCHANGED vars
    BY <2>3, Stutters DEF vars, tabVars
  <2> QED BY <2>1, <2>2, <2>3 DEF Next, Idling
<1> QED BY <1>1, <1>2, RoomsInvariance, Invariance, PTL
      DEF Spec, ServesTheChat, TheChat!ChatSpec, TheChat!chatVars, RoomNames
=============================================================================
