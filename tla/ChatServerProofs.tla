-------------------------- MODULE ChatServerProofs --------------------------
(***************************************************************************)
(* Proofs about ChatServer for any set of connections, any number of         *)
(* descriptors, any menus and any failures; first, what the operations of    *)
(* users_table.c do to any table, for every argument.                        *)
(***************************************************************************)
EXTENDS ChatServer, FiniteSetTheorems, SequenceTheorems, TLAPS

\* A new table has nothing that could dangle.
LEMMA EmptyTableCoherent == Coherent(EmptyTable) /\ Usernames(EmptyTable) = {}
  BY DEF Coherent, EmptyTable, Usernames

\* Names of a table after each operation.
LEMMA UsernamesAfter ==
  ASSUME NEW t, NEW n, NEW fd, NEW status
  PROVE  /\ Usernames(AddUser(t, n, fd, status)) = Usernames(t) \cup {n}
         /\ Usernames(RemoveUser(t, n)) = Usernames(t) \ {n}
         /\ Usernames(ChangeStatusByFd(t, fd, status)) = Usernames(t)
  BY DEF Usernames, AddUser, RemoveUser, ChangeStatusByFd, ContainsName, ContainsFd

(* users_table_add leaves every index entry live: the new one points at the
   new user, and an old one cannot point at it, since its name was free.    *)
LEMMA AddUserCoherent ==
  ASSUME NEW t, NEW n, NEW fd, NEW status, Coherent(t)
  PROVE  Coherent(AddUser(t, n, fd, status))
<1>1. CASE ContainsName(t, n)
  BY <1>1 DEF AddUser
<1>2. CASE ~ContainsName(t, n)
  <2> DEFINE s == AddUser(t, n, fd, status)
  <2>1. s = [byName |-> [m \in Usernames(t) \cup {n} |->
                           IF m = n THEN [fd |-> fd, status |-> status] ELSE t.byName[m]],
             byFd   |-> [f \in DOMAIN t.byFd \cup {fd} |-> IF f = fd THEN n ELSE t.byFd[f]]]
    BY <1>2 DEF AddUser
  <2>2. ASSUME NEW f \in DOMAIN s.byFd
        PROVE  s.byFd[f] \in Usernames(s) /\ s.byName[s.byFd[f]].fd = f
    <3>1. CASE f = fd
      BY <2>1, <3>1 DEF Usernames
    <3>2. CASE f # fd
      <4>1. f \in DOMAIN t.byFd /\ s.byFd[f] = t.byFd[f]
        BY <2>1, <2>2, <3>2
      <4>2. t.byFd[f] \in Usernames(t) /\ t.byName[t.byFd[f]].fd = f /\ t.byFd[f] # n
        BY <4>1, <1>2 DEF Coherent, ContainsName, Usernames
      <4> QED BY <2>1, <4>1, <4>2 DEF Usernames
    <3> QED BY <3>1, <3>2
  <2> QED BY <2>2 DEF Coherent
<1> QED BY <1>1, <1>2

(* users_table_remove leaves every index entry live: the only one that could
   point at the removed user is that of the descriptor it recorded.         *)
LEMMA RemoveUserCoherent ==
  ASSUME NEW t, NEW n, Coherent(t)
  PROVE  Coherent(RemoveUser(t, n))
<1>1. CASE ~ContainsName(t, n)
  BY <1>1 DEF RemoveUser
<1>2. CASE ContainsName(t, n)
  <2> DEFINE s == RemoveUser(t, n)
  <2>1. s = [byName |-> [m \in Usernames(t) \ {n} |-> t.byName[m]],
             byFd   |-> [f \in DOMAIN t.byFd \ {t.byName[n].fd} |-> t.byFd[f]]]
    BY <1>2 DEF RemoveUser
  <2>2. ASSUME NEW f \in DOMAIN s.byFd
        PROVE  s.byFd[f] \in Usernames(s) /\ s.byName[s.byFd[f]].fd = f
    <3>1. f \in DOMAIN t.byFd /\ f # t.byName[n].fd /\ s.byFd[f] = t.byFd[f]
      BY <2>1, <2>2
    <3>2. t.byFd[f] \in Usernames(t) /\ t.byName[t.byFd[f]].fd = f
      BY <3>1 DEF Coherent
    <3>3. t.byFd[f] # n
      BY <3>1, <3>2
    <3> QED BY <2>1, <3>1, <3>2, <3>3 DEF Usernames
  <2> QED BY <2>2 DEF Coherent
<1> QED BY <1>1, <1>2

\* A change of status touches neither names nor descriptors.
LEMMA ChangeStatusCoherent ==
  ASSUME NEW t, NEW fd, NEW status, Coherent(t)
  PROVE  Coherent(ChangeStatusByFd(t, fd, status))
  BY DEF Coherent, ChangeStatusByFd, Usernames, ContainsFd

-----------------------------------------------------------------------------
\* The two directions stay in agreement.

\* Adding a free name under a free descriptor keeps the directions in agreement.
LEMMA AddUserAgrees ==
  ASSUME NEW t, Agrees(t), NEW n, NEW fd, NEW status,
         ~ContainsName(t, n), ~ContainsFd(t, fd)
  PROVE  /\ Agrees(AddUser(t, n, fd, status))
         /\ \A f : ContainsFd(AddUser(t, n, fd, status), f) => f = fd \/ ContainsFd(t, f)
<1> DEFINE u == AddUser(t, n, fd, status)
<1>1. /\ Usernames(u) = Usernames(t) \cup {n} /\ DOMAIN u.byFd = DOMAIN t.byFd \cup {fd}
      /\ u.byName[n].fd = fd /\ u.byFd[fd] = n
      /\ \A m \in Usernames(t) : u.byName[m] = t.byName[m]
      /\ \A f \in DOMAIN t.byFd : u.byFd[f] = t.byFd[f]
  BY DEF AddUser, ContainsName, ContainsFd, Usernames
<1> HIDE DEF u
<1>2. Coherent(u)
  BY <1>1 DEF Agrees, Coherent, ContainsName
<1>3. \A m \in Usernames(u) : ContainsFd(u, u.byName[m].fd) /\ u.byFd[u.byName[m].fd] = m
  BY <1>1 DEF Agrees, ContainsFd
<1>4. \A f : ContainsFd(u, f) => f = fd \/ ContainsFd(t, f)
  BY <1>1 DEF ContainsFd
<1> QED BY <1>2, <1>3, <1>4 DEF Agrees, u

\* So does removing a user, whose index entry is its own, ...
LEMMA RemoveUserAgrees ==
  ASSUME NEW t, Agrees(t), NEW n
  PROVE  /\ Agrees(RemoveUser(t, n))
         /\ \A f : ContainsFd(RemoveUser(t, n), f) => ContainsFd(t, f)
<1>1. CASE ~ContainsName(t, n)
  BY <1>1 DEF RemoveUser
<1>2. CASE ContainsName(t, n)
  <2> DEFINE u == RemoveUser(t, n)
  <2>1. /\ Usernames(u) = Usernames(t) \ {n}
        /\ DOMAIN u.byFd = DOMAIN t.byFd \ {t.byName[n].fd}
        /\ \A m \in Usernames(u) : u.byName[m] = t.byName[m]
        /\ \A f \in DOMAIN u.byFd : u.byFd[f] = t.byFd[f]
    BY <1>2 DEF RemoveUser, Usernames
  <2> HIDE DEF u
  <2>2. n \in Usernames(t)
    BY <1>2 DEF ContainsName, Usernames
  <2>3. Coherent(u)
    BY <2>1, <2>2 DEF Agrees, Coherent, ContainsFd
  <2>4. \A m \in Usernames(u) : ContainsFd(u, u.byName[m].fd) /\ u.byFd[u.byName[m].fd] = m
    BY <2>1, <2>2 DEF Agrees, ContainsFd
  <2>5. \A f : ContainsFd(u, f) => ContainsFd(t, f)
    BY <2>1 DEF ContainsFd
  <2> QED BY <2>3, <2>4, <2>5 DEF Agrees, u
<1> QED BY <1>1, <1>2

\* ... and changing a status.
LEMMA ChangeStatusAgrees ==
  ASSUME NEW t, Agrees(t), NEW fd, NEW status
  PROVE  /\ Agrees(ChangeStatusByFd(t, fd, status))
         /\ \A f : ContainsFd(ChangeStatusByFd(t, fd, status), f) => ContainsFd(t, f)
<1> DEFINE u == ChangeStatusByFd(t, fd, status)
<1>1. /\ Usernames(u) = Usernames(t) /\ u.byFd = t.byFd
      /\ \A m \in Usernames(t) : u.byName[m].fd = t.byName[m].fd
  BY DEF ChangeStatusByFd, Usernames
<1> HIDE DEF u
<1>2. Coherent(u)
  BY <1>1 DEF Agrees, Coherent
<1>3. \A m \in Usernames(u) : ContainsFd(u, u.byName[m].fd) /\ u.byFd[u.byName[m].fd] = m
  BY <1>1 DEF Agrees, ContainsFd
<1>4. \A f : ContainsFd(u, f) => ContainsFd(t, f)
  BY <1>1 DEF ContainsFd
<1> QED BY <1>2, <1>3, <1>4 DEF Agrees, u

-----------------------------------------------------------------------------
\* What each operation does to the entries: an add, ...
LEMMA AddUserEntries ==
  ASSUME NEW t, NEW n, NEW fd, NEW status
  PROVE  /\ Usernames(AddUser(t, n, fd, status)) = Usernames(t) \cup {n}
         /\ \A m \in Usernames(t) : AddUser(t, n, fd, status).byName[m] = t.byName[m]
         /\ n \notin Usernames(t) =>
              AddUser(t, n, fd, status).byName[n] = [fd |-> fd, status |-> status]
  BY DEF Usernames, AddUser, ContainsName

\* ... a removal, ...
LEMMA RemoveUserEntries ==
  ASSUME NEW t, NEW n
  PROVE  /\ Usernames(RemoveUser(t, n)) = Usernames(t) \ {n}
         /\ \A m \in Usernames(t) \ {n} : RemoveUser(t, n).byName[m] = t.byName[m]
  BY DEF Usernames, RemoveUser, ContainsName

\* ... and a change of status.
LEMMA ChangeStatusEntries ==
  ASSUME NEW t, NEW fd, NEW status
  PROVE  /\ Usernames(ChangeStatusByFd(t, fd, status)) = Usernames(t)
         /\ \A m \in Usernames(t) :
              /\ ChangeStatusByFd(t, fd, status).byName[m].fd = t.byName[m].fd
              /\ ChangeStatusByFd(t, fd, status).byName[m].status =
                   IF ContainsFd(t, fd) /\ m = t.byFd[fd] THEN status ELSE t.byName[m].status
  BY DEF Usernames, ChangeStatusByFd

-----------------------------------------------------------------------------
\* The invariant.

\* A table of the right shape whose index is live.
Sound(t) == Table(t) /\ Coherent(t)

(* The inductive invariant.  TypeOK is not inductive alone: a handler adds to a
   table what it finds in its locals, so these must have been filled in
   (LocalsReady), and what a lookup by descriptor copies into them is a user
   only if the index is live (TablesCoherent).                              *)
IInv == TypeOK /\ LocalsReady /\ TablesCoherent

\* Its two halves: the threads, and all they share.
RoomsSound == \A r \in DOMAIN rooms : /\ r \in Rooms
                                      /\ Sound(rooms[r].members) /\ Sound(rooms[r].guests)
Threads == pc \in [Conns -> Places] /\ loc \in [Conns -> Locals] /\ LocalsReady
Sockets ==
  /\ peer \in [Conns -> {"away", "here", "leaving", "gone"}]
  /\ sent \in [Conns -> Nat]
  /\ wire \in [Conns -> Seq(Request)]
  /\ fdt \in [Fds -> Conns \cup {None}]
  /\ fdOf \in [Conns -> Fds \cup {0}]
  /\ bound \in [Conns -> Conns \cup {None}]
  /\ buf \in [Conns -> Seq(Line)]
Tables == Sound(users) /\ RoomsSound /\ roomsLock \in Conns \cup {None}
Observers == self \in [Conns -> Names \cup {None}] /\ seen \in [Conns -> [Names -> Views]]

\* The invariant in the four parts a step is checked against.
LEMMA Halves == IInv <=> Threads /\ Sockets /\ Tables /\ Observers
  BY DEF IInv, TypeOK, TablesCoherent, UsersCoherent, RoomsCoherent, Threads, Sockets,
         Tables, RoomsSound, Sound, Observers

-----------------------------------------------------------------------------
\* Tables.

\* What a lookup that succeeds copies out of a sound table is a user.
LEMMA LookupsYieldUsers ==
  ASSUME NEW t, Sound(t)
  PROVE  /\ \A n : ContainsName(t, n) => FindByName(t, n) \in UserCopy
         /\ \A f : ContainsFd(t, f) => FindByFd(t, f) \in UserCopy
         /\ UsersOf(t) \subseteq UserCopy
<1>1. ASSUME NEW n, ContainsName(t, n) PROVE FindByName(t, n) \in UserCopy
  BY <1>1 DEF Sound, Table, ContainsName, Usernames, FindByName, UserCopy
<1>2. ASSUME NEW f, ContainsFd(t, f) PROVE FindByFd(t, f) \in UserCopy
  <2>1. ContainsName(t, t.byFd[f])
    BY <1>2 DEF Sound, Coherent, ContainsFd, ContainsName, Usernames
  <2> QED BY <1>1, <2>1 DEF FindByFd
<1>3. UsersOf(t) \subseteq UserCopy
  BY <1>1 DEF UsersOf, ContainsName, Usernames
<1> QED BY <1>1, <1>2, <1>3

\* users_table_add leaves a table sound: typed, and with no dangling index entry.
LEMMA AddUserSound ==
  ASSUME NEW t, Sound(t), NEW n \in Names, NEW fd \in Fds, NEW status \in Status
  PROVE  Sound(AddUser(t, n, fd, status))
<1>1. Coherent(AddUser(t, n, fd, status))
  BY AddUserCoherent DEF Sound
<1>2. Table(AddUser(t, n, fd, status))
  BY DEF Sound, Table, AddUser, Usernames, ContainsName
<1> QED BY <1>1, <1>2 DEF Sound

\* So does users_table_remove, ...
LEMMA RemoveUserSound ==
  ASSUME NEW t, Sound(t), NEW n
  PROVE  Sound(RemoveUser(t, n))
<1>1. Coherent(RemoveUser(t, n))
  BY RemoveUserCoherent DEF Sound
<1>2. Table(RemoveUser(t, n))
  BY DEF Sound, Table, RemoveUser, Usernames, ContainsName
<1> QED BY <1>1, <1>2 DEF Sound

\* ... and so does a change of status.
LEMMA ChangeStatusSound ==
  ASSUME NEW t, Sound(t), NEW fd, NEW status \in Status
  PROVE  Sound(ChangeStatusByFd(t, fd, status))
<1>1. Coherent(ChangeStatusByFd(t, fd, status))
  BY ChangeStatusCoherent DEF Sound
<1>2. Table(ChangeStatusByFd(t, fd, status))
  BY DEF Sound, Table, ChangeStatusByFd, Usernames, ContainsFd
<1> QED BY <1>1, <1>2 DEF Sound

\* What message_handler.c does to every room leaves every room sound, ...
LEMMA RemoveFromRoomsSound ==
  ASSUME RoomsSound, NEW n, RemoveFromRooms(n)
  PROVE  RoomsSound'
<1>1. ASSUME NEW r \in DOMAIN rooms'
      PROVE  r \in Rooms /\ Sound(rooms'[r].members) /\ Sound(rooms'[r].guests)
  <2>1. /\ r \in DOMAIN rooms
        /\ rooms'[r] = [members |-> RemoveUser(rooms[r].members, n),
                        guests  |-> RemoveUser(rooms[r].guests, n)]
    BY <1>1 DEF RemoveFromRooms
  <2>2. r \in Rooms /\ Sound(rooms[r].members) /\ Sound(rooms[r].guests)
    BY <2>1 DEF RoomsSound
  <2> QED BY <2>1, <2>2, RemoveUserSound
<1> QED BY <1>1 DEF RoomsSound, Sound, Table, Coherent

\* ... the status that room_update_status writes into each, ...
LEMMA UpdateStatusInRoomsSound ==
  ASSUME RoomsSound, NEW fd, NEW status \in Status, UpdateStatusInRooms(fd, status)
  PROVE  RoomsSound'
<1>1. ASSUME NEW r \in DOMAIN rooms'
      PROVE  r \in Rooms /\ Sound(rooms'[r].members) /\ Sound(rooms'[r].guests)
  <2>1. /\ r \in DOMAIN rooms
        /\ rooms'[r] = [members |-> ChangeStatusByFd(rooms[r].members, fd, status),
                        guests  |-> ChangeStatusByFd(rooms[r].guests, fd, status)]
    BY <1>1 DEF UpdateStatusInRooms
  <2>2. r \in Rooms /\ Sound(rooms[r].members) /\ Sound(rooms[r].guests)
    BY <2>1 DEF RoomsSound
  <2> QED BY <2>1, <2>2, ChangeStatusSound
<1> QED BY <1>1 DEF RoomsSound, Sound, Table, Coherent

\* ... and so does replacing the tables of one room, as room_table_with does.
LEMMA OneRoomSound ==
  ASSUME RoomsSound, NEW r, NEW room, Sound(room.members), Sound(room.guests),
         rooms' = IF RoomExists(r) THEN [rooms EXCEPT ![r] = room] ELSE rooms
  PROVE  RoomsSound'
<1>1. ASSUME NEW q \in DOMAIN rooms'
      PROVE  q \in Rooms /\ Sound(rooms'[q].members) /\ Sound(rooms'[q].guests)
  <2>1. q \in DOMAIN rooms /\ (rooms'[q] = room \/ rooms'[q] = rooms[q])
    BY <1>1 DEF RoomExists
  <2>2. q \in Rooms /\ Sound(rooms[q].members) /\ Sound(rooms[q].guests)
    BY <2>1 DEF RoomsSound
  <2>3. CASE rooms'[q] = room
    BY <2>2, <2>3
  <2>4. CASE rooms'[q] = rooms[q]
    BY <2>2, <2>4
  <2> QED BY <2>1, <2>3, <2>4
<1> QED BY <1>1 DEF RoomsSound, Sound, Table, Coherent

-----------------------------------------------------------------------------
\* Steps of a thread, as far as the thread is concerned.

Basic(l) == l.req \in Request /\ l.from \in Conns /\ l.dfd \in Fds

\* Holds, place by place.
LEMMA HoldsAt ==
  ASSUME NEW l
  PROVE  /\ \A p \in {"off", "next", "blocked", "end", "stuck", "overrun"} : Holds(p, l)
         /\ \A p \in {"reply", "bad_json", "gate", "us_list", "tx_find_to", "pt_find", "ru_list", "room_notify", "lv_drop",
                      "dc_find", "dc_close", "iv_resolve"} : Holds(p, l) <=> Basic(l)
         /\ \A p \in Identifying : Holds(p, l) <=> Basic(l) /\ l.req.type = "IDENTIFY"
         /\ \A p \in {"nr_contains", "nr_add", "nr_find"} :
              Holds(p, l) <=> Basic(l) /\ l.req.type = "NEW_ROOM"
         /\ Holds("nr_creator", l)
              <=> Basic(l) /\ l.req.type = "NEW_ROOM" /\ l.me \in UserCopy
         /\ Holds("st_find", l)
              <=> Basic(l) /\ l.req.type = "STATUS" /\ l.req.status \in Status
         /\ \A p \in {"st_change", "st_rooms"} :
              Holds(p, l) <=> /\ Basic(l) /\ l.req.type = "STATUS" /\ l.req.status \in Status
                              /\ l.me \in UserCopy
         /\ \A p \in {"rm_contains", "rm_find"} :
              Holds(p, l) <=> Basic(l) /\ l.req.type \in RoomRequests
         /\ Holds("rm_member", l)
              <=> Basic(l) /\ l.req.type \in RoomRequests /\ l.me \in UserCopy
         /\ \A p \in {"jn_guest", "jn_move", "lv_leave"} :
              Holds(p, l) <=> Basic(l) /\ l.me \in UserCopy
         /\ \A p \in {"tx_compare", "tx_find_from", "tx_send"} :
              Holds(p, l) <=> Basic(l) /\ l.to \in UserCopy
         /\ \A p \in {"iv_member", "iv_guest", "iv_add", "iv_send"} :
              Holds(p, l) <=> Basic(l) /\ l.invited # << >>
         /\ \A p \in {"notify_size", "notify_each", "evict"} :
              Holds(p, l) <=> /\ Basic(l) /\ l.note \in Note
                              /\ l.note.type = "DISCONNECTED" => l.gone \in UserCopy
         /\ \A p \in {"evict_rooms", "evict_user"} :
              Holds(p, l) <=> /\ Basic(l) /\ l.note \in Note
                              /\ l.note.type = "DISCONNECTED" => l.gone \in UserCopy
                              /\ l.victim \in UserCopy
         /\ \A p \in {"dc_rooms", "dc_users"} :
              Holds(p, l) <=> Basic(l) /\ l.gone \in UserCopy
  BY DEF Holds, Basic, Serving, Identifying, ChangingStatus, CreatingRoom, Notifying,
         Disconnecting, EnteringRoom, Inviting

\* Updating one local leaves the others alone.
LEMMA UpdateLocals ==
  ASSUME NEW l \in Locals
  PROVE  /\ \A x \in Replies : [l EXCEPT !.reply = x] \in Locals
         /\ \A x \in UserCopy : [l EXCEPT !.me = x] \in Locals
         /\ \A x \in UserCopy : [l EXCEPT !.to = x] \in Locals
         /\ \A x \in UserCopy : [l EXCEPT !.gone = x] \in Locals
         /\ \A x \in UserCopy \cup {None} : [l EXCEPT !.victim = x] \in Locals
         /\ \A x \in Note : [l EXCEPT !.note = x] \in Locals
         /\ \A x \in Fds : [l EXCEPT !.dfd = x] \in Locals
         /\ \A x \in SUBSET UserCopy : [l EXCEPT !.failed = x] \in Locals
         /\ \A x \in Nat : [l EXCEPT !.mx = x] \in Locals
         /\ \A x \in BOOLEAN : [l EXCEPT !.isIn = x] \in Locals
         /\ \A x \in Seq(Names) : [l EXCEPT !.todo = x] \in Locals
         /\ \A x \in Seq(UserCopy) : [l EXCEPT !.invited = x] \in Locals
         /\ \A x \in SUBSET (Names \X Status) : [l EXCEPT !.list = x] \in Locals
<1> USE DEF Locals
<1>1. ASSUME NEW x \in Replies PROVE [l EXCEPT !.reply = x] \in Locals
  BY SMTT(20)
<1>2. ASSUME NEW x \in UserCopy PROVE [l EXCEPT !.me = x] \in Locals
  BY SMTT(20)
<1>3. ASSUME NEW x \in UserCopy PROVE [l EXCEPT !.to = x] \in Locals
  BY SMTT(20)
<1>4. ASSUME NEW x \in UserCopy PROVE [l EXCEPT !.gone = x] \in Locals
  BY SMTT(20)
<1>5. ASSUME NEW x \in UserCopy \cup {None} PROVE [l EXCEPT !.victim = x] \in Locals
  BY SMTT(20)
<1>6. ASSUME NEW x \in Note PROVE [l EXCEPT !.note = x] \in Locals
  BY SMTT(20)
<1>7. ASSUME NEW x \in Fds PROVE [l EXCEPT !.dfd = x] \in Locals
  BY SMTT(20)
<1>8. ASSUME NEW x \in SUBSET UserCopy PROVE [l EXCEPT !.failed = x] \in Locals
  BY SMTT(20)
<1>9. ASSUME NEW x \in Nat PROVE [l EXCEPT !.mx = x] \in Locals
  BY SMTT(20)
<1>10. ASSUME NEW x \in BOOLEAN PROVE [l EXCEPT !.isIn = x] \in Locals
  BY SMTT(20)
<1>11. ASSUME NEW x \in Seq(Names) PROVE [l EXCEPT !.todo = x] \in Locals
  BY SMTT(40)
<1>12. ASSUME NEW x \in Seq(UserCopy) PROVE [l EXCEPT !.invited = x] \in Locals
  BY ZenonT(60)
<1>13. ASSUME NEW x \in SUBSET (Names \X Status) PROVE [l EXCEPT !.list = x] \in Locals
  BY SMTT(20)
<1> QED
  BY <1>1, <1>2, <1>3, <1>4, <1>5, <1>6, <1>7, <1>8, <1>9, <1>10, <1>11, <1>12, <1>13

\* The locals of a thread that serves nothing are typed.
LEMMA FreshIsTyped == Fresh \in Locals
  BY DEF Fresh, Locals

\* The locals of a handler that starts.
LEMMA StartLocals ==
  ASSUME NEW q \in Request, NEW e \in Conns, NEW f \in Fds, NEW x \in Replies \cup {None}
  PROVE  [Fresh EXCEPT !.req = q, !.from = e, !.dfd = f, !.reply = x] \in Locals
<1> DEFINE l == [Fresh EXCEPT !.req = q]
<1> DEFINE m == [l EXCEPT !.from = e]
<1> DEFINE n == [m EXCEPT !.dfd = f]
<1>1. l \in Locals
  BY FreshIsTyped DEF Locals
<1>2. m \in Locals
  <2> HIDE DEF l
  <2> QED BY <1>1 DEF Locals
<1>3. n \in Locals
  BY <1>2, UpdateLocals
<1>4. [n EXCEPT !.reply = x] \in Locals
  <2> HIDE DEF n
  <2> QED BY <1>3 DEF Locals
<1> QED BY <1>4

\* The fields a request of a given type has.
LEMMA RequestFields ==
  ASSUME NEW q \in Request
  PROVE  /\ q.type = "IDENTIFY" => q.username \in Names
         /\ q.type = "NEW_ROOM" => q.roomname \in Rooms
         /\ q.type = "INVITE" => q.usernames \in Seq(Names)
  BY DEF Request

(* What the invariant says of a thread that has been started, and of the
   tables it looks into.                                                    *)
LEMMA ThreadFacts ==
  ASSUME IInv, NEW c \in Conns, pc[c] \notin {"off", "end"}
  PROVE  /\ loc[c] \in Locals /\ Holds(pc[c], loc[c]) /\ fdOf[c] \in Fds
         /\ loc = [loc EXCEPT ![c] = loc[c]]
         /\ Sound(users)
  BY DEF IInv, TypeOK, LocalsReady, TablesCoherent, UsersCoherent, Sound

\* Thread c goes to p with locals l.
Moves(c, p, l) == pc' = [pc EXCEPT ![c] = p] /\ loc' = [loc EXCEPT ![c] = l]

(* A started thread that goes to a place its locals are ready for leaves all
   threads in order.                                                        *)
LEMMA MovesKeep ==
  ASSUME IInv, NEW c \in Conns, pc[c] \notin {"off", "end"},
         NEW p \in Places \ {"off"}, NEW l \in Locals, Holds(p, l),
         Moves(c, p, l), fdOf' = fdOf, p = "blocked" => bound'[c] \in Conns,
         \A e \in Conns : e # c => bound'[e] = bound[e]
  PROVE  Threads'
<1>1. pc \in [Conns -> Places] /\ loc \in [Conns -> Locals] /\ LocalsReady
  BY DEF IInv, TypeOK
<1>2. pc' \in [Conns -> Places] /\ loc' \in [Conns -> Locals]
  BY <1>1 DEF Moves
<1>3. ASSUME NEW e \in Conns
      PROVE  /\ Holds(pc[e], loc[e])'
             /\ (pc[e] \notin {"off", "end"} => fdOf[e] \in Fds)'
             /\ (pc[e] = "blocked" => bound[e] \in Conns)'
  <2>1. CASE e = c
    <3>1. pc'[e] = p /\ loc'[e] = l /\ fdOf[e] \in Fds
      BY <1>1, <2>1 DEF Moves, LocalsReady
    <3>2. Holds(pc'[e], loc'[e])
      BY <3>1
    <3> QED BY <2>1, <3>1, <3>2 DEF Holds
  <2>2. CASE e # c
    <3>1. pc'[e] = pc[e] /\ loc'[e] = loc[e] /\ bound'[e] = bound[e]
      BY <1>1, <2>2 DEF Moves
    <3> QED BY <1>1, <3>1 DEF LocalsReady, Holds
  <2> QED BY <2>1, <2>2
<1> QED BY <1>2, <1>3 DEF LocalsReady, Threads

\* The common ways to go on: nothing to remember, ...
LEMMA GoesKeeps ==
  ASSUME IInv, NEW c \in Conns, pc[c] \notin {"off", "end"}, UNCHANGED << fdOf, bound >>,
         NEW p \in Places \ {"off", "blocked"}, Holds(p, loc[c]),
         Goto(c, p), UNCHANGED loc
  PROVE  Threads'
<1>1. Moves(c, p, loc[c]) /\ loc[c] \in Locals
  BY ThreadFacts DEF Moves, Goto
<1> QED BY <1>1, MovesKeep DEF IInv, TypeOK

\* ... nothing left to do, ...
LEMMA DoneKeeps ==
  ASSUME IInv, NEW c \in Conns, pc[c] \notin {"off", "end"}, UNCHANGED << fdOf, bound >>, Done(c)
  PROVE  Threads'
<1>1. Moves(c, "next", Fresh) /\ Holds("next", Fresh)
  BY HoldsAt DEF Moves, Done, Goto
<1> QED BY <1>1, FreshIsTyped, MovesKeep DEF IInv, TypeOK, Places

\* ... a reply, ...
LEMMA ReplyKeeps ==
  ASSUME IInv, NEW c \in Conns, pc[c] \notin {"off", "end"}, UNCHANGED << fdOf, bound >>,
         Basic(loc[c]), NEW x \in Replies, Reply(c, x)
  PROVE  Threads'
<1> DEFINE l == [loc[c] EXCEPT !.reply = x]
<1>1. Moves(c, "reply", l) /\ l \in Locals
  BY ThreadFacts, UpdateLocals DEF Moves, Reply, Goto
<1>2. Holds("reply", l)
  BY HoldsAt, ThreadFacts DEF Basic, Locals
<1> QED BY <1>1, <1>2, MovesKeep DEF IInv, TypeOK, Places, Serving

\* ... a disconnection, ...
LEMMA DisconnectKeeps ==
  ASSUME IInv, NEW c \in Conns, pc[c] \notin {"off", "end"}, UNCHANGED << fdOf, bound >>,
         Basic(loc[c]), NEW x \in Fds, Disconnect(c, x)
  PROVE  Threads'
<1> DEFINE l == [loc[c] EXCEPT !.dfd = x]
<1>1. Moves(c, "dc_find", l) /\ l \in Locals
  BY ThreadFacts, UpdateLocals DEF Moves, Disconnect, Goto
<1>2. Basic(l)
  BY ThreadFacts DEF Basic, Locals
<1>3. Holds("dc_find", l)
  BY <1>2, HoldsAt
<1> QED BY <1>1, <1>3, MovesKeep DEF IInv, TypeOK, Places, Serving, Disconnecting

\* ... a broadcast.
LEMMA BroadcastKeeps ==
  ASSUME IInv, NEW c \in Conns, pc[c] \notin {"off", "end"}, UNCHANGED << fdOf, bound >>,
         Basic(loc[c]), NEW x \in Note, x.type # "DISCONNECTED", Broadcast(c, x)
  PROVE  Threads'
<1> DEFINE l == [loc[c] EXCEPT !.note = x]
<1>1. Moves(c, "notify_size", l) /\ l \in Locals
  BY ThreadFacts, UpdateLocals DEF Moves, Broadcast, Goto
<1>2. Basic(l) /\ l.note = x
  BY ThreadFacts DEF Basic, Locals
<1>3. Holds("notify_size", l)
  BY <1>2, HoldsAt
<1> QED BY <1>1, <1>3, MovesKeep DEF IInv, TypeOK, Places, Serving, Notifying

\* A list of users, then the reply that carries it.
LEMMA ListKeeps ==
  ASSUME IInv, NEW c \in Conns, pc[c] \notin {"off", "end"}, UNCHANGED << fdOf, bound >>, Basic(loc[c]),
         NEW x \in Replies, NEW shown \in SUBSET (Names \X Status),
         Goto(c, "reply"), loc' = [loc EXCEPT ![c].reply = x, ![c].list = shown]
  PROVE  Threads'
<1> DEFINE k == [loc[c] EXCEPT !.reply = x]
<1> DEFINE l == [k EXCEPT !.list = shown]
<1>1. Moves(c, "reply", l)
  BY ThreadFacts DEF Moves, Goto
<1>2. l \in Locals
  BY ThreadFacts, UpdateLocals
<1>3. Basic(l)
  BY ThreadFacts DEF Basic, Locals
<1>4. Holds("reply", l)
  BY <1>3, HoldsAt
<1> QED BY <1>1, <1>2, <1>4, MovesKeep DEF Places, Serving

\* A copy of the thread's own user, for a handler to work on.
LEMMA FindsItselfKeeps ==
  ASSUME IInv, NEW c \in Conns, pc[c] \notin {"off", "end"}, UNCHANGED << fdOf, bound >>, Basic(loc[c]),
         ContainsFd(users, fdOf[c]), NEW p \in Places \ {"off", "blocked"}, Goto(c, p),
         loc' = [loc EXCEPT ![c].me = FindByFd(users, fdOf[c])],
         \A m : Basic(m) /\ m.me \in UserCopy /\ m.req = loc[c].req /\ m.to = loc[c].to
                => Holds(p, m)
  PROVE  Threads'
<1> DEFINE l == [loc[c] EXCEPT !.me = FindByFd(users, fdOf[c])]
<1>1. FindByFd(users, fdOf[c]) \in UserCopy /\ Moves(c, p, l)
  BY ThreadFacts, LookupsYieldUsers DEF Moves, Goto
<1>2. l \in Locals
  BY <1>1, ThreadFacts, UpdateLocals
<1>3. /\ Basic(l) /\ l.me = FindByFd(users, fdOf[c])
      /\ l.req = loc[c].req /\ l.to = loc[c].to
  BY ThreadFacts DEF Basic, Locals
<1>4. Holds(p, l)
  BY <1>1, <1>3
<1> QED BY <1>1, <1>2, <1>4, MovesKeep

-----------------------------------------------------------------------------
\* The same steps, as far as the rest of the state is concerned.

\* The four parts after a step, put together again.
LEMMA Together ==
  ASSUME Threads', Sockets', Tables', Observers'
  PROVE  IInv'
  BY Halves, PTL

\* Tables, and observers, that a step leaves alone stay sound and typed.
LEMMA TablesStay ==
  ASSUME Tables, users' = users, rooms' = rooms, roomsLock' \in Conns \cup {None}
  PROVE  Tables'
<1>1. Sound(users)' /\ RoomsSound'
  BY DEF Tables, RoomsSound, Sound, Table, Coherent
<1> QED BY <1>1 DEF Tables

\* So do tables and observers together.
LEMMA SharedStays ==
  ASSUME IInv, UNCHANGED << tabVars, obsVars >>
  PROVE  Tables' /\ Observers'
<1>1. Tables /\ Observers /\ roomsLock \in Conns \cup {None}
  BY Halves DEF Tables
<1>2. users' = users /\ rooms' = rooms /\ roomsLock' = roomsLock /\ self' = self /\ seen' = seen
  BY DEF tabVars, obsVars
<1>3. Tables'
  BY <1>1, <1>2, TablesStay
<1>4. Observers'
  BY <1>1, <1>2 DEF Observers
<1> QED BY <1>3, <1>4

\* A step that changes only the thread that takes it.
LEMMA ThreadOnly ==
  ASSUME IInv, OnlyThread, Threads'
  PROVE  IInv'
<1>1. Sockets'
  BY Halves DEF OnlyThread, sockVars, Sockets
<1>2. Tables' /\ Observers'
  BY SharedStays DEF OnlyThread
<1> QED BY <1>1, <1>2, Together

\* A step that also changes tables, and leaves them sound.
LEMMA ThreadAndTables ==
  ASSUME IInv, OnlyThreadAndTables, Threads', Sound(users'), RoomsSound'
  PROVE  IInv'
<1>1. (Sockets /\ Tables /\ Observers)'
  BY Halves DEF OnlyThreadAndTables, sockVars, obsVars, Sockets, Tables, Observers
<1> QED BY <1>1, Together

-----------------------------------------------------------------------------
\* Steps of the handlers that involve the users table only.

\* Every step of a handler that works on the users table keeps the invariant.
LEMMA HandlerStepKeeps ==
  ASSUME IInv, NEW c \in Conns, HandlerStep(c)
  PROVE  IInv'
<1> DEFINE l == loc[c]
<1> DEFINE p == pc[c]
<1> USE DEF Places, Serving, Identifying, ChangingStatus, Notifying, Replies, Fatal
<1>1. CASE IdentifyFindFd(c)
  <2>1. p \notin {"off", "end"} /\ Basic(l) /\ l.req.type = "IDENTIFY"
    BY <1>1, ThreadFacts, HoldsAt DEF IdentifyFindFd
  <2>2. Holds("id_find_name", l)
    BY <2>1, HoldsAt
  <2>3. Threads'
    BY <1>1, <2>1, <2>2, GoesKeeps, DoneKeeps, ReplyKeeps DEF IdentifyFindFd, OnlyThread
  <2> QED BY <1>1, <2>3, ThreadOnly DEF IdentifyFindFd
<1>2. CASE IdentifyFindName(c)
  <2>1. p \notin {"off", "end"} /\ Basic(l) /\ l.req.type = "IDENTIFY"
    BY <1>2, ThreadFacts, HoldsAt DEF IdentifyFindName
  <2>2. Holds("id_add", l)
    BY <2>1, HoldsAt
  <2>3. Threads'
    BY <1>2, <2>1, <2>2, GoesKeeps, DoneKeeps, ReplyKeeps DEF IdentifyFindName, OnlyThread
  <2> QED BY <1>2, <2>3, ThreadOnly DEF IdentifyFindName
<1>3. CASE IdentifyAdd(c)
  <2>1. p \notin {"off", "end"} /\ Basic(l) /\ l.req.type = "IDENTIFY" /\ fdOf[c] \in Fds
    BY <1>3, ThreadFacts, HoldsAt DEF IdentifyAdd
  <2>2. Wanted(c) \in Names
    BY <2>1, RequestFields, ChatAssumption DEF Wanted, Req, Basic
  <2>3. Threads'
    BY <1>3, <2>1, DoneKeeps, ReplyKeeps DEF IdentifyAdd
  <2>4. Sound(users') /\ Observers'
    BY <1>3, <2>1, <2>2, Halves, AddUserSound DEF IdentifyAdd, Tables, Observers, Status
  <2>5. Sockets' /\ Tables'
    BY <1>3, <2>4, Halves DEF IdentifyAdd, sockVars, Sockets, Tables, RoomsSound
  <2> QED BY <2>3, <2>4, <2>5, Together
<1>4. CASE StatusFind(c)
  <2>1. p \notin {"off", "end"} /\ Basic(l) /\ l.req.type = "STATUS" /\ l.req.status \in Status
    BY <1>4, ThreadFacts, HoldsAt DEF StatusFind
  <2>2. \A m : Basic(m) /\ m.me \in UserCopy /\ m.req = l.req /\ m.to = l.to
              => Holds("st_change", m)
    BY <2>1, HoldsAt
  <2>3. Threads'
    BY <1>4, <2>1, <2>2, FindsItselfKeeps, DoneKeeps DEF StatusFind, OnlyThread
  <2> QED BY <1>4, <2>3, ThreadOnly DEF StatusFind
<1>5. CASE StatusChange(c)
  <2>1. p \notin {"off", "end"} /\ Holds("st_rooms", l) /\ Req(c).status \in Status
    BY <1>5, ThreadFacts, HoldsAt DEF StatusChange, Req
  <2>2. Threads'
    BY <1>5, <2>1, GoesKeeps DEF StatusChange, OnlyThreadAndTables
  <2>3. Sound(users') /\ RoomsSound'
    BY <1>5, <2>1, Halves, ChangeStatusSound DEF StatusChange, Tables, RoomsSound
  <2> QED BY <1>5, <2>2, <2>3, ThreadAndTables DEF StatusChange
<1>6. CASE StatusChangeInRooms(c)
  <2>1. p \notin {"off", "end"} /\ Basic(l) /\ Req(c).status \in Status /\ l.me \in UserCopy
    BY <1>6, ThreadFacts, HoldsAt DEF StatusChangeInRooms, Req
  <2>2. [type |-> "NEW_STATUS", name |-> l.me.name, status |-> Req(c).status] \in Note
    BY <2>1 DEF Note, UserCopy, Views
  <2>3. Threads'
    BY <1>6, <2>1, <2>2, BroadcastKeeps DEF StatusChangeInRooms, OnlyThreadAndTables
  <2>4. Sound(users') /\ RoomsSound'
    BY <1>6, <2>1, Halves, UpdateStatusInRoomsSound DEF StatusChangeInRooms, Tables
  <2> QED BY <1>6, <2>3, <2>4, ThreadAndTables DEF StatusChangeInRooms
<1>7. CASE UsersList(c)
  <2>1. p \notin {"off", "end"} /\ Basic(l)
    BY <1>7, ThreadFacts, HoldsAt DEF UsersList
  <2> DEFINE shown == {<< u.name, u.status >> : u \in UsersOf(users)}
  <2>2. shown \in SUBSET (Names \X Status)
    BY ThreadFacts, <2>1, LookupsYieldUsers DEF UserCopy
  <2>3. Threads'
    BY <1>7, <2>1, <2>2, ListKeeps DEF UsersList, OnlyThread
  <2> QED BY <1>7, <2>3, ThreadOnly DEF UsersList
<1>8. CASE TextFindAddressee(c)
  <2>1. p \notin {"off", "end"} /\ Basic(l) /\ OnlyThread
    BY <1>8, ThreadFacts, HoldsAt DEF TextFindAddressee
  <2>2. CASE Reply(c, "NO_SUCH_USER")
    BY <2>1, <2>2, ReplyKeeps, ThreadOnly DEF OnlyThread
  <2>3. CASE ~Reply(c, "NO_SUCH_USER")
    <3> DEFINE m == [l EXCEPT !.to = FindByName(users, Req(c).username)]
    <3>1. FindByName(users, Req(c).username) \in UserCopy /\ Moves(c, "tx_compare", m)
      BY <1>8, <2>1, <2>3, ThreadFacts, LookupsYieldUsers DEF TextFindAddressee, Moves, Goto
    <3>2. m \in Locals
      BY <2>1, <3>1, ThreadFacts, UpdateLocals
    <3>3. Basic(m) /\ m.to = FindByName(users, Req(c).username) /\ m.req = l.req
      BY <2>1, ThreadFacts DEF Basic, Locals
    <3>4. Holds("tx_compare", m)
      BY <2>1, <3>1, <3>3, HoldsAt
    <3>5. Threads'
      BY <2>1, <3>1, <3>2, <3>4, MovesKeep DEF OnlyThread
    <3> QED BY <2>1, <3>5, ThreadOnly
  <2> QED BY <2>2, <2>3
<1>9. CASE TextCompare(c)
  <2>1. p \notin {"off", "end"} /\ Basic(l) /\ l.to \in UserCopy
    BY <1>9, ThreadFacts, HoldsAt DEF TextCompare
  <2>2. Holds("tx_find_from", l)
    BY <2>1, HoldsAt
  <2>3. Threads'
    BY <1>9, <2>1, <2>2, GoesKeeps, DoneKeeps DEF TextCompare, OnlyThread
  <2> QED BY <1>9, <2>3, ThreadOnly DEF TextCompare
<1>10. CASE TextFindSender(c)
  <2>1. p \notin {"off", "end"} /\ Basic(l) /\ l.to \in UserCopy
    BY <1>10, ThreadFacts, HoldsAt DEF TextFindSender
  <2>2. \A m : Basic(m) /\ m.me \in UserCopy /\ m.req = l.req /\ m.to = l.to
              => Holds("tx_send", m)
    BY <2>1, HoldsAt
  <2>3. Threads'
    BY <1>10, <2>1, <2>2, FindsItselfKeeps, DoneKeeps DEF TextFindSender, OnlyThread
  <2> QED BY <1>10, <2>3, ThreadOnly DEF TextFindSender
<1>11. CASE TextSend(c)
  <2>1. p \notin {"off", "end"} /\ Basic(l) /\ fdOf[c] \in Fds
    BY <1>11, ThreadFacts, HoldsAt DEF TextSend
  <2>2. Threads'
    BY <1>11, <2>1, DoneKeeps, DisconnectKeeps DEF TextSend, OnlyThread
  <2> QED BY <1>11, <2>2, ThreadOnly DEF TextSend
<1>12. CASE PublicTextFindSender(c)
  <2>1. p \notin {"off", "end"} /\ Basic(l)
    BY <1>12, ThreadFacts, HoldsAt DEF PublicTextFindSender
  <2>2. CASE Done(c)
    BY <1>12, <2>1, <2>2, DoneKeeps, ThreadOnly DEF PublicTextFindSender, OnlyThread
  <2>3. CASE ~Done(c)
    <3> DEFINE u == FindByFd(users, fdOf[c])
    <3> DEFINE note == [type |-> "PUBLIC_TEXT_FROM", name |-> u.name, status |-> "unheard"]
    <3> DEFINE m == [[l EXCEPT !.me = u] EXCEPT !.note = note]
    <3>1. u \in UserCopy /\ Moves(c, "notify_size", m)
      BY <1>12, <2>1, <2>3, ThreadFacts, LookupsYieldUsers
      DEF PublicTextFindSender, Moves, Goto
    <3>2. note \in Note
      BY <3>1 DEF Note, UserCopy, Views
    <3>3. m \in Locals
      BY <2>1, <3>1, <3>2, ThreadFacts, UpdateLocals
    <3>4. Basic(m) /\ m.note = note /\ note.type # "DISCONNECTED"
      BY <2>1, ThreadFacts DEF Basic, Locals
    <3>5. Holds("notify_size", m)
      BY <3>2, <3>4, HoldsAt
    <3>6. Threads'
      BY <1>12, <2>1, <3>1, <3>3, <3>5, MovesKeep DEF PublicTextFindSender, OnlyThread
    <3> QED BY <1>12, <3>6, ThreadOnly DEF PublicTextFindSender
  <2> QED BY <2>2, <2>3
<1> QED
  BY <1>1, <1>2, <1>3, <1>4, <1>5, <1>6, <1>7, <1>8, <1>9, <1>10, <1>11, <1>12
  DEF HandlerStep

-----------------------------------------------------------------------------
\* Steps of the handlers that involve rooms.

\* room_table_add makes an empty room.
LEMMA AddRoomSound ==
  ASSUME RoomsSound, NEW r \in Rooms, AddRoom(r)
  PROVE  RoomsSound'
<1>1. Sound(EmptyTable)
  BY EmptyTableCoherent DEF Sound, Table, EmptyTable
<1>2. ASSUME NEW q \in DOMAIN rooms'
      PROVE  q \in Rooms /\ Sound(rooms'[q].members) /\ Sound(rooms'[q].guests)
  <2>1. CASE q = r
    BY <1>1, <1>2, <2>1 DEF AddRoom
  <2>2. CASE q # r
    <3>1. q \in DOMAIN rooms /\ rooms'[q] = rooms[q]
      BY <1>2, <2>2 DEF AddRoom
    <3> QED BY <3>1 DEF RoomsSound
  <2> QED BY <2>1, <2>2
<1> QED BY <1>2 DEF RoomsSound, Sound, Table, Coherent

\* Every step of a handler that works on a room keeps the invariant.
LEMMA RoomStepKeeps ==
  ASSUME IInv, NEW c \in Conns, RoomStep(c)
  PROVE  IInv'
<1> DEFINE l == loc[c]
<1> DEFINE p == pc[c]
<1> USE DEF Places, Serving, CreatingRoom, EnteringRoom, Inviting, Replies, Fatal
<1>1. CASE NewRoomContains(c)
  <2>1. p \notin {"off", "end"} /\ Basic(l) /\ l.req.type = "NEW_ROOM"
    BY <1>1, ThreadFacts, HoldsAt DEF NewRoomContains
  <2>2. Holds("nr_add", l)
    BY <2>1, HoldsAt
  <2>3. Threads'
    BY <1>1, <2>1, <2>2, GoesKeeps, ReplyKeeps DEF NewRoomContains, OnlyThread
  <2> QED BY <1>1, <2>3, ThreadOnly DEF NewRoomContains
<1>2. CASE NewRoomAdd(c)
  <2>1. p \notin {"off", "end"} /\ Basic(l) /\ l.req.type = "NEW_ROOM"
    BY <1>2, ThreadFacts, HoldsAt DEF NewRoomAdd
  <2>2. Holds("nr_find", l) /\ Clip16[Room(c)] \in Rooms
    BY <2>1, HoldsAt, RequestFields, ChatAssumption DEF Room, Req, Basic
  <2>3. Threads'
    BY <1>2, <2>1, <2>2, GoesKeeps, DoneKeeps DEF NewRoomAdd, OnlyThreadAndTables
  <2>4. Sound(users')
    BY <1>2, Halves DEF NewRoomAdd, Tables
  <2>5. RoomsSound'
    <3>1. CASE rooms' = rooms
      BY <3>1, Halves DEF Tables, RoomsSound, Sound, Table, Coherent
    <3>2. CASE AddRoom(Clip16[Room(c)])
      BY <2>2, <3>2, Halves, AddRoomSound DEF Tables
    <3> QED BY <1>2, <3>1, <3>2 DEF NewRoomAdd
  <2> QED BY <1>2, <2>3, <2>4, <2>5, ThreadAndTables DEF NewRoomAdd
<1>3. CASE NewRoomFindCreator(c)
  <2>1. p \notin {"off", "end"} /\ Basic(l) /\ l.req.type = "NEW_ROOM"
    BY <1>3, ThreadFacts, HoldsAt DEF NewRoomFindCreator
  <2>2. \A m : Basic(m) /\ m.me \in UserCopy /\ m.req = l.req /\ m.to = l.to
              => Holds("nr_creator", m)
    BY <2>1, HoldsAt
  <2>3. Threads'
    BY <1>3, <2>1, <2>2, FindsItselfKeeps, DoneKeeps DEF NewRoomFindCreator, OnlyThread
  <2> QED BY <1>3, <2>3, ThreadOnly DEF NewRoomFindCreator
<1>4. CASE NewRoomAddCreator(c)
  <2>1. p \notin {"off", "end"} /\ Basic(l) /\ l.me \in UserCopy
    BY <1>4, ThreadFacts, HoldsAt DEF NewRoomAddCreator
  <2>3. Threads'
    BY <1>4, <2>1, ReplyKeeps DEF NewRoomAddCreator, OnlyThreadAndTables
  <2>4. Sound(users')
    BY <1>4, Halves DEF NewRoomAddCreator, Tables
  <2>5. RoomsSound'
    <3> DEFINE r == Clip16[Room(c)]
    <3> DEFINE room == AddMember(rooms[r], l.me)
    <3>1. CASE RoomExists(r)
      <4>1. Sound(rooms[r].members) /\ Sound(rooms[r].guests)
        BY <3>1, Halves DEF Tables, RoomsSound, RoomExists
      <4>2. Sound(room.members) /\ Sound(room.guests)
        BY <2>1, <4>1, AddUserSound DEF AddMember, UserCopy
      <4>3. rooms' = [rooms EXCEPT ![r] = room]
        BY <1>4, <3>1 DEF NewRoomAddCreator, WithRoom, RoomExists
      <4> QED BY <3>1, <4>2, <4>3, Halves, OneRoomSound DEF Tables
    <3>2. CASE ~RoomExists(r)
      BY <1>4, <3>2, Halves DEF NewRoomAddCreator, WithRoom, Tables, RoomsSound, Sound, Table, Coherent
    <3> QED BY <3>1, <3>2
  <2> QED BY <1>4, <2>3, <2>4, <2>5, ThreadAndTables DEF NewRoomAddCreator
<1>5. CASE RoomContains(c)
  <2>1. p \notin {"off", "end"} /\ Basic(l) /\ l.req.type \in RoomRequests
    BY <1>5, ThreadFacts, HoldsAt DEF RoomContains
  <2>2. Holds("rm_find", l)
    BY <2>1, HoldsAt
  <2>3. Threads'
    BY <1>5, <2>1, <2>2, GoesKeeps, ReplyKeeps DEF RoomContains, OnlyThread
  <2> QED BY <1>5, <2>3, ThreadOnly DEF RoomContains
<1>6. CASE RoomFindSender(c)
  <2>1. p \notin {"off", "end"} /\ Basic(l) /\ l.req.type \in RoomRequests
    BY <1>6, ThreadFacts, HoldsAt DEF RoomFindSender
  <2>2. \A m : Basic(m) /\ m.me \in UserCopy /\ m.req = l.req /\ m.to = l.to
              => Holds("rm_member", m)
    BY <2>1, HoldsAt
  <2>3. Threads'
    BY <1>6, <2>1, <2>2, FindsItselfKeeps, ReplyKeeps DEF RoomFindSender, OnlyThread
  <2> QED BY <1>6, <2>3, ThreadOnly DEF RoomFindSender
<1>7. CASE RoomMember(c)
  <2>1. p \notin {"off", "end"} /\ Basic(l) /\ l.req.type \in RoomRequests /\ l.me \in UserCopy /\ OnlyThread
    BY <1>7, ThreadFacts, HoldsAt DEF RoomMember
  <2>2. \A q \in {"ru_list", "room_notify", "lv_leave", "jn_guest"} : Holds(q, l)
    BY <2>1, HoldsAt
  <2>3. ASSUME Req(c).type = "INVITE", Goto(c, "iv_resolve"),
               loc' = [loc EXCEPT ![c].todo = Req(c).usernames]
        PROVE  Threads'
    <3> DEFINE m == [l EXCEPT !.todo = Req(c).usernames]
    <3>1. Moves(c, "iv_resolve", m)
      BY <2>3 DEF Moves, Goto
    <3>2. m \in Locals
      <4>1. Req(c).usernames \in Seq(Names)
        BY <2>1, <2>3, RequestFields DEF Basic, Req
      <4> QED BY <2>1, <4>1, ThreadFacts, UpdateLocals
    <3>3. Basic(m)
      BY <2>1, ThreadFacts DEF Basic, Locals
    <3>4. Holds("iv_resolve", m)
      BY <3>3, HoldsAt
    <3> HIDE DEF m
    <3>5. fdOf' = fdOf /\ bound' = bound
      BY <2>1 DEF OnlyThread
    <3> QED BY <2>1, <3>1, <3>2, <3>4, <3>5, MovesKeep
  <2>4. ASSUME Done(c) \/ \E x \in Replies : Reply(c, x)
        PROVE  Threads'
    BY <2>1, <2>4, DoneKeeps, ReplyKeeps DEF OnlyThread
  <2>5. ASSUME UNCHANGED loc,
               \E q \in {"ru_list", "room_notify", "lv_leave", "jn_guest"} : Goto(c, q)
        PROVE  Threads'
    BY <2>1, <2>2, <2>5, GoesKeeps DEF OnlyThread
  <2>6. Threads'
    BY <1>7, <2>1, <2>3, <2>4, <2>5 DEF RoomMember, RoomRequests, Req
  <2> QED BY <2>1, <2>6, ThreadOnly
<1>8. CASE InviteResolve(c)
  <2>1. p \notin {"off", "end"} /\ Basic(l) /\ OnlyThread
    BY <1>8, ThreadFacts, HoldsAt DEF InviteResolve
  <2>0. l.todo # << >> /\ l.todo \in Seq(Names) /\ l.invited \in Seq(UserCopy)
    BY <1>8, <2>1, ThreadFacts DEF InviteResolve, Locals
  <2>2. CASE ContainsName(users, Head(l.todo))
    <3> DEFINE u == FindByName(users, Head(l.todo))
    <3> DEFINE k == [l EXCEPT !.todo = Tail(l.todo)]
    <3> DEFINE m == [k EXCEPT !.invited = Append(l.invited, u)]
    <3> DEFINE q == IF Len(l.todo) = 1 THEN "iv_member" ELSE "iv_resolve"
    <3>1. u \in UserCopy
      BY <2>1, <2>2, ThreadFacts, LookupsYieldUsers
    <3>0. Moves(c, q, m)
      BY <1>8, <2>1, <2>2, ThreadFacts DEF InviteResolve, Moves, Goto, Locals
    <3>2. /\ Tail(l.todo) \in Seq(Names) /\ Append(l.invited, u) \in Seq(UserCopy)
          /\ Append(l.invited, u) # << >>
      BY <2>0, <3>1, HeadTailProperties, AppendProperties
    <3>3. m \in Locals
      BY <2>1, <3>2, ThreadFacts, UpdateLocals
    <3>4. Basic(m) /\ m.invited = Append(l.invited, u)
      BY <2>1, ThreadFacts DEF Basic, Locals
    <3>5. m.invited # << >>
      BY <3>2, <3>4
    <3>6. Holds(q, m)
      BY <3>4, <3>5, HoldsAt
    <3>7. Threads'
      BY <2>1, <3>0, <3>3, <3>6, MovesKeep DEF OnlyThread
    <3> QED BY <2>1, <3>7, ThreadOnly
  <2>3. CASE ~ContainsName(users, Head(l.todo))
    <3>1. Threads'
      BY <1>8, <2>1, <2>3, ReplyKeeps DEF InviteResolve, OnlyThread
    <3> QED BY <2>1, <3>1, ThreadOnly
  <2> QED BY <2>2, <2>3
<1>9. CASE InviteIsMember(c)
  <2>1. p \notin {"off", "end"} /\ Basic(l) /\ l.invited # << >> /\ OnlyThread
    BY <1>9, ThreadFacts, HoldsAt DEF InviteIsMember
  <2> DEFINE found == IsMember(Room(c), Head(l.invited).fd)
  <2> DEFINE m == [l EXCEPT !.isIn = found]
  <2>2. found \in BOOLEAN /\ Moves(c, "iv_guest", m)
    BY <1>9, <2>1, ThreadFacts DEF InviteIsMember, IsMember, Moves, Goto
  <2>3. m \in Locals
    BY <2>1, <2>2, ThreadFacts, UpdateLocals
  <2>4. Basic(m) /\ m.invited # << >>
    BY <2>1, ThreadFacts DEF Basic, Locals
  <2>5. Holds("iv_guest", m)
    BY <2>4, HoldsAt
  <2> HIDE DEF m
  <2>6. Threads'
    BY <2>1, <2>2, <2>3, <2>5, MovesKeep DEF OnlyThread
  <2> QED BY <2>1, <2>6, ThreadOnly
<1>10. CASE InviteIsGuest(c)
  <2>1. p \notin {"off", "end"} /\ Basic(l) /\ l.invited # << >>
    BY <1>10, ThreadFacts, HoldsAt DEF InviteIsGuest
  <2>2. Holds("iv_add", l)
    BY <2>1, HoldsAt
  <2>3. Threads'
    BY <1>10, <2>1, <2>2, GoesKeeps, DoneKeeps DEF InviteIsGuest, OnlyThread
  <2> QED BY <1>10, <2>3, ThreadOnly DEF InviteIsGuest
<1>11. CASE InviteAdd(c)
  <2>1. p \notin {"off", "end"} /\ Basic(l) /\ l.invited # << >> /\ Head(l.invited) \in UserCopy
    BY <1>11, ThreadFacts, HoldsAt DEF InviteAdd, Locals
  <2>2. Holds("iv_send", l)
    BY <2>1, HoldsAt
  <2>3. Threads'
    BY <1>11, <2>1, <2>2, GoesKeeps DEF InviteAdd, OnlyThreadAndTables
  <2>4. Sound(users')
    BY <1>11, Halves DEF InviteAdd, Tables
  <2>5. RoomsSound'
    <3> DEFINE r == Room(c)
    <3> DEFINE room == AddGuest(rooms[r], Head(l.invited))
    <3>1. CASE RoomExists(r)
      <4>1. Sound(rooms[r].members) /\ Sound(rooms[r].guests)
        BY <3>1, Halves DEF Tables, RoomsSound, RoomExists
      <4>2. Sound(room.members) /\ Sound(room.guests)
        BY <2>1, <4>1, AddUserSound DEF AddGuest, UserCopy
      <4>3. rooms' = [rooms EXCEPT ![r] = room]
        BY <1>11, <3>1 DEF InviteAdd, WithRoom, RoomExists
      <4> QED BY <3>1, <4>2, <4>3, Halves, OneRoomSound DEF Tables
    <3>2. CASE ~RoomExists(r)
      BY <1>11, <3>2, Halves DEF InviteAdd, WithRoom, Tables, RoomsSound, Sound, Table, Coherent
    <3> QED BY <3>1, <3>2
  <2> QED BY <1>11, <2>3, <2>4, <2>5, ThreadAndTables DEF InviteAdd
<1>12. CASE InviteSend(c)
  <2>1. p \notin {"off", "end"} /\ Basic(l) /\ OnlyThread
    BY <1>12, ThreadFacts, HoldsAt DEF InviteSend
  <2>0. l.invited # << >> /\ l.invited \in Seq(UserCopy)
    BY <1>12, <2>1, ThreadFacts, HoldsAt DEF InviteSend, Locals
  <2>2. Head(l.invited).fd \in Fds
    <3>1. Head(l.invited) \in UserCopy
      BY <2>0
    <3> QED BY <3>1 DEF UserCopy
  <2>3. ASSUME Len(l.invited) # 1, Goto(c, "iv_member"),
               loc' = [loc EXCEPT ![c].invited = Tail(@)]
        PROVE  Threads'
    <3> DEFINE m == [l EXCEPT !.invited = Tail(l.invited)]
    <3>1. Tail(l.invited) \in Seq(UserCopy) /\ Tail(l.invited) # << >>
      <4>1. Tail(l.invited) \in Seq(UserCopy) /\ Len(Tail(l.invited)) = Len(l.invited) - 1
        BY <2>0, HeadTailProperties
      <4>2. Len(l.invited) \in Nat /\ Len(<< >>) = 0
        BY <2>0, LenProperties, EmptySeq
      <4>3. Len(Tail(l.invited)) # Len(<< >>)
        BY <2>3, <4>1, <4>2
      <4>4. Tail(l.invited) # << >>
        BY <4>3, Zenon
      <4> QED BY <4>1, <4>4
    <3>2. Moves(c, "iv_member", m)
      BY <2>3 DEF Moves, Goto
    <3>3. m \in Locals
      BY <2>1, <3>1, ThreadFacts, UpdateLocals
    <3>4. Basic(m) /\ m.invited # << >>
      BY <2>1, <3>1, ThreadFacts DEF Basic, Locals
    <3>5. Holds("iv_member", m)
      BY <3>4, HoldsAt
    <3> HIDE DEF m
    <3> QED BY <2>1, <3>2, <3>3, <3>5, MovesKeep DEF OnlyThread
  <2>4. Threads'
    BY <1>12, <2>1, <2>2, <2>3, DoneKeeps, DisconnectKeeps DEF InviteSend, OnlyThread
  <2> QED BY <2>1, <2>4, ThreadOnly
<1>13. CASE JoinIsGuest(c)
  <2>1. p \notin {"off", "end"} /\ Basic(l) /\ l.me \in UserCopy
    BY <1>13, ThreadFacts, HoldsAt DEF JoinIsGuest
  <2>2. Holds("jn_move", l)
    BY <2>1, HoldsAt
  <2>3. Threads'
    BY <1>13, <2>1, <2>2, GoesKeeps, ReplyKeeps DEF JoinIsGuest, OnlyThread
  <2> QED BY <1>13, <2>3, ThreadOnly DEF JoinIsGuest
<1>14. CASE JoinMove(c)
  <2>1. p \notin {"off", "end"} /\ Basic(l) /\ l.me \in UserCopy
    BY <1>14, ThreadFacts, HoldsAt DEF JoinMove
  <2>3. Threads'
    BY <1>14, <2>1, ReplyKeeps DEF JoinMove, OnlyThreadAndTables
  <2>4. Sound(users')
    BY <1>14, Halves DEF JoinMove, Tables
  <2>5. RoomsSound'
    <3> DEFINE r == Room(c)
    <3> DEFINE room == GuestToMember(rooms[r], l.me)
    <3>1. CASE RoomExists(r)
      <4>1. Sound(rooms[r].members) /\ Sound(rooms[r].guests)
        BY <3>1, Halves DEF Tables, RoomsSound, RoomExists
      <4>2. Sound(room.members) /\ Sound(room.guests)
        BY <2>1, <4>1, AddUserSound, RemoveUserSound DEF GuestToMember, UserCopy
      <4>3. rooms' = [rooms EXCEPT ![r] = room]
        BY <1>14, <3>1 DEF JoinMove, WithRoom, RoomExists
      <4> QED BY <3>1, <4>2, <4>3, Halves, OneRoomSound DEF Tables
    <3>2. CASE ~RoomExists(r)
      BY <1>14, <3>2, Halves DEF JoinMove, WithRoom, Tables, RoomsSound, Sound, Table, Coherent
    <3> QED BY <3>1, <3>2
  <2> QED BY <1>14, <2>3, <2>4, <2>5, ThreadAndTables DEF JoinMove
<1>15. CASE RoomUsersList(c)
  <2>1. p \notin {"off", "end"} /\ Basic(l)
    BY <1>15, ThreadFacts, HoldsAt DEF RoomUsersList
  <2> DEFINE shown == IF RoomExists(Room(c))
                      THEN {<< u.name, u.status >> : u \in UsersOf(rooms[Room(c)].members)}
                      ELSE {}
  <2>2. RoomExists(Room(c)) => Sound(rooms[Room(c)].members)
    BY Halves DEF Tables, RoomsSound, RoomExists
  <2>3. shown \in SUBSET (Names \X Status)
    BY <2>2, LookupsYieldUsers DEF UserCopy
  <2>4. Threads'
    BY <1>15, <2>1, <2>3, ListKeeps DEF RoomUsersList, OnlyThread
  <2> QED BY <1>15, <2>4, ThreadOnly DEF RoomUsersList
<1>16. CASE RoomNotify(c)
  <2>1. p \notin {"off", "end"} /\ Holds("stuck", l)
    BY <1>16, HoldsAt DEF RoomNotify
  <2>2. Threads' /\ roomsLock' \in {roomsLock, c}
    BY <1>16, <2>1, GoesKeeps, DoneKeeps DEF RoomNotify
  <2>3. (Sockets /\ Tables /\ Observers)'
    <3>1. Sockets'
      BY <1>16, Halves DEF RoomNotify, sockVars, Sockets
    <3>2. roomsLock' \in Conns \cup {None}
      BY <2>2, Halves DEF Tables
    <3>3. Tables'
      BY <1>16, <3>2, Halves, TablesStay DEF RoomNotify
    <3>4. Observers'
      BY <1>16, Halves DEF RoomNotify, obsVars, Observers
    <3> QED BY <3>1, <3>3, <3>4
  <2> QED BY <2>2, <2>3, Together
<1>17. CASE LeaveRoom(c)
  <2>1. p \notin {"off", "end"} /\ Basic(l) /\ l.me \in UserCopy
    BY <1>17, ThreadFacts, HoldsAt DEF LeaveRoom
  <2>2. Holds("lv_drop", l) /\ Holds("room_notify", l)
    BY <2>1, HoldsAt
  <2>3. Threads'
    BY <1>17, <2>1, <2>2, GoesKeeps DEF LeaveRoom, OnlyThreadAndTables
  <2>4. Sound(users')
    BY <1>17, Halves DEF LeaveRoom, Tables
  <2>5. RoomsSound'
    <3> DEFINE r == Room(c)
    <3> DEFINE room == RemoveMember(rooms[r], l.me)
    <3>1. CASE RoomExists(r)
      <4>1. Sound(rooms[r].members) /\ Sound(rooms[r].guests)
        BY <3>1, Halves DEF Tables, RoomsSound, RoomExists
      <4>2. Sound(room.members) /\ Sound(room.guests)
        BY <2>1, <4>1, RemoveUserSound DEF RemoveMember
      <4>3. rooms' = [rooms EXCEPT ![r] = room]
        BY <1>17, <3>1 DEF LeaveRoom, WithRoom, RoomExists
      <4> QED BY <3>1, <4>2, <4>3, Halves, OneRoomSound DEF Tables
    <3>2. CASE ~RoomExists(r)
      BY <1>17, <3>2, Halves DEF LeaveRoom, WithRoom, Tables, RoomsSound, Sound, Table, Coherent
    <3> QED BY <3>1, <3>2
  <2> QED BY <1>17, <2>3, <2>4, <2>5, ThreadAndTables DEF LeaveRoom
<1>18. CASE LeaveDropRoom(c)
  <2>1. p \notin {"off", "end"} /\ Holds("room_notify", l)
    BY <1>18, ThreadFacts, HoldsAt DEF LeaveDropRoom
  <2>2. Threads'
    BY <1>18, <2>1, GoesKeeps DEF LeaveDropRoom, OnlyThreadAndTables
  <2>3. Sound(users')
    BY <1>18, Halves DEF LeaveDropRoom, Tables
  <2>4. RoomsSound'
    BY <1>18, Halves DEF LeaveDropRoom, DropRoom, Tables, RoomsSound
  <2> QED BY <1>18, <2>2, <2>3, <2>4, ThreadAndTables DEF LeaveDropRoom
<1> QED
  BY <1>1, <1>2, <1>3, <1>4, <1>5, <1>6, <1>7, <1>8, <1>9, <1>10, <1>11, <1>12, <1>13,
     <1>14, <1>15, <1>16, <1>17, <1>18 DEF RoomStep
-----------------------------------------------------------------------------
\* Steps of a connection.

\* Every step of the receive loop, of a reply, of a broadcast and of a
\* disconnection keeps the invariant.
LEMMA ConnectionStepKeeps ==
  ASSUME IInv, NEW c \in Conns, ConnectionStep(c)
  PROVE  IInv'
<1> DEFINE l == loc[c]
<1> DEFINE p == pc[c]
<1> USE DEF Places, Serving, Identifying, ChangingStatus, Notifying, Disconnecting,
            CreatingRoom, EnteringRoom, Replies, Fatal
<1>1. CASE RecvCall(c)
  <2>1. p \notin {"off", "end"} /\ fdt[fdOf[c]] \in Conns \cup {None}
    BY <1>1, ThreadFacts, Halves DEF RecvCall, Sockets
  <2>2. bound' = [bound EXCEPT ![c] = fdt[fdOf[c]]] /\ bound \in [Conns -> Conns \cup {None}]
    BY <1>1, Halves DEF RecvCall, Sockets
  <2> DEFINE q == IF fdt[fdOf[c]] = None THEN "end" ELSE "blocked"
  <2>3. Moves(c, q, l) /\ l \in Locals /\ Holds(q, l) /\ fdOf' = fdOf
    BY <1>1, <2>1, ThreadFacts, HoldsAt DEF RecvCall, Moves, Goto
  <2>4. q = "blocked" => bound'[c] \in Conns
    BY <2>1, <2>2
  <2>5. Threads'
    BY <2>1, <2>2, <2>3, <2>4, MovesKeep
  <2>6. (Sockets /\ Tables /\ Observers)'
    <3>1. Sockets'
      BY <1>1, <2>1, <2>2, Halves DEF RecvCall, sockVars, Sockets
    <3>2. Tables' /\ Observers'
      BY <1>1, SharedStays DEF RecvCall
    <3> QED BY <3>1, <3>2
  <2> QED BY <2>5, <2>6, Together
<1>2. CASE RecvReturns(c)
  <2> DEFINE d == bound[c]
  <2>1. p = "blocked" /\ d \in Conns /\ wire[d] \in Seq(Request)
    BY <1>2, Halves DEF RecvReturns, Threads, LocalsReady, Sockets
  <2>2. PICK k \in 1..Len(wire[d]) :
          /\ buf' = [buf EXCEPT ![c] = [i \in 1..k |-> [req |-> wire[d][i], from |-> d]]]
          /\ wire' = [wire EXCEPT ![d] = SubSeq(@, k + 1, Len(@))]
    BY <1>2 DEF RecvReturns
  <2>3. [i \in 1..k |-> [req |-> wire[d][i], from |-> d]] \in Seq(Line)
    <3>1. ASSUME NEW i \in 1..k PROVE [req |-> wire[d][i], from |-> d] \in Line
      BY <2>1, <2>2, ElementOfSeq DEF Line
    <3> QED BY <3>1, <2>1, <2>2, IsASeq, LenProperties
  <2>4. SubSeq(wire[d], k + 1, Len(wire[d])) \in Seq(Request)
    BY <2>1, SubSeqProperties, LenProperties
  <2>5. bound' = [bound EXCEPT ![c] = None] /\ bound \in [Conns -> Conns \cup {None}]
    BY <1>2, Halves DEF RecvReturns, Sockets
  <2>6. Moves(c, "next", l) /\ l \in Locals /\ Holds("next", l) /\ fdOf' = fdOf
    BY <1>2, <2>1, ThreadFacts, HoldsAt DEF RecvReturns, Moves, Goto
  <2>7. Threads'
    BY <2>1, <2>5, <2>6, MovesKeep
  <2>8. wire' \in [Conns -> Seq(Request)] /\ buf' \in [Conns -> Seq(Line)]
    BY <2>1, <2>2, <2>3, <2>4, Halves DEF Sockets
  <2>9. (Sockets /\ Tables /\ Observers)'
    <3>1. Sockets'
      BY <1>2, <2>5, <2>8, Halves DEF RecvReturns, Sockets
    <3>2. Tables' /\ Observers'
      BY <1>2, SharedStays DEF RecvReturns
    <3> QED BY <3>1, <3>2
  <2> QED BY <2>7, <2>9, Together
<1>3. CASE RecvEnds(c)
  <2>1. bound' = [bound EXCEPT ![c] = None] /\ bound \in [Conns -> Conns \cup {None}]
    BY <1>3, Halves DEF RecvEnds, Sockets
  <2>2. p \notin {"off", "end"} /\ Moves(c, "end", l) /\ l \in Locals /\ Holds("end", l) /\ fdOf' = fdOf
    BY <1>3, ThreadFacts, HoldsAt DEF RecvEnds, Moves, Goto
  <2>3. Threads'
    BY <2>1, <2>2, MovesKeep
  <2>4. (Sockets /\ Tables /\ Observers)'
    <3>1. Sockets'
      BY <1>3, <2>1, Halves DEF RecvEnds, sockVars, Sockets
    <3>2. Tables' /\ Observers'
      BY <1>3, SharedStays DEF RecvEnds
    <3> QED BY <3>1, <3>2
  <2> QED BY <2>3, <2>4, Together
<1>4. CASE Extract(c)
  <2> DEFINE line == Head(buf[c])
  <2> DEFINE q == Entry(line.req)
  <2> DEFINE x == IF q = "reply" THEN "INVALID" ELSE None
  <2> DEFINE m == [Fresh EXCEPT !.req = line.req, !.from = line.from, !.dfd = fdOf[c],
                     !.reply = x]
  <2>1. p \notin {"off", "end"} /\ fdOf[c] \in Fds
    BY <1>4, ThreadFacts DEF Extract
  <2>2. line \in Line /\ Tail(buf[c]) \in Seq(Line)
    BY <1>4, Halves, HeadTailProperties DEF Extract, Sockets
  <2>3. line.req \in Request /\ line.from \in Conns
    BY <2>2 DEF Line
  <2>4. m \in Locals /\ Basic(m) /\ m.req = line.req
    <3>1. x \in Replies \cup {None}
      OBVIOUS
    <3> HIDE DEF x, line
    <3>2. m \in Locals
      BY <2>1, <2>3, <3>1, StartLocals
    <3>3. Basic(m) /\ m.req = line.req
      BY <2>1, <2>3 DEF Fresh, Basic
    <3> QED BY <3>2, <3>3
  <2>5. q \in {"reply", "next", "dc_find", "id_find_fd", "gate"}
        /\ (q = "id_find_fd" => line.req.type = "IDENTIFY")
    BY DEF Entry
  <2>6. Holds(q, m) /\ Holds("next", Fresh)
    <3> HIDE DEF m, q, x, line
    <3>1. Holds("next", Fresh)
      BY HoldsAt
    <3> QED BY <2>4, <2>5, <3>1, HoldsAt
  <2>7. IF q = "next" THEN Moves(c, q, Fresh) ELSE Moves(c, q, m)
    BY <1>4 DEF Extract, Moves, Goto
  <2> HIDE DEF m, q, x, line
  <2>8. fdOf' = fdOf /\ bound' = bound
    BY <1>4 DEF Extract
  <2>9. Threads'
    BY <2>1, <2>4, <2>5, <2>6, <2>7, <2>8, MovesKeep, FreshIsTyped
  <2>10. buf' \in [Conns -> Seq(Line)]
    BY <1>4, <2>2, Halves DEF Extract, Sockets
  <2>11. (Sockets /\ Tables /\ Observers)'
    <3>1. Sockets'
      BY <1>4, <2>10, Halves DEF Extract, sockVars, Sockets
    <3>2. Tables' /\ Observers'
      BY <1>4, SharedStays DEF Extract
    <3> QED BY <3>1, <3>2
  <2> QED BY <2>9, <2>11, Together
<1>5. CASE BadJson(c)
  <2>1. p \notin {"off", "end"} /\ Basic(l)
    BY <1>5, ThreadFacts, HoldsAt DEF BadJson
  <2>2. Holds("dc_find", l) /\ Holds("dc_close", l)
    BY <2>1, HoldsAt
  <2>3. Threads'
    BY <1>5, <2>1, <2>2, GoesKeeps DEF BadJson, OnlyThread
  <2> QED BY <1>5, <2>3, ThreadOnly DEF BadJson
<1>6. CASE GateOpens(c)
  <2> DEFINE q == HandlerOf(Req(c))
  <2>1. p \notin {"off", "end"} /\ Basic(l) /\ OnlyThread
    BY <1>6, ThreadFacts, HoldsAt DEF GateOpens
  <2>2. q \in {"st_find", "reply", "us_list", "tx_find_to", "pt_find", "nr_contains", "next",
              "rm_contains"}
    BY DEF HandlerOf
  <2>3. /\ q = "st_find" => l.req.type = "STATUS" /\ l.req.status \in Status
        /\ q = "nr_contains" => l.req.type = "NEW_ROOM"
        /\ q = "rm_contains" => l.req.type \in RoomRequests
    BY DEF HandlerOf, Req, RoomRequests
  <2>4. Holds(q, l)
    BY <2>1, <2>2, <2>3, HoldsAt
  <2>5. Done(c) \/ Reply(c, "INVALID") \/ (Goto(c, q) /\ UNCHANGED loc)
    BY <1>6 DEF GateOpens
  <2> HIDE DEF q
  <2>6. Threads'
    BY <2>1, <2>2, <2>4, <2>5, GoesKeeps, DoneKeeps, ReplyKeeps DEF OnlyThread
  <2> QED BY <2>1, <2>6, ThreadOnly
<1>7. CASE GateCloses(c)
  <2>1. p \notin {"off", "end"} /\ Basic(l)
    BY <1>7, ThreadFacts, HoldsAt DEF GateCloses
  <2>2. Threads'
    BY <1>7, <2>1, ReplyKeeps DEF GateCloses, OnlyThread
  <2> QED BY <1>7, <2>2, ThreadOnly DEF GateCloses
<1>8. CASE ReplyFatal(c)
  <2>1. p \notin {"off", "end"} /\ Basic(l) /\ fdOf[c] \in Fds
    BY <1>8, ThreadFacts, HoldsAt DEF ReplyFatal
  <2>2. Holds("bad_json", l)
    BY <2>1, HoldsAt
  <2>3. Threads'
    BY <1>8, <2>1, <2>2, GoesKeeps, DisconnectKeeps DEF ReplyFatal, OnlyThread
  <2> QED BY <1>8, <2>3, ThreadOnly DEF ReplyFatal
<1>9. CASE ReplyFails(c)
  <2>1. p \notin {"off", "end"} /\ Basic(l) /\ fdOf[c] \in Fds
    BY <1>9, ThreadFacts, HoldsAt DEF ReplyFails
  <2>2. Threads'
    BY <1>9, <2>1, DisconnectKeeps DEF ReplyFails, OnlyThread
  <2> QED BY <1>9, <2>2, ThreadOnly DEF ReplyFails
<1>10. CASE ReplySent(c)
  <2> DEFINE note == [type |-> "NEW_USER", name |-> Clip8[Req(c).username], status |-> "ACTIVE"]
  <2>1. p \notin {"off", "end"} /\ Basic(l) /\ OnlyThread
    BY <1>10, ThreadFacts, HoldsAt DEF ReplySent
  <2>2. Req(c).type = "IDENTIFY" => note \in Note
    BY <2>1, RequestFields, ChatAssumption DEF Basic, Req, Note, Views, Status
  <2>3. Holds("room_notify", l)
    BY <2>1, HoldsAt
  <2>4. \/ Req(c).type = "IDENTIFY" /\ Broadcast(c, note)
        \/ Goto(c, "room_notify") /\ UNCHANGED loc
        \/ Done(c)
    BY <1>10 DEF ReplySent
  <2>5. Threads'
    BY <2>1, <2>2, <2>3, <2>4, GoesKeeps, DoneKeeps, BroadcastKeeps DEF OnlyThread
  <2> QED BY <2>1, <2>5, ThreadOnly
<1>11. CASE NotifySize(c)
  <2>1. p \notin {"off", "end"} /\ OnlyThread
    BY <1>11 DEF NotifySize
  <2>2. Basic(l) /\ l.note \in Note
        /\ (l.note.type = "DISCONNECTED" => l.gone \in UserCopy)
    BY <1>11, <2>1, ThreadFacts, HoldsAt DEF NotifySize
  <2> DEFINE size == Cardinality(Usernames(users))
  <2> DEFINE m == [l EXCEPT !.mx = size]
  <2>3. size \in Nat
    BY <2>1, ThreadFacts, ChatAssumption, FS_Subset, FS_CardinalityType DEF Sound, Table
  <2>4. m \in Locals
    BY <2>1, <2>3, ThreadFacts, UpdateLocals
  <2>5. Basic(m) /\ m.note = l.note /\ m.gone = l.gone
    BY <2>1, <2>2, ThreadFacts DEF Basic, Locals
  <2>6. Holds("notify_each", m)
    BY <2>2, <2>5, HoldsAt
  <2>7. Moves(c, "notify_each", m)
    BY <1>11 DEF NotifySize, Moves, Goto
  <2> HIDE DEF m
  <2>8. Threads'
    BY <2>1, <2>4, <2>6, <2>7, MovesKeep DEF OnlyThread
  <2> QED BY <2>1, <2>8, ThreadOnly
<1>12. CASE NotifyEach(c)
  <2>1. p \notin {"off", "end"} /\ OnlyThreadAndSeen
    BY <1>12 DEF NotifyEach
  <2>2. Basic(l) /\ l.note \in Note
        /\ (l.note.type = "DISCONNECTED" => l.gone \in UserCopy)
    BY <1>12, <2>1, ThreadFacts, HoldsAt DEF NotifyEach
  <2> DEFINE others == {u \in UsersOf(users) : u.fd # Skipped(c)}
  <2>3. PICK F \in FailingSets(users, Skipped(c),
                              l.note.type = "PUBLIC_TEXT_FROM" /\ IsBig(Req(c))) :
          /\ Goto(c, IF Cardinality(F) > l.mx THEN "overrun" ELSE "evict")
          /\ loc' = [loc EXCEPT ![c].failed = F]
          /\ \E reached : seen' = [e \in Conns |->
                \* as in the action, whoever was reached
                IF e \in reached /\ l.note.type # "PUBLIC_TEXT_FROM"
                THEN [seen[e] EXCEPT ![l.note.name] = l.note.status] ELSE seen[e]]
    BY <1>12 DEF NotifyEach
  <2> DEFINE q == IF Cardinality(F) > l.mx THEN "overrun" ELSE "evict"
  <2> DEFINE m == [l EXCEPT !.failed = F]
  <2>4. F \subseteq UserCopy
    <3>1. F \subseteq UsersOf(users)
      BY <2>3 DEF FailingSets
    <3> QED BY <2>1, <3>1, ThreadFacts, LookupsYieldUsers
  <2>5. m \in Locals
    BY <2>1, <2>4, ThreadFacts, UpdateLocals
  <2>6. Basic(m) /\ m.note = l.note /\ m.gone = l.gone
    BY <2>1, <2>2, ThreadFacts DEF Basic, Locals
  <2>7. q \in {"overrun", "evict"} /\ Holds(q, m)
    BY <2>2, <2>6, HoldsAt
  <2>8. Moves(c, q, m)
    BY <2>3 DEF Moves, Goto
  <2> HIDE DEF m, q
  <2>9. Threads'
    BY <2>1, <2>5, <2>7, <2>8, MovesKeep DEF OnlyThreadAndSeen
  <2>10. l.note.name \in Names /\ l.note.status \in Views
    BY <2>2 DEF Note
  <2>11. seen' \in [Conns -> [Names -> Views]]
    BY <2>3, <2>10, Halves DEF Observers
  <2>12. (Sockets /\ Tables /\ Observers)'
    <3>1. Sockets'
      BY <2>1, Halves DEF OnlyThreadAndSeen, sockVars, Sockets
    <3>2. Tables'
      BY <2>1, Halves, TablesStay DEF OnlyThreadAndSeen, tabVars, Tables
    <3>3. Observers'
      BY <2>1, <2>11, Halves DEF OnlyThreadAndSeen, Observers
    <3> QED BY <3>1, <3>2, <3>3
  <2> QED BY <2>9, <2>12, Together
<1>13. CASE EvictNext(c)
  <2>1. p \notin {"off", "end"} /\ OnlyThread
    BY <1>13 DEF EvictNext
  <2>2. Basic(l) /\ l.note \in Note
        /\ (l.note.type = "DISCONNECTED" => l.gone \in UserCopy)
        /\ l.failed \in SUBSET UserCopy
    BY <1>13, <2>1, ThreadFacts, HoldsAt DEF EvictNext, Locals
  <2>3. PICK u \in l.failed :
          IF ContainsFd(users, u.fd)
          THEN /\ Goto(c, "evict_rooms")
               /\ loc' = [loc EXCEPT ![c].failed = @ \ {u}, ![c].victim = FindByFd(users, u.fd)]
          ELSE loc' = [loc EXCEPT ![c].failed = @ \ {u}] /\ UNCHANGED pc
    BY <1>13 DEF EvictNext
  <2> DEFINE k == [l EXCEPT !.failed = l.failed \ {u}]
  <2> DEFINE v == FindByFd(users, u.fd)
  <2> DEFINE m == [k EXCEPT !.victim = v]
  <2>4. k \in Locals
    BY <2>1, <2>2, ThreadFacts, UpdateLocals
  <2>5. Basic(k) /\ k.note = l.note /\ k.gone = l.gone
    BY <2>1, <2>2, ThreadFacts DEF Basic, Locals
  <2>6. CASE ContainsFd(users, u.fd)
    <3>1. v \in UserCopy
      BY <2>1, <2>6, ThreadFacts, LookupsYieldUsers
    <3>2. m \in Locals
      BY <2>4, <3>1, UpdateLocals
    <3>3. Basic(m) /\ m.note = l.note /\ m.gone = l.gone /\ m.victim = v
      BY <2>1, <2>2, ThreadFacts DEF Basic, Locals
    <3>4. Holds("evict_rooms", m)
      BY <2>2, <3>1, <3>3, HoldsAt
    <3>5. Moves(c, "evict_rooms", m)
      BY <2>3, <2>6 DEF Moves, Goto
    <3> HIDE DEF m
    <3>6. Threads'
      BY <2>1, <3>2, <3>4, <3>5, MovesKeep DEF OnlyThread
    <3> QED BY <2>1, <3>6, ThreadOnly
  <2>7. CASE ~ContainsFd(users, u.fd)
    <3>1. Holds("evict", k)
      BY <2>2, <2>5, HoldsAt
    <3>2. Moves(c, "evict", k)
      BY <1>13, <2>3, <2>7, Halves DEF EvictNext, Moves, Threads
    <3> HIDE DEF k
    <3>3. Threads'
      BY <2>1, <2>4, <3>1, <3>2, MovesKeep DEF OnlyThread
    <3> QED BY <2>1, <3>3, ThreadOnly
  <2> QED BY <2>6, <2>7
<1>14. CASE EvictFromRooms(c)
  <2>1. p \notin {"off", "end"} /\ Basic(l) /\ l.note \in Note
        /\ (l.note.type = "DISCONNECTED" => l.gone \in UserCopy) /\ l.victim \in UserCopy
    BY <1>14, ThreadFacts, HoldsAt DEF EvictFromRooms
  <2>2. Holds("evict_user", l)
    BY <2>1, HoldsAt
  <2>3. Threads'
    BY <1>14, <2>1, <2>2, GoesKeeps DEF EvictFromRooms, OnlyThreadAndTables
  <2>4. Sound(users') /\ RoomsSound'
    BY <1>14, Halves, RemoveFromRoomsSound DEF EvictFromRooms, Tables
  <2> QED BY <1>14, <2>3, <2>4, ThreadAndTables DEF EvictFromRooms
<1>15. CASE EvictFromUsers(c)
  <2>1. p \notin {"off", "end"} /\ OnlyThreadAndTables
    BY <1>15 DEF EvictFromUsers
  <2>2. Basic(l) /\ l.note \in Note
        /\ (l.note.type = "DISCONNECTED" => l.gone \in UserCopy)
    BY <1>15, <2>1, ThreadFacts, HoldsAt DEF EvictFromUsers
  <2> DEFINE m == [l EXCEPT !.victim = None]
  <2>3. m \in Locals
    BY <2>1, ThreadFacts, UpdateLocals
  <2>4. Basic(m) /\ m.note = l.note /\ m.gone = l.gone
    BY <2>1, <2>2, ThreadFacts DEF Basic, Locals
  <2>5. Holds("evict", m)
    BY <2>2, <2>4, HoldsAt
  <2>6. Moves(c, "evict", m)
    BY <1>15 DEF EvictFromUsers, Moves, Goto
  <2> HIDE DEF m
  <2>7. Threads'
    BY <2>1, <2>3, <2>5, <2>6, MovesKeep DEF OnlyThreadAndTables
  <2>8. Sound(users') /\ RoomsSound'
    BY <1>15, Halves, RemoveUserSound DEF EvictFromUsers, Tables, RoomsSound
  <2> QED BY <2>1, <2>7, <2>8, ThreadAndTables
<1>16. CASE EvictDone(c)
  <2>1. p \notin {"off", "end"} /\ Basic(l) /\ l.note \in Note
        /\ (l.note.type = "DISCONNECTED" => l.gone \in UserCopy)
    BY <1>16, ThreadFacts, HoldsAt DEF EvictDone
  <2>2. l.note.type = "DISCONNECTED" => Holds("dc_rooms", l)
    BY <2>1, HoldsAt
  <2>3. Threads'
    BY <1>16, <2>1, <2>2, GoesKeeps, DoneKeeps DEF EvictDone, OnlyThread
  <2> QED BY <1>16, <2>3, ThreadOnly DEF EvictDone
<1>17. CASE DisconnectFind(c)
  <2>1. p \notin {"off", "end"} /\ Basic(l) /\ OnlyThread
    BY <1>17, ThreadFacts, HoldsAt DEF DisconnectFind
  <2>2. CASE ContainsFd(users, l.dfd)
    <3> DEFINE u == FindByFd(users, l.dfd)
    <3> DEFINE note == [type |-> "DISCONNECTED", name |-> u.name, status |-> "out"]
    <3> DEFINE k == [l EXCEPT !.gone = u]
    <3> DEFINE m == [k EXCEPT !.note = note]
    <3>1. u \in UserCopy
      BY <2>1, <2>2, ThreadFacts, LookupsYieldUsers
    <3>2. note \in Note
      BY <3>1 DEF Note, UserCopy, Views
    <3>3. m \in Locals
      BY <2>1, <3>1, <3>2, ThreadFacts, UpdateLocals
    <3>4. Basic(m) /\ m.note = note /\ m.gone = u
      BY <2>1, ThreadFacts DEF Basic, Locals
    <3>5. Holds("notify_size", m)
      BY <3>1, <3>2, <3>4, HoldsAt
    <3>6. Moves(c, "notify_size", m)
      BY <1>17, <2>2 DEF DisconnectFind, Moves, Goto
    <3> HIDE DEF m
    <3>7. Threads'
      BY <2>1, <3>3, <3>5, <3>6, MovesKeep DEF OnlyThread
    <3> QED BY <2>1, <3>7, ThreadOnly
  <2>3. CASE ~ContainsFd(users, l.dfd)
    <3>1. Holds("dc_close", l)
      BY <2>1, HoldsAt
    <3>2. Threads'
      BY <1>17, <2>1, <2>3, <3>1, GoesKeeps DEF DisconnectFind, OnlyThread
    <3> QED BY <2>1, <3>2, ThreadOnly
  <2> QED BY <2>2, <2>3
<1>18. CASE DisconnectFromRooms(c)
  <2>1. p \notin {"off", "end"} /\ Basic(l) /\ l.gone \in UserCopy
    BY <1>18, ThreadFacts, HoldsAt DEF DisconnectFromRooms
  <2>2. Holds("dc_users", l)
    BY <2>1, HoldsAt
  <2>3. Threads'
    BY <1>18, <2>1, <2>2, GoesKeeps DEF DisconnectFromRooms, OnlyThreadAndTables
  <2>4. Sound(users') /\ RoomsSound'
    BY <1>18, Halves, RemoveFromRoomsSound DEF DisconnectFromRooms, Tables
  <2> QED BY <1>18, <2>3, <2>4, ThreadAndTables DEF DisconnectFromRooms
<1>19. CASE DisconnectFromUsers(c)
  <2>1. p \notin {"off", "end"} /\ Basic(l)
    BY <1>19, ThreadFacts, HoldsAt DEF DisconnectFromUsers
  <2>2. Holds("dc_close", l)
    BY <2>1, HoldsAt
  <2>3. Threads'
    BY <1>19, <2>1, <2>2, GoesKeeps DEF DisconnectFromUsers, OnlyThreadAndTables
  <2>4. Sound(users') /\ RoomsSound'
    BY <1>19, Halves, RemoveUserSound DEF DisconnectFromUsers, Tables, RoomsSound
  <2> QED BY <1>19, <2>3, <2>4, ThreadAndTables DEF DisconnectFromUsers
<1>20. CASE DisconnectClose(c)
  <2> DEFINE q == IF Req(c).type = "BAD_JSON" THEN "end" ELSE "next"
  <2>1. p \notin {"off", "end"} /\ q \in {"end", "next"} /\ Moves(c, q, Fresh) /\ Holds(q, Fresh)
    BY <1>20, HoldsAt DEF DisconnectClose, Moves, Goto
  <2> HIDE DEF q
  <2>2. Threads'
    BY <1>20, <2>1, FreshIsTyped, MovesKeep DEF DisconnectClose
  <2>3. fdt' \in [Fds -> Conns \cup {None}]
    BY <1>20, Halves DEF DisconnectClose, Sockets
  <2>4. (Sockets /\ Tables /\ Observers)'
    <3>1. Sockets'
      BY <1>20, <2>3, Halves DEF DisconnectClose, Sockets
    <3>2. Tables' /\ Observers'
      BY <1>20, SharedStays DEF DisconnectClose
    <3> QED BY <3>1, <3>2
  <2> QED BY <2>2, <2>4, Together
<1> QED
  BY <1>1, <1>2, <1>3, <1>4, <1>5, <1>6, <1>7, <1>8, <1>9, <1>10, <1>11, <1>12, <1>13,
     <1>14, <1>15, <1>16, <1>17, <1>18, <1>19, <1>20 DEF ConnectionStep

-----------------------------------------------------------------------------
\* Steps of the clients.

\* A new connection starts a thread whose descriptor is one of the client ones.
LEMMA AcceptKeeps ==
  ASSUME IInv, NEW c \in Conns, Accept(c)
  PROVE  IInv'
<1>1. PICK f \in Fds :
        /\ fdt' = [fdt EXCEPT ![f] = c]
        /\ fdOf' = [d \in Conns |-> IF d = c THEN f
                                   ELSE IF fdOf[d] = f /\ pc[d] = "end" THEN 0 ELSE fdOf[d]]
  BY DEF Accept
<1>2. /\ pc' = [pc EXCEPT ![c] = "next"] /\ loc' = loc /\ bound' = bound
      /\ pc' \in [Conns -> Places] /\ fdOf' \in [Conns -> Fds \cup {0}]
  BY <1>1, Halves DEF Accept, Goto, Threads, Sockets, Places
<1>3. ASSUME NEW e \in Conns
      PROVE  /\ Holds(pc[e], loc[e])'
             /\ (pc[e] \notin {"off", "end"} => fdOf[e] \in Fds)'
             /\ (pc[e] = "blocked" => bound[e] \in Conns)'
  <2>1. CASE e = c
    <3>1. pc'[e] = "next" /\ fdOf'[e] = f
      BY <1>1, <1>2, <2>1, Halves DEF Threads, Sockets
    <3>2. Holds("next", loc'[e])
      BY HoldsAt
    <3> QED BY <3>1, <3>2 DEF Holds
  <2>2. CASE e # c
    <3>1. /\ pc'[e] = pc[e] /\ loc'[e] = loc[e] /\ bound'[e] = bound[e]
          /\ pc[e] # "end" => fdOf'[e] = fdOf[e]
      BY <1>1, <1>2, <2>2, Halves DEF Threads, Sockets
    <3> QED BY <3>1, Halves DEF Threads, LocalsReady, Holds
  <2> QED BY <2>1, <2>2
<1>4. Threads'
  BY <1>2, <1>3, Halves DEF Threads, LocalsReady
<1>5. fdt' \in [Fds -> Conns \cup {None}]
  BY <1>1, Halves DEF Sockets
<1>6. peer' \in [Conns -> {"away", "here", "leaving", "gone"}]
  BY Halves DEF Accept, Sockets
<1>7. (Sockets /\ Tables /\ Observers)'
  <2>1. Sockets'
    BY <1>2, <1>5, <1>6, Halves DEF Accept, Sockets
  <2>2. Tables' /\ Observers'
    BY <1>2, SharedStays DEF Accept
  <2> QED BY <2>1, <2>2
<1> QED BY <1>4, <1>7, Together

\* The rest of the clients' steps leave every thread where it is.
LEMMA ThreadsStay ==
  ASSUME IInv, UNCHANGED << fdt, pc, fdOf, bound, buf, loc, tabVars, obsVars >>,
         peer' \in [Conns -> {"away", "here", "leaving", "gone"}],
         sent' \in [Conns -> Nat], wire' \in [Conns -> Seq(Request)]
  PROVE  IInv'
<1>1. Threads'
  BY Halves DEF Threads, LocalsReady, Holds
<1>2. (Sockets /\ Tables /\ Observers)'
  BY Halves, SharedStays DEF Sockets
<1> QED BY <1>1, <1>2, Together

\* A client sends only requests of its menu.
LEMMA SubmitKeeps ==
  ASSUME IInv, NEW c \in Conns, Submit(c)
  PROVE  IInv'
<1> DEFINE i == sent[c] + 1
<1>1. PICK req \in Menu[c][i] :
        /\ wire' = [wire EXCEPT ![c] = Append(@, req)]
        /\ peer' = [peer EXCEPT ![c] = IF req.type = "DISCONNECT" THEN "leaving" ELSE "here"]
  BY DEF Submit
<1>2. sent' = [sent EXCEPT ![c] = i] /\ sent[c] \in Nat /\ i \in 1..Len(Menu[c])
  <2>1. Menu[c] \in Seq(SUBSET Request)
    BY ChatAssumption
  <2>2. Len(Menu[c]) \in Nat
    BY <2>1, LenProperties
  <2>3. sent[c] \in Nat /\ sent[c] < Len(Menu[c]) /\ sent' = [sent EXCEPT ![c] = i]
    BY Halves DEF Submit, Sockets
  <2> QED BY <2>2, <2>3
<1>3. req \in Request
  <2>1. Menu[c] \in Seq(SUBSET Request)
    BY ChatAssumption
  <2>2. Menu[c][i] \in SUBSET Request
    BY <1>2, <2>1, ElementOfSeq
  <2> QED BY <1>1, <2>2
<1>4. Append(wire[c], req) \in Seq(Request)
  BY <1>3, Halves, AppendProperties DEF Sockets
<1>5. wire' \in [Conns -> Seq(Request)]
  BY <1>1, <1>4, Halves DEF Sockets
<1>6. sent' \in [Conns -> Nat] /\ peer' \in [Conns -> {"away", "here", "leaving", "gone"}]
  BY <1>1, <1>2, Halves DEF Sockets
<1> QED BY <1>5, <1>6, ThreadsStay DEF Submit

\* A client that goes away changes nothing but its own end.
LEMMA VanishKeeps ==
  ASSUME IInv, NEW c \in Conns, Vanish(c)
  PROVE  IInv'
<1>1. /\ peer' \in [Conns -> {"away", "here", "leaving", "gone"}]
      /\ sent' \in [Conns -> Nat] /\ wire' \in [Conns -> Seq(Request)]
  BY Halves DEF Vanish, Sockets
<1> QED BY <1>1, ThreadsStay DEF Vanish

-----------------------------------------------------------------------------
\* The invariant is inductive.

\* The invariant holds when the server starts, ...
LEMMA InitHolds == Init => IInv
<1> SUFFICES ASSUME Init PROVE IInv
  OBVIOUS
<1>1. Threads
  BY FreshIsTyped, HoldsAt DEF Init, Threads, LocalsReady, Places
<1>2. Sockets
  BY EmptySeq DEF Init, Sockets
<1>3. Sound(users) /\ RoomsSound
  BY EmptyTableCoherent DEF Init, Sound, Table, EmptyTable, RoomsSound
<1>4. Tables /\ Observers
  BY <1>3 DEF Init, Tables, Observers, Views
<1> QED BY <1>1, <1>2, <1>4, Halves

\* ... and every step keeps it.
LEMMA StepKeeps == IInv /\ [Next]_vars => IInv'
<1> SUFFICES ASSUME IInv, [Next]_vars PROVE IInv'
  OBVIOUS
<1>1. ASSUME NEW c \in Conns, ClientStep(c) PROVE IInv'
  BY <1>1, AcceptKeeps, SubmitKeeps, VanishKeeps DEF ClientStep
<1>2. ASSUME NEW c \in Conns, Thread(c) PROVE IInv'
  BY <1>2, ConnectionStepKeeps, HandlerStepKeeps, RoomStepKeeps DEF Thread
<1>3. CASE UNCHANGED vars
  <2>1. /\ peer' \in [Conns -> {"away", "here", "leaving", "gone"}]
        /\ sent' \in [Conns -> Nat] /\ wire' \in [Conns -> Seq(Request)]
    BY <1>3, Halves DEF vars, sockVars, Sockets
  <2> QED BY <1>3, <2>1, ThreadsStay DEF vars, sockVars
<1> QED BY <1>1, <1>2, <1>3 DEF Next, Idling

(* Every behaviour of the server stays inside the invariant, whatever the
   clients, the failures and the reuse of descriptor numbers.               *)
THEOREM Invariance == Spec => []IInv
  BY InitHolds, StepKeeps, PTL DEF Spec

(* No variable of the server leaves its type: every descriptor, place, copy of
   a user and line in transit is one the C declarations allow.              *)
THEOREM TypeCorrect == Spec => []TypeOK
<1>1. IInv => TypeOK
  BY DEF IInv
<1> QED BY <1>1, Invariance, PTL

(* No handler uses a local it has not filled in, and no request reaches the
   handler of another type, at any point of any interleaving.               *)
THEOREM LocalsAlwaysReady == Spec => []LocalsReady
<1>1. IInv => LocalsReady
  BY DEF IInv
<1> QED BY <1>1, Invariance, PTL

(* The index by descriptor of the users table and of both tables of every room
   never points at a freed or a foreign user: users_table.c has no use after
   free, for any number of clients, rooms and reused descriptors.           *)
THEOREM TablesStayCoherent == Spec => []TablesCoherent
<1>1. IInv => TablesCoherent
  BY DEF IInv
<1> QED BY <1>1, Invariance, PTL

-----------------------------------------------------------------------------
\* For the modules that prove more.

\* A step of one thread moves no other.
LEMMA OthersStandStill ==
  ASSUME IInv, NEW c \in Conns, Thread(c), NEW d \in Conns, d # c
  PROVE  pc'[d] = pc[d] /\ loc'[d] = loc[d]
<1> pc \in [Conns -> Places] /\ loc \in [Conns -> Locals]
  BY DEF IInv, TypeOK
<1> USE DEF Goto, Done, Reply, Broadcast, Disconnect
<1>1. CASE ConnectionStep(c)
  BY <1>1 DEF ConnectionStep, RecvCall, RecvReturns, RecvEnds, Extract, BadJson, GateOpens,
       GateCloses, ReplyFatal, ReplyFails, ReplySent, NotifySize, NotifyEach, EvictNext,
       EvictFromRooms, EvictFromUsers, EvictDone, DisconnectFind, DisconnectFromRooms,
       DisconnectFromUsers, DisconnectClose
<1>2. CASE HandlerStep(c)
  BY <1>2 DEF HandlerStep, IdentifyFindFd, IdentifyFindName, IdentifyAdd, StatusFind,
       StatusChange, StatusChangeInRooms, UsersList, TextFindAddressee, TextCompare,
       TextFindSender, TextSend, PublicTextFindSender
<1>3. CASE RoomMember(c)
  <2>1. Req(c).type \in RoomRequests
    BY <1>3, ThreadFacts, HoldsAt DEF RoomMember, Req, EnteringRoom, Holds
  <2> QED BY <1>3, <2>1 DEF RoomMember, RoomRequests
<1>4. CASE RoomStep(c) /\ ~RoomMember(c)
  BY <1>4 DEF RoomStep, NewRoomContains, NewRoomAdd, NewRoomFindCreator, NewRoomAddCreator,
       RoomContains, RoomFindSender, InviteResolve, InviteIsMember, InviteIsGuest,
       InviteAdd, InviteSend, JoinIsGuest, JoinMove, RoomUsersList, RoomNotify,
       LeaveRoom, LeaveDropRoom
<1> QED BY <1>1, <1>2, <1>3, <1>4 DEF Thread

\* A thread has been accepted, and leaves the other ends alone.
LEMMA ThreadsAreOn ==
  ASSUME NEW c \in Conns, Thread(c)
  PROVE  pc[c] \notin {"off", "end"} /\ peer' = peer
<1>1. CASE ConnectionStep(c)
  BY <1>1 DEF ConnectionStep, RecvCall, RecvReturns, RecvEnds, Extract, BadJson, GateOpens,
       GateCloses, ReplyFatal, ReplyFails, ReplySent, NotifySize, NotifyEach, EvictNext,
       EvictFromRooms, EvictFromUsers, EvictDone, DisconnectFind, DisconnectFromRooms,
       DisconnectFromUsers, DisconnectClose, OnlyThread, OnlyThreadAndTables,
       OnlyThreadAndSeen, sockVars
<1>2. CASE HandlerStep(c)
  BY <1>2 DEF HandlerStep, IdentifyFindFd, IdentifyFindName, IdentifyAdd, StatusFind,
       StatusChange, StatusChangeInRooms, UsersList, TextFindAddressee, TextCompare,
       TextFindSender, TextSend, PublicTextFindSender, OnlyThread, OnlyThreadAndTables, sockVars
<1>3. CASE RoomStep(c)
  BY <1>3 DEF RoomStep, NewRoomContains, NewRoomAdd, NewRoomFindCreator, NewRoomAddCreator,
       RoomContains, RoomFindSender, RoomMember, InviteResolve, InviteIsMember,
       InviteIsGuest, InviteAdd, InviteSend, JoinIsGuest, JoinMove, RoomUsersList,
       RoomNotify, LeaveRoom, LeaveDropRoom, OnlyThread, OnlyThreadAndTables, sockVars
<1> QED BY <1>1, <1>2, <1>3 DEF Thread

\* Only the receive loop touches what has been sent and not been served.
LEMMA OnlyLoopReceives ==
  ASSUME NEW c \in Conns, Thread(c), ~(RecvCall(c) \/ RecvReturns(c) \/ RecvEnds(c) \/ Extract(c))
  PROVE  pc[c] \in Serving /\ wire' = wire /\ buf' = buf /\ bound' = bound
<1> USE DEF Serving, Identifying, ChangingStatus, Notifying, Disconnecting, CreatingRoom,
            EnteringRoom, Inviting
<1>1. CASE ConnectionStep(c)
  BY <1>1 DEF ConnectionStep, BadJson, GateOpens, GateCloses, ReplyFatal, ReplyFails, ReplySent,
       NotifySize, NotifyEach, EvictNext, EvictFromRooms, EvictFromUsers, EvictDone,
       DisconnectFind, DisconnectFromRooms, DisconnectFromUsers, DisconnectClose,
       OnlyThread, OnlyThreadAndTables, OnlyThreadAndSeen, sockVars
<1>2. CASE HandlerStep(c)
  BY <1>2 DEF HandlerStep, IdentifyFindFd, IdentifyFindName, IdentifyAdd, StatusFind,
       StatusChange, StatusChangeInRooms, UsersList, TextFindAddressee, TextCompare,
       TextFindSender, TextSend, PublicTextFindSender, OnlyThread, OnlyThreadAndTables, sockVars
<1>3. CASE RoomStep(c)
  BY <1>3 DEF RoomStep, NewRoomContains, NewRoomAdd, NewRoomFindCreator, NewRoomAddCreator,
       RoomContains, RoomFindSender, RoomMember, InviteResolve, InviteIsMember,
       InviteIsGuest, InviteAdd, InviteSend, JoinIsGuest, JoinMove, RoomUsersList,
       RoomNotify, LeaveRoom, LeaveDropRoom, OnlyThread, OnlyThreadAndTables, sockVars
<1> QED BY <1>1, <1>2, <1>3 DEF Thread
=============================================================================
