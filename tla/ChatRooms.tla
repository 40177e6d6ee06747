------------------------------ MODULE ChatRooms ------------------------------
(***************************************************************************)
(* The handlers of message_handler.c that involve rooms: NEW_ROOM, INVITE,   *)
(* JOIN_ROOM, ROOM_USERS, ROOM_TEXT and LEAVE_ROOM.  A room keeps copies of  *)
(* its users in two tables.  Every room_table_* call runs under the rooms    *)
(* mutex, and releases it before the next one.                               *)
(***************************************************************************)
EXTENDS ChatConnections

Room(c) == Req(c).roomname

RoomsFree == roomsLock = None

-----------------------------------------------------------------------------
\* process_new_room: the lookup uses the name as typed, the room gets the name
\* cut to 16 bytes.

NewRoomContains(c) ==
  /\ pc[c] = "nr_contains" /\ RoomsFree
  /\ IF RoomExists(Room(c)) THEN Reply(c, "ROOM_ALREADY_EXISTS")
     ELSE Goto(c, "nr_add") /\ UNCHANGED loc
  /\ OnlyThread

\* room_table_add; refused for an empty name or one that exists, and then the
\* handler ends without an answer.
NewRoomAdd(c) ==
  /\ pc[c] = "nr_add" /\ RoomsFree
  /\ IF Clip16[Room(c)] = Blank \/ RoomExists(Clip16[Room(c)])
     THEN Done(c) /\ UNCHANGED rooms
     ELSE Goto(c, "nr_find") /\ AddRoom(Clip16[Room(c)]) /\ UNCHANGED loc
  /\ OnlyThreadAndTables /\ UNCHANGED users

\* A creator evicted meanwhile leaves an empty room behind.
NewRoomFindCreator(c) ==
  /\ pc[c] = "nr_find"
  /\ IF ContainsFd(users, fdOf[c])
     THEN Goto(c, "nr_creator")
          /\ loc' = [loc EXCEPT ![c].me = FindByFd(users, fdOf[c])]
     ELSE Done(c)
  /\ OnlyThread

\* users_table_add_with_status on one of a room's tables
AddMember(room, u) ==
  [members |-> AddUser(room.members, u.name, u.fd, u.status), guests |-> room.guests]
AddGuest(room, u) ==
  [members |-> room.members, guests |-> AddUser(room.guests, u.name, u.fd, u.status)]

NewRoomAddCreator(c) ==
  /\ pc[c] = "nr_creator" /\ RoomsFree
  /\ WithRoom(Clip16[Room(c)], AddMember(rooms[Clip16[Room(c)]], loc[c].me))
  /\ Reply(c, "SUCCESS")
  /\ OnlyThreadAndTables /\ UNCHANGED users

-----------------------------------------------------------------------------
\* The prologue shared by the five requests about an existing room.

RoomContains(c) ==
  /\ pc[c] = "rm_contains" /\ RoomsFree
  /\ IF RoomExists(Room(c)) THEN Goto(c, "rm_find") /\ UNCHANGED loc
     ELSE Reply(c, "NO_SUCH_ROOM")
  /\ OnlyThread

RoomFindSender(c) ==
  /\ pc[c] = "rm_find"
  /\ IF ContainsFd(users, fdOf[c])
     THEN Goto(c, "rm_member")
          /\ loc' = [loc EXCEPT ![c].me = FindByFd(users, fdOf[c])]
     ELSE Reply(c, "INVALID")
  /\ OnlyThread

RoomMember(c) ==
  /\ pc[c] = "rm_member" /\ RoomsFree
  /\ IF IsMember(Room(c), loc[c].me.fd)
     THEN CASE Req(c).type = "INVITE" ->
                 /\ Goto(c, "iv_resolve")
                 /\ loc' = [loc EXCEPT ![c].todo = Req(c).usernames]
            [] Req(c).type = "JOIN_ROOM" -> Done(c)
            [] Req(c).type = "ROOM_USERS" -> Goto(c, "ru_list") /\ UNCHANGED loc
            [] Req(c).type = "ROOM_TEXT" -> Goto(c, "room_notify") /\ UNCHANGED loc
            [] Req(c).type = "LEAVE_ROOM" -> Goto(c, "lv_leave") /\ UNCHANGED loc
     ELSE CASE Req(c).type = "INVITE" -> Reply(c, "INVALID")
            [] Req(c).type = "JOIN_ROOM" -> Goto(c, "jn_guest") /\ UNCHANGED loc
            [] OTHER -> Reply(c, "NOT_JOINED")
  /\ OnlyThread

-----------------------------------------------------------------------------
\* process_invite: first every name is resolved to a copy of its user, then
\* the copies are added one by one.

InviteResolve(c) ==
  /\ pc[c] = "iv_resolve" /\ loc[c].todo # << >>
  /\ IF ContainsName(users, Head(loc[c].todo))
     THEN /\ loc' = [loc EXCEPT ![c].todo = Tail(@),
                       ![c].invited = Append(@, FindByName(users, Head(loc[c].todo)))]
          /\ Goto(c, IF Len(loc[c].todo) = 1 THEN "iv_member" ELSE "iv_resolve")
     ELSE Reply(c, "NO_SUCH_USER")
  /\ OnlyThread

InviteIsMember(c) ==
  /\ pc[c] = "iv_member" /\ RoomsFree
  /\ loc' = [loc EXCEPT ![c].isIn = IsMember(Room(c), Head(loc[c].invited).fd)]
  /\ Goto(c, "iv_guest")
  /\ OnlyThread

\* One invitee who is in the room already ends the whole request.
InviteIsGuest(c) ==
  /\ pc[c] = "iv_guest" /\ RoomsFree
  /\ IF loc[c].isIn \/ IsGuest(Room(c), Head(loc[c].invited).fd) THEN Done(c)
     ELSE Goto(c, "iv_add") /\ UNCHANGED loc
  /\ OnlyThread

InviteAdd(c) ==
  /\ pc[c] = "iv_add" /\ RoomsFree
  /\ WithRoom(Room(c), AddGuest(rooms[Room(c)], Head(loc[c].invited)))
  /\ Goto(c, "iv_send")
  /\ OnlyThreadAndTables /\ UNCHANGED << loc, users >>

\* Here a failed send disconnects the addressee's descriptor.
InviteSend(c) ==
  /\ pc[c] = "iv_send"
  /\ \E delivered \in SendResults(Head(loc[c].invited).fd, FALSE) :
       IF ~delivered THEN Disconnect(c, Head(loc[c].invited).fd)
       ELSE IF Len(loc[c].invited) = 1 THEN Done(c)
       ELSE /\ Goto(c, "iv_member")
            /\ loc' = [loc EXCEPT ![c].invited = Tail(@)]
  /\ OnlyThread

-----------------------------------------------------------------------------
\* process_join_room.

\* A mistake: nobody looks at the guests.
JoinUninvited(c) ==
  /\ pc[c] = "jn_guest" /\ RoomsFree
  /\ Goto(c, "jn_move") /\ UNCHANGED loc
  /\ OnlyThread

JoinIsGuest(c) ==
  /\ pc[c] = "jn_guest" /\ RoomsFree
  /\ IF IsGuest(Room(c), loc[c].me.fd) THEN Goto(c, "jn_move") /\ UNCHANGED loc
     ELSE Reply(c, "NOT_INVITED")
  /\ OnlyThread

\* A mistake: the guest stays one.
GuestBecomesBoth(room, u) ==
  [members |-> AddUser(room.members, u.name, u.fd, u.status), guests |-> room.guests]

\* room_from_guest_to_member, on whatever the room has become since.
GuestToMember(room, u) ==
  [members |-> AddUser(room.members, u.name, u.fd, u.status),
   guests  |-> RemoveUser(room.guests, u.name)]

JoinMove(c) ==
  /\ pc[c] = "jn_move" /\ RoomsFree
  /\ WithRoom(Room(c), GuestToMember(rooms[Room(c)], loc[c].me))
  /\ Reply(c, "SUCCESS")
  /\ OnlyThreadAndTables /\ UNCHANGED users

-----------------------------------------------------------------------------
\* process_room_users

RoomUsersList(c) ==
  /\ pc[c] = "ru_list" /\ RoomsFree
  /\ Goto(c, "reply")
  /\ loc' = [loc EXCEPT ![c].reply = "ROOM_USER_LIST",
               ![c].list = IF RoomExists(Room(c))
                           THEN {<< u.name, u.status >> : u \in UsersOf(rooms[Room(c)].members)}
                           ELSE {}]
  /\ OnlyThread

-----------------------------------------------------------------------------
\* room_notify_members: notify_all_but_self over a room's members, inside
\* room_table_with, for ROOM_TEXT_FROM, JOINED_ROOM and LEFT_ROOM.

\* Some send failed for a member the table still knows by its descriptor:
\* notify_all_but_self asks for the rooms mutex this thread is holding.
NeedsEviction(t, F) == \E u \in F : ContainsFd(t, u.fd)

RoomNotify(c) ==
  /\ pc[c] = "room_notify" /\ RoomsFree
  /\ IF ~RoomExists(Room(c)) THEN Done(c) /\ UNCHANGED roomsLock
     ELSE LET members == rooms[Room(c)].members IN
          \E F \in FailingSets(members, fdOf[c], IsBig(Req(c))) :
            IF NeedsEviction(members, F)
            THEN Goto(c, "stuck") /\ roomsLock' = c /\ UNCHANGED loc
            ELSE Done(c) /\ UNCHANGED roomsLock
  /\ UNCHANGED << sockVars, fdOf, bound, buf, users, rooms, obsVars >>

-----------------------------------------------------------------------------
\* process_leave_room: leaving and dropping the emptied room are two calls.

RemoveMember(room, u) ==
  [members |-> RemoveUser(room.members, u.name), guests |-> room.guests]

LeaveRoom(c) ==
  /\ pc[c] = "lv_leave" /\ RoomsFree
  /\ WithRoom(Room(c), RemoveMember(rooms[Room(c)], loc[c].me))
  /\ Goto(c, IF RoomExists(Room(c))
                /\ Usernames(rooms[Room(c)].members) \subseteq {loc[c].me.name}
             THEN "lv_drop" ELSE "room_notify")
  /\ OnlyThreadAndTables /\ UNCHANGED << loc, users >>

LeaveDropRoom(c) ==
  /\ pc[c] = "lv_drop" /\ RoomsFree
  /\ DropRoom(Room(c))
  /\ Goto(c, "room_notify")
  /\ OnlyThreadAndTables /\ UNCHANGED << loc, users >>
=============================================================================
