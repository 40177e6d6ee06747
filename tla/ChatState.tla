------------------------------ MODULE ChatState ------------------------------
(***************************************************************************)
(* State shared by the modules of the chat server's core: the sockets, one   *)
(* detached thread per accepted connection (main.c, client_handler.c), the   *)
(* users table and the rooms table they all work on (server.h), and two      *)
(* observers that no action reads.                                           *)
(*                                                                           *)
(* A thread is named after the connection it was created for.  It advances   *)
(* by one step per call that touches shared state: one users_table_* or      *)
(* room_table_* operation (each runs under its table's mutex) or one         *)
(* server_send.  Whatever lies between two such calls belongs to the earlier.*)
(***************************************************************************)
EXTENDS Naturals, FiniteSets, Sequences, UsersTable

CONSTANTS
  Conns,       \* connections clients may open; each gets a thread
  MaxFd,       \* client descriptors are 1..MaxFd
  Names,       \* user names clients type
  Rooms,       \* room names clients type
  Blank,       \* the empty string, refused by user_init and room_init
  Clip8,       \* strndup(username, 8) as a function on Names
  Clip16,      \* strndup(roomname, 16) as a function on Rooms
  Texts,       \* texts clients write
  Oversized,   \* texts that no longer fit a JSON line once the sender is added,
               \* names and rooms that no longer fit the reply that echoes them
  Menu,        \* Menu[c][i]: what c may send as its i-th request
  Calm,        \* the steps a client takes only when the server rests
  Vanishing,   \* clients whose process or network may go away at any time
  Reading,     \* clients that go on reading what is sent to them
  Reuse,       \* whether a closed descriptor number may be handed out again
               \* while the process still remembers whom it stood for
  None

Status == {"ACTIVE", "AWAY", "BUSY"}
Fds == 1..MaxFd

RoomRequests == {"INVITE", "JOIN_ROOM", "ROOM_USERS", "ROOM_TEXT", "LEAVE_ROOM"}
Texting == {"TEXT", "PUBLIC_TEXT", "ROOM_TEXT"}

(* A line from a client after message_from_json, with the fields its type
   uses.  BAD_JSON stands for a line that function refuses, TOO_LONG for one
   that overflows the Message_Buffer, UNKNOWN for a type parse_message_type
   does not know, SERVER_SIDE for a known type that only the server sends.  *)
Request ==
  [type : {"BAD_JSON", "TOO_LONG", "UNKNOWN", "SERVER_SIDE", "DISCONNECT", "USERS"}]
    \cup [type : {"IDENTIFY"}, username : Names]
    \cup [type : {"STATUS"}, status : Status \cup {"INVALID"}]
    \cup [type : {"TEXT"}, username : Names, text : Texts]
    \cup [type : {"PUBLIC_TEXT"}, text : Texts]
    \cup [type : {"NEW_ROOM", "JOIN_ROOM", "ROOM_USERS", "LEAVE_ROOM"}, roomname : Rooms]
    \cup [type : {"ROOM_TEXT"}, roomname : Rooms, text : Texts]
    \cup [type : {"INVITE"}, roomname : Rooms, usernames : Seq(Names)]

ASSUME ChatAssumption ==
  /\ MaxFd \in Nat /\ MaxFd >= Cardinality(Conns)
  /\ Clip8 \in [Names -> Names] /\ Clip16 \in [Rooms -> Rooms]
  /\ \A n \in Names : Clip8[Clip8[n]] = Clip8[n]
  /\ \A r \in Rooms : Clip16[Clip16[r]] = Clip16[r]
  /\ Oversized \subseteq Texts \cup Names \cup Rooms
  /\ \A n \in Names : Clip8[n] \notin Oversized
  /\ \A r \in Rooms : Clip16[r] \notin Oversized
  /\ Vanishing \subseteq Conns /\ Reading \subseteq Conns
  /\ Menu \in [Conns -> Seq(SUBSET Request)] /\ Calm \in [Conns -> SUBSET Nat]
  /\ Reuse \in BOOLEAN
  /\ IsFiniteSet(Names) /\ None \notin Conns

VARIABLES
  peer,      \* the other end of a connection: "away", "here" or "gone"
  sent,      \* how many requests of its Menu a client has sent
  wire,      \* requests of a connection that no recv has returned yet
  fdt,       \* the process's descriptor table: the connection behind a number
  pc,        \* where a thread is
  fdOf,      \* a thread's client_fd
  bound,     \* the connection whose socket a blocked recv waits on
  buf,       \* the lines of a thread's Message_Buffer still to be extracted
  loc,       \* a thread's local variables
  users,     \* server->users
  rooms,     \* server->rooms: the rooms that exist, with their two tables
  roomsLock, \* the thread that keeps the mutex of server->rooms, or None
  self,      \* observer: the name a connection's own IDENTIFY registered
  seen       \* observer: the last notification a client got about a name

sockVars == << peer, sent, wire, fdt >>
tabVars == << users, rooms, roomsLock >>
obsVars == << self, seen >>
vars == << sockVars, pc, fdOf, bound, buf, loc, tabVars, obsVars >>

(* The locals of message_handler.c that outlive a call: the line being served
   and the connection it came from, the Users copied out of the tables, the
   size and the failures of a broadcast, the descriptor to disconnect.      *)
Fresh == [req |-> None, from |-> None, me |-> None, to |-> None,
          todo |-> << >>, invited |-> << >>, isIn |-> FALSE, list |-> {},
          reply |-> None, note |-> None, mx |-> 0, failed |-> {},
          dfd |-> 0, gone |-> None, victim |-> None]

Init ==
  /\ peer = [c \in Conns |-> "away"]
  /\ sent = [c \in Conns |-> 0]
  /\ wire = [c \in Conns |-> << >>]
  /\ fdt = [f \in Fds |-> None]
  /\ pc = [c \in Conns |-> "off"]
  /\ fdOf = [c \in Conns |-> 0]
  /\ bound = [c \in Conns |-> None]
  /\ buf = [c \in Conns |-> << >>]
  /\ loc = [c \in Conns |-> Fresh]
  /\ users = EmptyTable
  /\ rooms = << >>
  /\ roomsLock = None
  /\ self = [c \in Conns |-> None]
  /\ seen = [c \in Conns |-> [n \in Names |-> "unheard"]]

-----------------------------------------------------------------------------
\* Steps of a thread.

Req(c) == loc[c].req

Goto(c, p) == pc' = [pc EXCEPT ![c] = p]

\* The end of message_handler_process: back to the extraction loop.
Done(c) == Goto(c, "next") /\ loc' = [loc EXCEPT ![c] = Fresh]

\* A handler goes on to send a RESPONSE (or a list) to its own client ...
Reply(c, result) ==
  Goto(c, "reply") /\ loc' = [loc EXCEPT ![c].reply = result]

\* ... or to tell everyone else about it (notify_all_but_self) ...
Broadcast(c, note) ==
  Goto(c, "notify_size") /\ loc' = [loc EXCEPT ![c].note = note]

\* ... or to process_disconnect(server, fd).
Disconnect(c, fd) ==
  Goto(c, "dc_find") /\ loc' = [loc EXCEPT ![c].dfd = fd]

\* Frame conditions.
OnlyThread == UNCHANGED << sockVars, fdOf, bound, buf, tabVars, obsVars >>
OnlyThreadAndTables == UNCHANGED << sockVars, fdOf, bound, buf, roomsLock, obsVars >>
OnlyThreadAndSeen == UNCHANGED << sockVars, fdOf, bound, buf, tabVars, self >>

(* What server_send can return for a line sent to a descriptor: it fails when
   the JSON does not fit SERVER_BUFFER_SIZE or the descriptor is closed; to a
   peer that is gone it fails or not, depending on whether the reset has
   arrived.  To a peer that does not read it may not return at all: a step
   that sends is then never taken, see Waits of ChatServer.                 *)
SendResults(fd, big) ==
  IF big \/ fdt[fd] = None THEN {FALSE}
  ELSE IF peer[fdt[fd]] = "gone" THEN {TRUE, FALSE}
  ELSE {TRUE}

IsBig(req) == req.type \in Texting /\ req.text \in Oversized

(* users_table_for_each(send_if_is_not_self): the sets of users for whom the
   send can fail, out of those whose descriptor is not skip.                *)
FailingSets(t, skip, big) ==
  LET others == {u \in UsersOf(t) : u.fd # skip}
      must   == {u \in others : SendResults(u.fd, big) = {FALSE}}
      may    == {u \in others : FALSE \in SendResults(u.fd, big)}
  IN {must \cup F : F \in SUBSET (may \ must)}

-----------------------------------------------------------------------------
\* Room_Table: operations on the rooms, which wait for the table's mutex.

RoomExists(r) == r \in DOMAIN rooms

\* room_table_add
AddRoom(r) ==
  rooms' = [q \in DOMAIN rooms \cup {r} |->
              IF q = r THEN [members |-> EmptyTable, guests |-> EmptyTable] ELSE rooms[q]]

\* room_table_remove
DropRoom(r) == rooms' = [q \in DOMAIN rooms \ {r} |-> rooms[q]]

\* room_table_with(rooms, r, action), where the action makes room r what changed
\* says; nothing happens when r does not exist.
WithRoom(r, changed) == rooms' = IF RoomExists(r) THEN [rooms EXCEPT ![r] = changed] ELSE rooms

\* Mistakes: the guests are forgotten.
RemoveFromMembersOnly(n) ==
  rooms' = [r \in DOMAIN rooms |-> [members |-> RemoveUser(rooms[r].members, n),
                                    guests  |-> rooms[r].guests]]

UpdateStatusOfMembersOnly(fd, status) ==
  rooms' = [r \in DOMAIN rooms |->
              [members |-> ChangeStatusByFd(rooms[r].members, fd, status),
               guests  |-> rooms[r].guests]]

\* room_remove_data and room_update_status, for each room
RemoveFromRooms(n) ==
  rooms' = [r \in DOMAIN rooms |->
              [members |-> RemoveUser(rooms[r].members, n),
               guests  |-> RemoveUser(rooms[r].guests, n)]]

UpdateStatusInRooms(fd, status) ==
  rooms' = [r \in DOMAIN rooms |->
              [members |-> ChangeStatusByFd(rooms[r].members, fd, status),
               guests  |-> ChangeStatusByFd(rooms[r].guests, fd, status)]]

\* room_is_a_member and room_is_a_guest, FALSE for a room that does not exist
IsMember(r, fd) == RoomExists(r) /\ ContainsFd(rooms[r].members, fd)
IsGuest(r, fd) == RoomExists(r) /\ ContainsFd(rooms[r].guests, fd)

-----------------------------------------------------------------------------
\* Where a thread waits for its client rather than for the server.
Resting(c) == pc[c] \in {"off", "blocked", "end"}

\* No thread has anything to do until a client acts.
Quiet ==
  \A c \in Conns :
    \/ pc[c] \in {"off", "end"}
    \/ pc[c] = "blocked" /\ wire[bound[c]] = << >> /\ peer[bound[c]] = "here"
=============================================================================
