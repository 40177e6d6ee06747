--------------------------- MODULE ChatConnections ---------------------------
(***************************************************************************)
(* The life of a connection: accept (main.c), the receive loop of            *)
(* handle_client (client_handler.c), the dispatch of a message, the three    *)
(* ways a handler talks to clients (a reply, a broadcast, a disconnection),  *)
(* and the clients themselves.                                               *)
(***************************************************************************)
EXTENDS ChatState

-----------------------------------------------------------------------------
\* Clients and the network.

\* A calm step of a client, 0 for connecting and i for its i-th request, waits
\* for the server to rest.
CalmAllows(c, i) == i \in Calm[c] => Quiet

\* The users a thread has copied out of the tables.
Copies(l) ==
  ({l.me, l.to, l.gone, l.victim} \ {None}) \cup l.failed
    \cup {l.invited[i] : i \in DOMAIN l.invited}

\* A number still stands for somebody in a running thread or in a table.
Remembered(f) ==
  \/ \E d \in Conns : \/ fdOf[d] = f /\ pc[d] # "end"
                      \/ loc[d].dfd = f
                      \/ \E u \in Copies(loc[d]) : u.fd = f
  \/ \E u \in UsersOf(users) : u.fd = f
  \/ \E r \in DOMAIN rooms :
       \E u \in UsersOf(rooms[r].members) \cup UsersOf(rooms[r].guests) : u.fd = f

(* The accept loop hands the lowest free number to the new connection and
   starts its thread; a thread that has ended has no client_fd any more.  With
   Reuse = FALSE only the executions are explored in which the process has
   forgotten the number's former use by then.                               *)
Accept(c) ==
  /\ peer[c] = "away" /\ CalmAllows(c, 0)
  /\ \E f \in Fds :
       /\ fdt[f] = None
       /\ \A g \in Fds : g < f => fdt[g] # None
       /\ Reuse \/ ~Remembered(f)
       /\ fdt' = [fdt EXCEPT ![f] = c]
       /\ fdOf' = [d \in Conns |-> IF d = c THEN f
                                  ELSE IF fdOf[d] = f /\ pc[d] = "end" THEN 0
                                  ELSE fdOf[d]]
  /\ peer' = [peer EXCEPT ![c] = "here"]
  /\ Goto(c, "next")
  /\ UNCHANGED << sent, wire, bound, buf, loc, tabVars, obsVars >>

\* The client writes its next request; after DISCONNECT it is about to close.
Submit(c) ==
  /\ peer[c] = "here" /\ sent[c] < Len(Menu[c]) /\ CalmAllows(c, sent[c] + 1)
  /\ \E req \in Menu[c][sent[c] + 1] :
       /\ wire' = [wire EXCEPT ![c] = Append(@, req)]
       /\ peer' = [peer EXCEPT ![c] = IF req.type = "DISCONNECT" THEN "leaving" ELSE "here"]
  /\ sent' = [sent EXCEPT ![c] = @ + 1]
  /\ UNCHANGED << fdt, pc, fdOf, bound, buf, loc, tabVars, obsVars >>

\* The client closes its socket, crashes, or loses the network.
Vanish(c) ==
  /\ peer[c] = "leaving" \/ (peer[c] = "here" /\ c \in Vanishing)
  /\ peer' = [peer EXCEPT ![c] = "gone"]
  /\ UNCHANGED << sent, wire, fdt, pc, fdOf, bound, buf, loc, tabVars, obsVars >>

-----------------------------------------------------------------------------
\* handle_client.

(* recv resolves its descriptor when it is called: a socket closed while recv
   waits stays alive until recv returns, and a number closed before the call
   and handed out again is somebody else's socket.                          *)
RecvCall(c) ==
  /\ pc[c] = "next" /\ buf[c] = << >>
  /\ bound' = [bound EXCEPT ![c] = fdt[fdOf[c]]]
  /\ Goto(c, IF fdt[fdOf[c]] = None THEN "end" ELSE "blocked")
  /\ UNCHANGED << sockVars, fdOf, buf, loc, tabVars, obsVars >>

\* A prefix of what the client has sent arrives and is cut into lines.
RecvReturns(c) ==
  LET d == bound[c] IN
  /\ pc[c] = "blocked" /\ wire[d] # << >>
  /\ \E k \in 1..Len(wire[d]) :
       /\ \A i \in 1..k : wire[d][i].type # "TOO_LONG"
       /\ buf' = [buf EXCEPT ![c] = [i \in 1..k |-> [req |-> wire[d][i], from |-> d]]]
       /\ wire' = [wire EXCEPT ![d] = SubSeq(@, k + 1, Len(@))]
  /\ bound' = [bound EXCEPT ![c] = None]
  /\ Goto(c, "next")
  /\ UNCHANGED << peer, sent, fdt, fdOf, loc, tabVars, obsVars >>

(* The loop breaks, leaving the socket open and the user in its tables: recv
   returned 0 or -1, or a line overflowed the Message_Buffer.  What an
   orderly client sent before it closed arrives first; what was under way
   from a client that vanished may be lost.                                 *)
RecvEnds(c) ==
  LET d == bound[c] IN
  /\ pc[c] = "blocked"
  /\ \/ peer[d] = "gone" /\ (wire[d] = << >> \/ d \in Vanishing)
     \/ wire[d] # << >> /\ Head(wire[d]).type = "TOO_LONG"
  /\ bound' = [bound EXCEPT ![c] = None]
  /\ Goto(c, "end")
  /\ UNCHANGED << sockVars, fdOf, buf, loc, tabVars, obsVars >>

(* message_buffer_extract, message_from_json and the switch on the type up to
   the first shared access.                                                 *)
Entry(req) ==
  CASE req.type = "BAD_JSON" -> "reply"
    [] req.type = "UNKNOWN" -> "next"
    [] req.type = "DISCONNECT" -> "dc_find"
    [] req.type = "IDENTIFY" -> "id_find_fd"
    [] OTHER -> "gate"

Extract(c) ==
  /\ pc[c] = "next" /\ buf[c] # << >>
  /\ LET line == Head(buf[c]) IN
       /\ Goto(c, Entry(line.req))
       /\ loc' = [loc EXCEPT ![c] =
                    IF Entry(line.req) = "next" THEN Fresh
                    ELSE [Fresh EXCEPT !.req = line.req, !.from = line.from, !.dfd = fdOf[c],
                            !.reply = IF Entry(line.req) = "reply" THEN "INVALID" ELSE None]]
  /\ buf' = [buf EXCEPT ![c] = Tail(@)]
  /\ UNCHANGED << sockVars, fdOf, bound, tabVars, obsVars >>

\* The branch of handle_client for a malformed line, after its INVALID reply:
\* a known client is disconnected as if it had asked, another just closed.
BadJson(c) ==
  /\ pc[c] = "bad_json"
  /\ Goto(c, IF ContainsFd(users, fdOf[c]) THEN "dc_find" ELSE "dc_close")
  /\ OnlyThread /\ UNCHANGED loc

\* A mistake: a status is taken as it comes.
HandlerOfAnyStatus(req) ==
  CASE req.type = "STATUS" -> "st_find"
    [] req.type = "USERS" -> "us_list"
    [] req.type = "NEW_ROOM" -> "nr_contains"
    [] req.type \in RoomRequests -> "rm_contains"
    [] OTHER -> "next"

(* Where the handler of an admitted request starts; a status that
   user_status_from_string refuses, an invitation without guests, and a type
   the switch does not name are settled without a shared access.            *)
HandlerOf(req) ==
  CASE req.type = "STATUS" -> IF req.status \in Status THEN "st_find" ELSE "reply"
    [] req.type = "USERS" -> "us_list"
    [] req.type = "TEXT" -> "tx_find_to"
    [] req.type = "PUBLIC_TEXT" -> "pt_find"
    [] req.type = "NEW_ROOM" -> "nr_contains"
    [] req.type = "INVITE" -> IF req.usernames = << >> THEN "next" ELSE "rm_contains"
    [] req.type \in RoomRequests -> "rm_contains"
    [] OTHER -> "next"

\* message_handler_process: everything but DISCONNECT and IDENTIFY needs an
\* identified sender.
GateOpens(c) ==
  /\ pc[c] = "gate" /\ ContainsFd(users, fdOf[c])
  /\ CASE HandlerOf(Req(c)) = "next" -> Done(c)
       [] HandlerOf(Req(c)) = "reply" -> Reply(c, "INVALID")
       [] OTHER -> Goto(c, HandlerOf(Req(c))) /\ UNCHANGED loc
  /\ OnlyThread

GateCloses(c) ==
  /\ pc[c] = "gate" /\ ~ContainsFd(users, fdOf[c])
  /\ Reply(c, "NOT_IDENTIFIED")
  /\ OnlyThread

-----------------------------------------------------------------------------
\* server_send to the client being served, and what each handler does next.

\* After these the client is disconnected whether the send succeeded or not.
Fatal == {"INVALID", "NOT_IDENTIFIED", "USER_ALREADY_EXISTS"}

(* A reply that echoes a name or a room of the request may not fit its line:
   message_to_json refuses it and nothing is sent.  What IDENTIFY and NEW_ROOM
   echo is cut, and fits.                                                   *)
Echo(c) ==
  CASE Req(c).type = "TEXT" -> {Req(c).username}
    [] Req(c).type \in RoomRequests ->
         {IF loc[c].reply = "NO_SUCH_USER" THEN Head(loc[c].todo) ELSE Req(c).roomname}
    [] OTHER -> {}

ReplyIsBig(c) == Echo(c) \cap Oversized # {}

\* A mistake: whoever owns the name is disconnected, not who asked for it.
ReplyFatalToOwner(c) ==
  /\ pc[c] = "reply" /\ loc[c].reply \in Fatal
  /\ Disconnect(c, IF loc[c].reply = "USER_ALREADY_EXISTS"
                      /\ ContainsName(users, Req(c).username)
                   THEN FindByName(users, Req(c).username).fd ELSE fdOf[c])
  /\ OnlyThread

ReplyFatal(c) ==
  /\ pc[c] = "reply" /\ loc[c].reply \in Fatal
  /\ IF Req(c).type = "BAD_JSON" THEN Goto(c, "bad_json") /\ UNCHANGED loc
     ELSE Disconnect(c, fdOf[c])
  /\ OnlyThread

\* A mistake: nobody looks at what server_send returned.
ReplyFailsIgnored(c) ==
  /\ pc[c] = "reply" /\ loc[c].reply \notin Fatal
  /\ FALSE \in SendResults(fdOf[c], ReplyIsBig(c))
  /\ Done(c)
  /\ OnlyThread

ReplyFails(c) ==
  /\ pc[c] = "reply" /\ loc[c].reply \notin Fatal
  /\ FALSE \in SendResults(fdOf[c], ReplyIsBig(c))
  /\ Disconnect(c, fdOf[c])
  /\ OnlyThread

\* A mistake: a new user is not announced.
ReplySentUnannounced(c) ==
  /\ pc[c] = "reply" /\ loc[c].reply \notin Fatal
  /\ TRUE \in SendResults(fdOf[c], ReplyIsBig(c))
  /\ Done(c)
  /\ OnlyThread

ReplySent(c) ==
  /\ pc[c] = "reply" /\ loc[c].reply \notin Fatal
  /\ TRUE \in SendResults(fdOf[c], ReplyIsBig(c))
  /\ CASE Req(c).type = "IDENTIFY" ->
            Broadcast(c, [type |-> "NEW_USER", name |-> Clip8[Req(c).username],
                          status |-> "ACTIVE"])
       [] Req(c).type = "JOIN_ROOM" /\ loc[c].reply = "SUCCESS" ->
            Goto(c, "room_notify") /\ UNCHANGED loc
       [] OTHER -> Done(c)
  /\ OnlyThread

-----------------------------------------------------------------------------
\* notify_all_but_self over server->users.

\* The descriptor the broadcast leaves out: its client_fd parameter.
Skipped(c) == IF loc[c].note.type = "DISCONNECTED" THEN loc[c].dfd ELSE fdOf[c]

\* g_hash_table_size without the mutex: the size of fds_to_disconnect, which
\* has one more slot as a guard.
NotifySize(c) ==
  /\ pc[c] = "notify_size"
  /\ Goto(c, "notify_each")
  /\ loc' = [loc EXCEPT ![c].mx = Cardinality(Usernames(users))]
  /\ OnlyThread

(* The sends, under the mutex of the users table.  With more failures than
   the size read before, the guard is overwritten and the array overrun: the
   C program has no defined behaviour from there on.                        *)
NotifyEach(c) ==
  LET note   == loc[c].note
      others == {u \in UsersOf(users) : u.fd # Skipped(c)}
  IN
  /\ pc[c] = "notify_each"
  /\ \E F \in FailingSets(users, Skipped(c),
                          note.type = "PUBLIC_TEXT_FROM" /\ IsBig(Req(c))) :
       LET reached == {fdt[u.fd] : u \in others \ F} IN
       /\ Goto(c, IF Cardinality(F) > loc[c].mx THEN "overrun" ELSE "evict")
       /\ loc' = [loc EXCEPT ![c].failed = F]
       /\ seen' = [d \in Conns |->
                     IF d \in reached /\ note.type # "PUBLIC_TEXT_FROM"
                     THEN [seen[d] EXCEPT ![note.name] = note.status] ELSE seen[d]]
  /\ OnlyThreadAndSeen

\* A mistake: the loop does not move on past a user who is gone already.
EvictNextAgain(c) ==
  /\ pc[c] = "evict"
  /\ \E u \in loc[c].failed :
       IF ContainsFd(users, u.fd)
       THEN /\ Goto(c, "evict_rooms")
            /\ loc' = [loc EXCEPT ![c].victim = FindByFd(users, u.fd)]
       ELSE UNCHANGED << pc, loc >>
  /\ OnlyThread

\* The loop over fds_to_disconnect: a user still found under a descriptor
\* whose send failed goes out of every room, then out of the users table.
EvictNext(c) ==
  /\ pc[c] = "evict"
  /\ \E u \in loc[c].failed :
       IF ContainsFd(users, u.fd)
       THEN /\ Goto(c, "evict_rooms")
            /\ loc' = [loc EXCEPT ![c].failed = @ \ {u},
                                  ![c].victim = FindByFd(users, u.fd)]
       ELSE /\ loc' = [loc EXCEPT ![c].failed = @ \ {u}]
            /\ UNCHANGED pc
  /\ OnlyThread

EvictFromRooms(c) ==
  /\ pc[c] = "evict_rooms" /\ roomsLock = None
  /\ RemoveFromRooms(loc[c].victim.name)
  /\ Goto(c, "evict_user")
  /\ OnlyThreadAndTables /\ UNCHANGED << loc, users >>

EvictFromUsers(c) ==
  /\ pc[c] = "evict_user"
  /\ users' = RemoveUser(users, loc[c].victim.name)
  /\ Goto(c, "evict") /\ loc' = [loc EXCEPT ![c].victim = None]
  /\ OnlyThreadAndTables /\ UNCHANGED rooms

EvictDone(c) ==
  /\ pc[c] = "evict" /\ loc[c].failed = {}
  /\ IF loc[c].note.type = "DISCONNECTED" THEN Goto(c, "dc_rooms") /\ UNCHANGED loc
     ELSE Done(c)
  /\ OnlyThread

-----------------------------------------------------------------------------
\* process_disconnect(server, dfd).

\* A mistake: the user is removed, once and for all, before anybody is told that
\* it left.
DisconnectFindRemoving(c) ==
  /\ pc[c] = "dc_find"
  /\ IF ContainsFd(users, loc[c].dfd)
     THEN LET u == FindByFd(users, loc[c].dfd) IN
          /\ users' = RemoveUser(users, u.name)
          /\ Goto(c, "notify_size")
          /\ loc' = [loc EXCEPT ![c].gone = [u EXCEPT !.name = Blank],
                                ![c].note = [type |-> "DISCONNECTED", name |-> u.name,
                                             status |-> "out"]]
     ELSE Goto(c, "dc_close") /\ UNCHANGED << users, loc >>
  /\ OnlyThreadAndTables /\ UNCHANGED rooms

DisconnectFind(c) ==
  /\ pc[c] = "dc_find"
  /\ IF ContainsFd(users, loc[c].dfd)
     THEN LET u == FindByFd(users, loc[c].dfd) IN
          /\ Goto(c, "notify_size")
          /\ loc' = [loc EXCEPT ![c].gone = u,
                                ![c].note = [type |-> "DISCONNECTED", name |-> u.name,
                                             status |-> "out"]]
     ELSE Goto(c, "dc_close") /\ UNCHANGED loc
  /\ OnlyThread

DisconnectFromRooms(c) ==
  /\ pc[c] = "dc_rooms" /\ roomsLock = None
  /\ RemoveFromRooms(loc[c].gone.name)
  /\ Goto(c, "dc_users")
  /\ OnlyThreadAndTables /\ UNCHANGED << loc, users >>

DisconnectFromUsers(c) ==
  /\ pc[c] = "dc_users"
  /\ users' = RemoveUser(users, loc[c].gone.name)
  /\ Goto(c, "dc_close")
  /\ OnlyThreadAndTables /\ UNCHANGED << loc, rooms >>

(* server_disconnect_client closes whatever the number stands for by now.
   Only the malformed-line branch ends the thread; every other caller goes
   back to the extraction loop.                                             *)
DisconnectClose(c) ==
  /\ pc[c] = "dc_close"
  /\ fdt' = [fdt EXCEPT ![loc[c].dfd] = None]
  /\ Goto(c, IF Req(c).type = "BAD_JSON" THEN "end" ELSE "next")
  /\ loc' = [loc EXCEPT ![c] = Fresh]
  /\ UNCHANGED << peer, sent, wire, fdOf, bound, buf, tabVars, obsVars >>
=============================================================================
