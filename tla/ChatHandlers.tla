---------------------------- MODULE ChatHandlers ----------------------------
(***************************************************************************)
(* The handlers of message_handler.c that involve the users table only:      *)
(* IDENTIFY, STATUS, USERS, TEXT and PUBLIC_TEXT.                            *)
(***************************************************************************)
EXTENDS ChatConnections

-----------------------------------------------------------------------------
\* process_identify; the name is the one typed, cut to 8 bytes.

Wanted(c) == Clip8[Req(c).username]

\* A mistake: a client may identify a second time.
IdentifyFindFdUnchecked(c) ==
  /\ pc[c] = "id_find_fd"
  /\ Goto(c, "id_find_name")
  /\ OnlyThread /\ UNCHANGED loc

\* A client that is already somebody: a repeated IDENTIFY is ignored, another
\* name is a protocol error.
IdentifyFindFd(c) ==
  /\ pc[c] = "id_find_fd"
  /\ IF ~ContainsFd(users, fdOf[c]) THEN Goto(c, "id_find_name") /\ UNCHANGED loc
     ELSE IF FindByFd(users, fdOf[c]).name = Wanted(c) THEN Done(c)
     ELSE Reply(c, "INVALID")
  /\ OnlyThread

IdentifyFindName(c) ==
  /\ pc[c] = "id_find_name"
  /\ IF ~ContainsName(users, Wanted(c)) THEN Goto(c, "id_add") /\ UNCHANGED loc
     ELSE IF FindByName(users, Wanted(c)).fd = fdOf[c] THEN Done(c)
     ELSE Reply(c, "USER_ALREADY_EXISTS")
  /\ OnlyThread

\* users_table_add; an empty name, or one taken since the lookup, ends the
\* handler without an answer.
IdentifyAdd(c) ==
  /\ pc[c] = "id_add"
  /\ IF Wanted(c) = Blank \/ ContainsName(users, Wanted(c))
     THEN Done(c) /\ UNCHANGED << users, self >>
     ELSE /\ users' = AddUser(users, Wanted(c), fdOf[c], "ACTIVE")
          /\ self' = [self EXCEPT ![loc[c].from] = Wanted(c)]
          /\ Reply(c, "SUCCESS")
  /\ UNCHANGED << sockVars, fdOf, bound, buf, rooms, roomsLock, seen >>

-----------------------------------------------------------------------------
\* process_status.

\* A mistake: the user is looked for and not copied.
StatusFindWithoutCopy(c) ==
  /\ pc[c] = "st_find"
  /\ IF ContainsFd(users, fdOf[c]) THEN Goto(c, "st_change") /\ UNCHANGED loc ELSE Done(c)
  /\ OnlyThread

StatusFind(c) ==
  /\ pc[c] = "st_find"
  /\ IF ContainsFd(users, fdOf[c])
        /\ FindByFd(users, fdOf[c]).status # Req(c).status
     THEN Goto(c, "st_change")
          /\ loc' = [loc EXCEPT ![c].me = FindByFd(users, fdOf[c])]
     ELSE Done(c)
  /\ OnlyThread

\* A mistake: the status is announced and not changed.
StatusChangeForgotten(c) ==
  /\ pc[c] = "st_change" /\ Goto(c, "st_rooms")
  /\ OnlyThread /\ UNCHANGED loc

StatusChange(c) ==
  /\ pc[c] = "st_change"
  /\ users' = ChangeStatusByFd(users, fdOf[c], Req(c).status)
  /\ Goto(c, "st_rooms")
  /\ OnlyThreadAndTables /\ UNCHANGED << loc, rooms >>

StatusChangeInRooms(c) ==
  /\ pc[c] = "st_rooms" /\ roomsLock = None
  /\ UpdateStatusInRooms(loc[c].me.fd, Req(c).status)
  /\ Broadcast(c, [type |-> "NEW_STATUS", name |-> loc[c].me.name,
                   status |-> Req(c).status])
  /\ OnlyThreadAndTables /\ UNCHANGED users

-----------------------------------------------------------------------------
\* process_users: the list is read under the mutex and sent without it.

UsersList(c) ==
  /\ pc[c] = "us_list"
  /\ Goto(c, "reply")
  /\ loc' = [loc EXCEPT ![c].reply = "USER_LIST",
                        ![c].list = {<< u.name, u.status >> : u \in UsersOf(users)}]
  /\ OnlyThread

-----------------------------------------------------------------------------
\* process_text.  The addressee's descriptor is copied out of the table first
\* and written to last.

TextFindAddressee(c) ==
  /\ pc[c] = "tx_find_to"
  /\ IF ContainsName(users, Req(c).username)
     THEN Goto(c, "tx_compare")
          /\ loc' = [loc EXCEPT ![c].to = FindByName(users, Req(c).username)]
     ELSE Reply(c, "NO_SUCH_USER")
  /\ OnlyThread

\* A text to oneself is dropped.
TextCompare(c) ==
  /\ pc[c] = "tx_compare"
  /\ IF ContainsFd(users, fdOf[c])
        /\ FindByFd(users, fdOf[c]).name = loc[c].to.name
     THEN Done(c)
     ELSE Goto(c, "tx_find_from") /\ UNCHANGED loc
  /\ OnlyThread

\* A mistake: the addressee is taken for the sender.
TextFindSenderSwapped(c) ==
  /\ pc[c] = "tx_find_from"
  /\ IF ContainsFd(users, fdOf[c])
     THEN Goto(c, "tx_send")
          /\ loc' = [loc EXCEPT ![c].me = loc[c].to]
     ELSE Done(c)
  /\ OnlyThread

TextFindSender(c) ==
  /\ pc[c] = "tx_find_from"
  /\ IF ContainsFd(users, fdOf[c])
     THEN Goto(c, "tx_send")
          /\ loc' = [loc EXCEPT ![c].me = FindByFd(users, fdOf[c])]
     ELSE Done(c)
  /\ OnlyThread

\* When the send to the addressee fails it is the sender that is disconnected.
TextSend(c) ==
  /\ pc[c] = "tx_send"
  /\ \E delivered \in SendResults(loc[c].to.fd, IsBig(Req(c))) :
       IF delivered THEN Done(c) ELSE Disconnect(c, fdOf[c])
  /\ OnlyThread

-----------------------------------------------------------------------------
\* process_public_text.

PublicTextFindSender(c) ==
  /\ pc[c] = "pt_find"
  /\ IF ContainsFd(users, fdOf[c])
     THEN LET u == FindByFd(users, fdOf[c]) IN
          /\ Goto(c, "notify_size")
          /\ loc' = [loc EXCEPT ![c].me = u,
                                ![c].note = [type |-> "PUBLIC_TEXT_FROM",
                                             name |-> u.name, status |-> "unheard"]]
     ELSE Done(c)
  /\ OnlyThread
=============================================================================
