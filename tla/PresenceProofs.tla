--------------------------- MODULE PresenceProofs ---------------------------
(***************************************************************************)
(* Who is in the chat, for any number of clients that come, go and vanish in *)
(* any interleaving, as long as only forgotten descriptor numbers are handed *)
(* out again: no running thread and no table stands for somebody by them     *)
(* (Remembered in ChatConnections).  What happens otherwise is TLC's.        *)
(*                                                                           *)
(* One client has one name: the three critical sections of IDENTIFY are      *)
(* enough.  So the server implements Lobby: every step of every thread is,   *)
(* for the users table, a client that comes in, changes its status or        *)
(* leaves, or nothing.  Once the server rests, of two clients one was told   *)
(* of the other; if nobody invites, nobody is left in the users table after  *)
(* its descriptor is closed; and if moreover no broadcast evicts anybody,    *)
(* what clients were last told of each other is true.                        *)
(***************************************************************************)
EXTENDS ChatServerProofs

\* A thread between its lookup by descriptor and its add.
Registering == {"id_find_name", "id_add"}

\* No two threads have the same client_fd.
OwnDescriptors ==
  \A c, d \in Conns : c # d /\ fdOf[c] = fdOf[d] => fdOf[c] = 0

\* Nobody else can have registered that thread's descriptor meanwhile.
Unregistered ==
  \A c \in Conns : pc[c] \in Registering => ~ContainsFd(users, fdOf[c])

(* The inductive invariant: an add keeps the two directions of the table in
   agreement if its descriptor is not indexed (Unregistered), which an add by
   another thread respects if their descriptors differ (OwnDescriptors).    *)
Registration == OneNamePerClient /\ OwnDescriptors /\ Unregistered

-----------------------------------------------------------------------------
\* Steps that register nobody.

\* The step takes no thread to a place between lookup and add.
Elsewhere == \A d \in Conns : pc'[d] \in Registering => pc[d] \in Registering

\* The table only loses descriptors, if anything.
Shrinks == Agrees(users)' /\ \A f : ContainsFd(users, f)' => ContainsFd(users, f)

\* Such a step keeps the invariant.
LEMMA BystanderKeeps ==
  ASSUME Registration, Elsewhere, Shrinks, fdOf' = fdOf
  PROVE  Registration'
  BY DEF Registration, Elsewhere, Shrinks, OneNamePerClient, OwnDescriptors, Unregistered

\* A table that stays as it is loses nothing.
LEMMA SameTableShrinks ==
  ASSUME Registration, users' = users
  PROVE  Shrinks
  BY DEF Registration, OneNamePerClient, Shrinks, Agrees, Coherent, ContainsFd, Usernames

\* No thread but the one that goes to q moves.
LEMMA GoesElsewhere ==
  ASSUME pc \in [Conns -> Places], NEW c \in Conns, NEW q, q \notin Registering, Goto(c, q)
  PROVE  Elsewhere
  BY DEF Goto, Elsewhere

\* What the dispatcher and the extraction loop start is never between a lookup
\* and an add.
LEMMA StartsElsewhere ==
  /\ \A req : HandlerOf(req) \notin Registering
  /\ \A req : Entry(req) \notin Registering
  BY DEF HandlerOf, Entry, Registering

\* No step of the receive loop, a reply, a broadcast or a disconnection registers
\* anybody.
LEMMA ConnectionStepRegistersNobody ==
  ASSUME Registration, IInv, NEW c \in Conns, ConnectionStep(c)
  PROVE  Registration'
<1>1. fdOf' = fdOf
  BY DEF ConnectionStep, RecvCall, RecvReturns, RecvEnds, Extract, BadJson, GateOpens,
       GateCloses, ReplyFatal, ReplyFails, ReplySent, NotifySize, NotifyEach, EvictNext,
       EvictFromRooms, EvictFromUsers, EvictDone, DisconnectFind, DisconnectFromRooms,
       DisconnectFromUsers, DisconnectClose, OnlyThread, OnlyThreadAndTables,
       OnlyThreadAndSeen
<1>2. Elsewhere
  <2>0. pc \in [Conns -> Places]
    BY DEF IInv, TypeOK
  <2> USE DEF Done, Reply, Broadcast, Disconnect, Registering
  <2>1. CASE RecvCall(c)
    BY <2>0, <2>1, GoesElsewhere DEF RecvCall
  <2>2. CASE RecvReturns(c)
    BY <2>0, <2>2, GoesElsewhere DEF RecvReturns
  <2>3. CASE RecvEnds(c)
    BY <2>0, <2>3, GoesElsewhere DEF RecvEnds
  <2>4. CASE Extract(c)
    BY <2>0, <2>4, StartsElsewhere, GoesElsewhere DEF Extract
  <2>5. CASE BadJson(c)
    BY <2>0, <2>5, GoesElsewhere DEF BadJson
  <2>6. CASE GateOpens(c)
    BY <2>0, <2>6, StartsElsewhere, GoesElsewhere DEF GateOpens
  <2>7. CASE GateCloses(c)
    BY <2>0, <2>7, GoesElsewhere DEF GateCloses
  <2>8. CASE ReplyFatal(c)
    BY <2>0, <2>8, GoesElsewhere DEF ReplyFatal
  <2>9. CASE ReplyFails(c)
    BY <2>0, <2>9, GoesElsewhere DEF ReplyFails
  <2>10. CASE ReplySent(c)
    BY <2>0, <2>10, GoesElsewhere DEF ReplySent
  <2>11. CASE NotifySize(c)
    BY <2>0, <2>11, GoesElsewhere DEF NotifySize
  <2>12. CASE NotifyEach(c)
    BY <2>0, <2>12, GoesElsewhere DEF NotifyEach
  <2>13. CASE EvictNext(c)
    BY <2>0, <2>13, GoesElsewhere DEF EvictNext, Elsewhere
  <2>14. CASE EvictFromRooms(c)
    BY <2>0, <2>14, GoesElsewhere DEF EvictFromRooms
  <2>15. CASE EvictFromUsers(c)
    BY <2>0, <2>15, GoesElsewhere DEF EvictFromUsers
  <2>16. CASE EvictDone(c)
    BY <2>0, <2>16, GoesElsewhere DEF EvictDone
  <2>17. CASE DisconnectFind(c)
    BY <2>0, <2>17, GoesElsewhere DEF DisconnectFind
  <2>18. CASE DisconnectFromRooms(c)
    BY <2>0, <2>18, GoesElsewhere DEF DisconnectFromRooms
  <2>19. CASE DisconnectFromUsers(c)
    BY <2>0, <2>19, GoesElsewhere DEF DisconnectFromUsers
  <2>20. CASE DisconnectClose(c)
    BY <2>0, <2>20, GoesElsewhere DEF DisconnectClose
  <2> QED BY <2>1, <2>2, <2>3, <2>4, <2>5, <2>6, <2>7, <2>8, <2>9, <2>10, <2>11, <2>12,
       <2>13, <2>14, <2>15, <2>16, <2>17, <2>18, <2>19, <2>20 DEF ConnectionStep
<1>3. Shrinks
  <2>1. CASE EvictFromUsers(c)
    BY <2>1, RemoveUserAgrees DEF EvictFromUsers, Registration, OneNamePerClient, Shrinks
  <2>2. CASE DisconnectFromUsers(c)
    BY <2>2, RemoveUserAgrees DEF DisconnectFromUsers, Registration, OneNamePerClient, Shrinks
  <2>3. CASE ~(EvictFromUsers(c) \/ DisconnectFromUsers(c))
    <3>1. users' = users
      BY <2>3 DEF ConnectionStep, RecvCall, RecvReturns, RecvEnds, Extract, BadJson,
       GateOpens, GateCloses, ReplyFatal, ReplyFails, ReplySent, NotifySize, NotifyEach,
       EvictNext, EvictFromRooms, EvictDone, DisconnectFind, DisconnectFromRooms,
       DisconnectClose, OnlyThread, OnlyThreadAndTables, OnlyThreadAndSeen, tabVars
    <3> QED BY <3>1, SameTableShrinks
  <2> QED BY <2>1, <2>2, <2>3
<1> QED BY <1>1, <1>2, <1>3, BystanderKeeps

\* No request about a room touches the users table.
LEMMA RoomStepRegistersNobody ==
  ASSUME Registration, IInv, NEW c \in Conns, RoomStep(c)
  PROVE  Registration'
<1>1. fdOf' = fdOf
  BY DEF RoomStep, NewRoomContains, NewRoomAdd, NewRoomFindCreator, NewRoomAddCreator,
       RoomContains, RoomFindSender, RoomMember, InviteResolve, InviteIsMember,
       InviteIsGuest, InviteAdd, InviteSend, JoinIsGuest, JoinMove, RoomUsersList,
       RoomNotify, LeaveRoom, LeaveDropRoom, OnlyThread, OnlyThreadAndTables,
       OnlyThreadAndSeen
<1>2. Elsewhere
  <2>0. pc \in [Conns -> Places]
    BY DEF IInv, TypeOK
  <2> USE DEF Done, Reply, Broadcast, Disconnect, Registering
  <2>1. CASE NewRoomContains(c)
    BY <2>0, <2>1, GoesElsewhere DEF NewRoomContains
  <2>2. CASE NewRoomAdd(c)
    BY <2>0, <2>2, GoesElsewhere DEF NewRoomAdd
  <2>3. CASE NewRoomFindCreator(c)
    BY <2>0, <2>3, GoesElsewhere DEF NewRoomFindCreator
  <2>4. CASE NewRoomAddCreator(c)
    BY <2>0, <2>4, GoesElsewhere DEF NewRoomAddCreator
  <2>5. CASE RoomContains(c)
    BY <2>0, <2>5, GoesElsewhere DEF RoomContains
  <2>6. CASE RoomFindSender(c)
    BY <2>0, <2>6, GoesElsewhere DEF RoomFindSender
  <2>7. CASE RoomMember(c)
    <3>1. Req(c).type \in RoomRequests
      BY <2>7, ThreadFacts, HoldsAt DEF RoomMember, Req, EnteringRoom, Holds
    <3> QED BY <2>7, <3>1, <2>0, GoesElsewhere DEF RoomMember, RoomRequests
  <2>8. CASE InviteResolve(c)
    BY <2>0, <2>8, GoesElsewhere DEF InviteResolve
  <2>9. CASE InviteIsMember(c)
    BY <2>0, <2>9, GoesElsewhere DEF InviteIsMember
  <2>10. CASE InviteIsGuest(c)
    BY <2>0, <2>10, GoesElsewhere DEF InviteIsGuest
  <2>11. CASE InviteAdd(c)
    BY <2>0, <2>11, GoesElsewhere DEF InviteAdd
  <2>12. CASE InviteSend(c)
    BY <2>0, <2>12, GoesElsewhere DEF InviteSend
  <2>13. CASE JoinIsGuest(c)
    BY <2>0, <2>13, GoesElsewhere DEF JoinIsGuest
  <2>14. CASE JoinMove(c)
    BY <2>0, <2>14, GoesElsewhere DEF JoinMove
  <2>15. CASE RoomUsersList(c)
    BY <2>0, <2>15, GoesElsewhere DEF RoomUsersList
  <2>16. CASE RoomNotify(c)
    BY <2>0, <2>16, GoesElsewhere DEF RoomNotify
  <2>17. CASE LeaveRoom(c)
    BY <2>0, <2>17, GoesElsewhere DEF LeaveRoom
  <2>18. CASE LeaveDropRoom(c)
    BY <2>0, <2>18, GoesElsewhere DEF LeaveDropRoom
  <2> QED BY <2>1, <2>2, <2>3, <2>4, <2>5, <2>6, <2>7, <2>8, <2>9, <2>10, <2>11, <2>12,
       <2>13, <2>14, <2>15, <2>16, <2>17, <2>18 DEF RoomStep
<1>3. Shrinks
  <2>1. users' = users
    BY DEF RoomStep, NewRoomContains, NewRoomAdd, NewRoomFindCreator, NewRoomAddCreator,
       RoomContains, RoomFindSender, RoomMember, InviteResolve, InviteIsMember,
       InviteIsGuest, InviteAdd, InviteSend, JoinIsGuest, JoinMove, RoomUsersList,
       RoomNotify, LeaveRoom, LeaveDropRoom, OnlyThread, OnlyThreadAndTables,
       OnlyThreadAndSeen, tabVars
  <2> QED BY <2>1, SameTableShrinks
<1> QED BY <1>1, <1>2, <1>3, BystanderKeeps

\* Nor does any handler but IDENTIFY's register anybody.
LEMMA HandlerStepRegistersNobody ==
  ASSUME Registration, IInv, NEW c \in Conns, HandlerStep(c),
         ~(IdentifyFindFd(c) \/ IdentifyFindName(c) \/ IdentifyAdd(c))
  PROVE  Registration'
<1>1. fdOf' = fdOf
  BY DEF HandlerStep, StatusFind, StatusChange, StatusChangeInRooms, UsersList,
       TextFindAddressee, TextCompare, TextFindSender, TextSend, PublicTextFindSender,
       IdentifyFindFd, IdentifyFindName, IdentifyAdd, OnlyThread, OnlyThreadAndTables,
       OnlyThreadAndSeen
<1>2. Elsewhere
  <2>0. pc \in [Conns -> Places]
    BY DEF IInv, TypeOK
  <2> USE DEF Done, Reply, Broadcast, Disconnect, Registering
  <2>1. CASE StatusFind(c)
    BY <2>0, <2>1, GoesElsewhere DEF StatusFind
  <2>2. CASE StatusChange(c)
    BY <2>0, <2>2, GoesElsewhere DEF StatusChange
  <2>3. CASE StatusChangeInRooms(c)
    BY <2>0, <2>3, GoesElsewhere DEF StatusChangeInRooms
  <2>4. CASE UsersList(c)
    BY <2>0, <2>4, GoesElsewhere DEF UsersList
  <2>5. CASE TextFindAddressee(c)
    BY <2>0, <2>5, GoesElsewhere DEF TextFindAddressee
  <2>6. CASE TextCompare(c)
    BY <2>0, <2>6, GoesElsewhere DEF TextCompare
  <2>7. CASE TextFindSender(c)
    BY <2>0, <2>7, GoesElsewhere DEF TextFindSender
  <2>8. CASE TextSend(c)
    BY <2>0, <2>8, GoesElsewhere DEF TextSend
  <2>9. CASE PublicTextFindSender(c)
    BY <2>0, <2>9, GoesElsewhere DEF PublicTextFindSender
  <2> QED BY <2>1, <2>2, <2>3, <2>4, <2>5, <2>6, <2>7, <2>8, <2>9 DEF HandlerStep
<1>3. Shrinks
  <2>1. CASE StatusChange(c)
    BY <2>1, ChangeStatusAgrees DEF StatusChange, Registration, OneNamePerClient, Shrinks
  <2>2. CASE ~(StatusChange(c))
    <3>1. users' = users
      BY <2>2 DEF HandlerStep, StatusFind, StatusChangeInRooms, UsersList,
       TextFindAddressee, TextCompare, TextFindSender, TextSend, PublicTextFindSender,
       IdentifyFindFd, IdentifyFindName, IdentifyAdd, OnlyThread, OnlyThreadAndTables,
       OnlyThreadAndSeen, tabVars
    <3> QED BY <3>1, SameTableShrinks
  <2> QED BY <2>1, <2>2
<1> QED BY <1>1, <1>2, <1>3, BystanderKeeps

-----------------------------------------------------------------------------
\* IDENTIFY and the clients.

\* A thread goes on past its lookup by descriptor only if it found nobody.
LEMMA FindFdKeeps ==
  ASSUME Registration, IInv, NEW c \in Conns, IdentifyFindFd(c)
  PROVE  Registration'
<1>1. pc \in [Conns -> Places] /\ pc[c] = "id_find_fd" /\ users' = users /\ fdOf' = fdOf
  BY DEF IInv, TypeOK, IdentifyFindFd, OnlyThread, tabVars
<1>2. CASE ContainsFd(users, fdOf[c])
  <2>1. Elsewhere
    BY <1>1, <1>2, GoesElsewhere DEF IdentifyFindFd, Done, Reply, Registering
  <2> QED BY <1>1, <2>1, SameTableShrinks, BystanderKeeps
<1>3. CASE ~ContainsFd(users, fdOf[c])
  <2>1. pc' = [pc EXCEPT ![c] = "id_find_name"]
    BY <1>3 DEF IdentifyFindFd, Goto
  <2>2. Unregistered'
    BY <1>1, <1>3, <2>1 DEF Registration, Unregistered, Registering, ContainsFd
  <2>3. OneNamePerClient' /\ OwnDescriptors'
    BY <1>1, SameTableShrinks DEF Shrinks, OneNamePerClient, Registration, OwnDescriptors
  <2> QED BY <2>2, <2>3 DEF Registration
<1> QED BY <1>2, <1>3

\* Between the two lookups nobody registers its descriptor.
LEMMA FindNameKeeps ==
  ASSUME Registration, IInv, NEW c \in Conns, IdentifyFindName(c)
  PROVE  Registration'
<1>1. pc \in [Conns -> Places] /\ pc[c] \in Registering /\ users' = users /\ fdOf' = fdOf
  BY DEF IInv, TypeOK, IdentifyFindName, OnlyThread, tabVars, Registering
<1>2. Elsewhere
  <2>1. \E q : pc' = [pc EXCEPT ![c] = q]
    BY DEF IdentifyFindName, Done, Reply, Goto
  <2> QED BY <1>1, <2>1 DEF Elsewhere
<1> QED BY <1>1, <1>2, SameTableShrinks, BystanderKeeps

\* users_table_add finds the descriptor free, and no other thread waits to add
\* the same one.
LEMMA AddKeeps ==
  ASSUME Registration, IInv, NEW c \in Conns, IdentifyAdd(c)
  PROVE  Registration'
<1>1. /\ pc \in [Conns -> Places] /\ pc[c] = "id_add" /\ fdOf' = fdOf
      /\ ~ContainsFd(users, fdOf[c])
  BY DEF IInv, TypeOK, IdentifyAdd, Registration, Unregistered, Registering
<1>2. Elsewhere
  BY <1>1, GoesElsewhere DEF IdentifyAdd, Done, Reply, Registering
<1>3. CASE users' = users
  BY <1>1, <1>2, <1>3, SameTableShrinks, BystanderKeeps
<1>4. CASE ~ContainsName(users, Wanted(c)) /\ users' = AddUser(users, Wanted(c), fdOf[c], "ACTIVE")
  <2>1. /\ Agrees(users')
        /\ \A f : ContainsFd(users', f) => f = fdOf[c] \/ ContainsFd(users, f)
    BY <1>1, <1>4, AddUserAgrees DEF Registration, OneNamePerClient
  <2>2. pc'[c] \notin Registering
    BY <1>1 DEF IdentifyAdd, Done, Reply, Goto, Registering
  <2>3. ASSUME NEW d \in Conns, pc'[d] \in Registering
        PROVE  ~ContainsFd(users', fdOf[d])
    <3>1. d # c /\ pc[d] \in Registering
      BY <1>2, <2>2, <2>3 DEF Elsewhere
    <3>2. ~ContainsFd(users, fdOf[d]) /\ fdOf[d] # fdOf[c]
      <4>1. pc[c] \notin {"off", "end"} /\ fdOf[c] \in Fds
        BY <1>1, ThreadFacts
      <4> QED BY <3>1, <4>1, ChatAssumption DEF Registration, Unregistered, OwnDescriptors, Fds
    <3> QED BY <2>1, <3>2
  <2>4. Unregistered'
    BY <1>1, <2>3 DEF Unregistered
  <2>5. OneNamePerClient'
    BY <2>1 DEF OneNamePerClient, Agrees, Coherent, ContainsFd, Usernames
  <2> QED BY <1>1, <2>4, <2>5 DEF Registration, OwnDescriptors
<1> QED BY <1>3, <1>4 DEF IdentifyAdd

\* The number a new connection gets stands for nobody in a running thread or in
\* the users table; an ended thread that had it has none any more.
LEMMA AcceptTakesForgotten ==
  ASSUME ~Reuse, IInv, NEW c \in Conns, Accept(c)
  PROVE  \E f \in Fds :
           /\ fdt[f] = None /\ fdt' = [fdt EXCEPT ![f] = c] /\ fdOf'[c] = f
           /\ \A d \in Conns : d # c => fdOf'[d] # f
           /\ \A d \in Conns : d # c /\ fdOf[d] # f => fdOf'[d] = fdOf[d]
           /\ \A d \in Conns : fdOf[d] = f => pc[d] = "end"
           /\ \A d \in Conns : d # c /\ fdOf[d] = f => fdOf'[d] = 0
           /\ \A n \in Usernames(users) : users.byName[n].fd # f
<1>1. PICK f \in Fds :
        /\ fdt[f] = None /\ fdt' = [fdt EXCEPT ![f] = c] /\ ~Remembered(f)
        /\ fdOf' = [d \in Conns |-> IF d = c THEN f
                                   ELSE IF fdOf[d] = f /\ pc[d] = "end" THEN 0 ELSE fdOf[d]]
  BY DEF Accept
<1>2. \A d \in Conns : fdOf[d] = f => pc[d] = "end"
  BY <1>1 DEF Remembered
<1>3. \A n \in Usernames(users) : users.byName[n].fd # f
  <2>1. ASSUME NEW n \in Usernames(users) PROVE users.byName[n].fd # f
    <3>1. FindByName(users, n) \in UsersOf(users)
      BY DEF UsersOf
    <3>2. FindByName(users, n).fd # f
      BY <1>1, <3>1 DEF Remembered
    <3> QED BY <3>2 DEF FindByName
  <2> QED BY <2>1
<1>4. f # 0
  BY ChatAssumption DEF Fds
<1> QED BY <1>1, <1>2, <1>3, <1>4

\* So it is no other thread's.
LEMMA AcceptKeepsRegistration ==
  ASSUME ~Reuse, Registration, IInv, NEW c \in Conns, Accept(c)
  PROVE  Registration'
<1>1. PICK f \in Fds :
        /\ fdOf'[c] = f /\ \A d \in Conns : d # c => fdOf'[d] # f
        /\ \A d \in Conns : d # c /\ fdOf[d] # f => fdOf'[d] = fdOf[d]
        /\ \A d \in Conns : fdOf[d] = f => pc[d] = "end"
        /\ \A d \in Conns : d # c /\ fdOf[d] = f => fdOf'[d] = 0
  BY AcceptTakesForgotten
<1>2. /\ pc \in [Conns -> Places] /\ pc' = [pc EXCEPT ![c] = "next"] /\ users' = users
  BY DEF IInv, TypeOK, Accept, Goto, tabVars
<1>3. OwnDescriptors'
  BY <1>1 DEF Registration, OwnDescriptors
<1>4. Unregistered'
  <2>1. ASSUME NEW d \in Conns, pc'[d] \in Registering
        PROVE  ~ContainsFd(users', fdOf'[d])
    <3>1. d # c /\ pc[d] \in Registering /\ fdOf'[d] = fdOf[d]
      BY <1>1, <1>2, <2>1 DEF Registering
    <3> QED BY <1>2, <3>1 DEF Registration, Unregistered
  <2> QED BY <2>1 DEF Unregistered
<1>5. OneNamePerClient'
  BY <1>2, SameTableShrinks DEF Shrinks, OneNamePerClient
<1> QED BY <1>3, <1>4, <1>5 DEF Registration

\* Every step keeps the invariant.
LEMMA RegistrationKept ==
  ASSUME ~Reuse, Registration, IInv, [Next]_vars
  PROVE  Registration'
<1>1. ASSUME NEW c \in Conns, ClientStep(c) PROVE Registration'
  <2>1. CASE Accept(c)
    BY <2>1, AcceptKeepsRegistration
  <2>2. CASE Submit(c) \/ Vanish(c)
    <3>1. pc' = pc /\ users' = users /\ fdOf' = fdOf
      BY <2>2 DEF Submit, Vanish, tabVars
    <3> QED BY <3>1, SameTableShrinks, BystanderKeeps DEF Elsewhere
  <2> QED BY <1>1, <2>1, <2>2 DEF ClientStep
<1>2. ASSUME NEW c \in Conns, Thread(c) PROVE Registration'
  BY <1>2, ConnectionStepRegistersNobody, RoomStepRegistersNobody,
     HandlerStepRegistersNobody, FindFdKeeps, FindNameKeeps, AddKeeps DEF Thread
<1>3. CASE UNCHANGED vars
  <2>1. pc' = pc /\ users' = users /\ fdOf' = fdOf
    BY <1>3 DEF vars, tabVars
  <2> QED BY <2>1, SameTableShrinks, BystanderKeeps DEF Elsewhere
<1> QED BY <1>1, <1>2, <1>3 DEF Next, Idling

\* The inductive invariant holds in every execution in which only forgotten
\* descriptor numbers are handed out again.
THEOREM RegistrationHolds ==
  ASSUME ~Reuse
  PROVE  Spec => []Registration
<1>1. Init => Registration
  BY DEF Init, EmptyTable, Registration, OneNamePerClient, OwnDescriptors, Unregistered,
         Registering, Agrees, Coherent, Usernames, ContainsFd
<1>2. Registration /\ IInv /\ [Next]_vars => Registration'
  BY RegistrationKept
<1> QED BY <1>1, <1>2, Invariance, PTL DEF Spec

(* One client is one user, in every execution in which only forgotten numbers
   are handed out again: IDENTIFY's three critical sections (message_handler.c:152,
   160, 182) cannot give one descriptor two names, nor lose one.            *)
THEOREM OneNamePerClientHolds ==
  ASSUME ~Reuse
  PROVE  Spec => []OneNamePerClient
<1>1. Registration => OneNamePerClient
  BY DEF Registration
<1> QED BY <1>1, RegistrationHolds, PTL

-----------------------------------------------------------------------------
\* The step of the lobby that an operation of the table is.

\* Adding a user under a free name and a free descriptor is coming in.
LEMMA AddingComesIn ==
  ASSUME Agrees(users), NEW n \in Names, NEW fd \in Fds,
         ~ContainsName(users, n), ~ContainsFd(users, fd),
         users' = AddUser(users, n, fd, "ACTIVE")
  PROVE  TheLobby!LobbyNext
<1>1. \A m \in DOMAIN users.byName : users.byName[m].fd # fd
  BY DEF Agrees, ContainsFd, Usernames
<1>2. users'.byName = [m \in DOMAIN users.byName \cup {n} |->
                         IF m = n THEN [fd |-> fd, status |-> "ACTIVE"] ELSE users.byName[m]]
  BY DEF AddUser, Usernames
<1>3. TheLobby!ComesIn(n, fd)
  BY <1>1, <1>2 DEF TheLobby!ComesIn, ContainsName
<1> QED BY <1>3 DEF TheLobby!LobbyNext

\* Changing a status by descriptor changes the status of one name, or nothing.
LEMMA ChangingChangesStatus ==
  ASSUME Table(users), Coherent(users), NEW fd, NEW s \in Status,
         users' = ChangeStatusByFd(users, fd, s)
  PROVE  TheLobby!LobbyNext \/ users'.byName = users.byName
<1>1. CASE ~ContainsFd(users, fd)
  BY <1>1 DEF ChangeStatusByFd
<1>2. CASE ContainsFd(users, fd)
  <2> DEFINE n == users.byFd[fd]
  <2>1. n \in DOMAIN users.byName /\ n \in Names
    BY <1>2 DEF Coherent, ContainsFd, Usernames, Table
  <2>2. users'.byName = [users.byName EXCEPT ![n] = [fd |-> @.fd, status |-> s]]
    BY <1>2 DEF ChangeStatusByFd, Usernames
  <2>3. TheLobby!ChangesStatus(n, s)
    BY <2>1, <2>2 DEF TheLobby!ChangesStatus
  <2> QED BY <2>1, <2>3 DEF TheLobby!LobbyNext
<1> QED BY <1>1, <1>2

\* Removing a user by name is its leaving, or nothing.
LEMMA RemovingLeaves ==
  ASSUME Table(users), NEW n, users' = RemoveUser(users, n)
  PROVE  TheLobby!LobbyNext \/ users'.byName = users.byName
<1>1. CASE ~ContainsName(users, n)
  BY <1>1 DEF RemoveUser
<1>2. CASE ContainsName(users, n)
  <2>1. n \in DOMAIN users.byName /\ n \in Names
    BY <1>2 DEF ContainsName, Table, Usernames
  <2>2. users'.byName = [m \in DOMAIN users.byName \ {n} |-> users.byName[m]]
    BY <1>2 DEF RemoveUser, Usernames
  <2>3. TheLobby!Leaves(n)
    BY <2>1, <2>2 DEF TheLobby!Leaves
  <2> QED BY <2>1, <2>3 DEF TheLobby!LobbyNext
<1> QED BY <1>1, <1>2

-----------------------------------------------------------------------------
\* The steps of the server.

\* A receive loop, reply, broadcast or disconnection at most removes a user.
LEMMA ConnectionStepInLobby ==
  ASSUME IInv, NEW c \in Conns, ConnectionStep(c)
  PROVE  TheLobby!LobbyNext \/ users'.byName = users.byName
<1>1. Table(users)
  BY DEF IInv, TypeOK
<1>2. CASE EvictFromUsers(c)
  BY <1>1, <1>2, RemovingLeaves DEF EvictFromUsers
<1>3. CASE DisconnectFromUsers(c)
  BY <1>1, <1>3, RemovingLeaves DEF DisconnectFromUsers
<1>4. CASE ~(EvictFromUsers(c) \/ DisconnectFromUsers(c))
  BY <1>4 DEF ConnectionStep, RecvCall, RecvReturns, RecvEnds, Extract, BadJson, GateOpens,
       GateCloses, ReplyFatal, ReplyFails, ReplySent, NotifySize, NotifyEach, EvictNext,
       EvictFromRooms, EvictDone, DisconnectFind, DisconnectFromRooms, DisconnectClose,
       OnlyThread, OnlyThreadAndTables, OnlyThreadAndSeen, tabVars
<1> QED BY <1>2, <1>3, <1>4

\* A handler adds a user (IDENTIFY), changes a status (STATUS), or neither.
LEMMA HandlerStepInLobby ==
  ASSUME Registration, IInv, NEW c \in Conns, HandlerStep(c)
  PROVE  TheLobby!LobbyNext \/ users'.byName = users.byName
<1>1. Table(users) /\ Agrees(users) /\ Coherent(users)
  BY DEF IInv, TypeOK, Registration, OneNamePerClient, Agrees
<1>2. CASE IdentifyAdd(c)
  <2>1. pc[c] = "id_add"
    BY <1>2 DEF IdentifyAdd
  <2>2. fdOf[c] \in Fds /\ Holds("id_add", loc[c]) /\ loc[c] \in Locals
    BY <2>1, ThreadFacts
  <2>3. Wanted(c) \in Names
    <3>1. Req(c) \in Request /\ Req(c).type = "IDENTIFY"
      BY <2>2, HoldsAt DEF Identifying, Basic, Req
    <3>2. Req(c).username \in Names
      BY <3>1, RequestFields
    <3> QED BY <3>2, ChatAssumption DEF Wanted
  <2>4. ~ContainsFd(users, fdOf[c])
    BY <2>1 DEF Registration, Unregistered, Registering
  <2>5. \/ users' = users
        \/ ~ContainsName(users, Wanted(c)) /\ users' = AddUser(users, Wanted(c), fdOf[c], "ACTIVE")
    BY <1>2 DEF IdentifyAdd
  <2> QED BY <1>1, <2>2, <2>3, <2>4, <2>5, AddingComesIn
<1>3. CASE StatusChange(c)
  <2>1. Req(c).status \in Status
    <3>1. pc[c] = "st_change"
      BY <1>3 DEF StatusChange
    <3> QED BY <3>1, ThreadFacts, HoldsAt DEF Req
  <2> QED BY <1>1, <1>3, <2>1, ChangingChangesStatus DEF StatusChange
<1>4. CASE ~(IdentifyAdd(c) \/ StatusChange(c))
  BY <1>4 DEF HandlerStep, StatusFind, StatusChangeInRooms, UsersList, TextFindAddressee,
       TextCompare, TextFindSender, TextSend, PublicTextFindSender, IdentifyFindFd,
       IdentifyFindName, OnlyThread, OnlyThreadAndTables, OnlyThreadAndSeen, tabVars
<1> QED BY <1>2, <1>3, <1>4

\* Nothing a room request does touches the users table.
LEMMA RoomStepInLobby ==
  ASSUME NEW c \in Conns, RoomStep(c)
  PROVE  users'.byName = users.byName
  BY DEF RoomStep, NewRoomContains, NewRoomAdd, NewRoomFindCreator, NewRoomAddCreator,
       RoomContains, RoomFindSender, RoomMember, InviteResolve, InviteIsMember,
       InviteIsGuest, InviteAdd, InviteSend, JoinIsGuest, JoinMove, RoomUsersList,
       RoomNotify, LeaveRoom, LeaveDropRoom, OnlyThread, OnlyThreadAndTables,
       OnlyThreadAndSeen, tabVars

\* Every step of the server is one of the lobby or a stutter.
LEMMA StepInLobby ==
  ASSUME Registration, IInv, [Next]_vars
  PROVE  [TheLobby!LobbyNext]_(users.byName)
<1>1. ASSUME NEW c \in Conns, ClientStep(c)
      PROVE  users'.byName = users.byName
  BY <1>1 DEF ClientStep, Accept, Submit, Vanish, tabVars
<1>2. ASSUME NEW c \in Conns, Thread(c)
      PROVE  TheLobby!LobbyNext \/ users'.byName = users.byName
  BY <1>2, ConnectionStepInLobby, HandlerStepInLobby, RoomStepInLobby DEF Thread
<1>3. CASE UNCHANGED vars
  BY <1>3 DEF vars, tabVars
<1> QED BY <1>1, <1>2, <1>3 DEF Next, Idling

(* The server implements Lobby in every execution in which only forgotten
   numbers are handed out again: whatever the interleaving of IDENTIFY, STATUS,
   DISCONNECT and the evictions, nobody takes a name that somebody has, nobody
   gets a second one, and a status changes for a client that is there.      *)
THEOREM ServerImplementsLobby ==
  ASSUME ~Reuse
  PROVE  Spec => ServesTheLobby
<1>1. Init => TheLobby!LobbyInit
  BY DEF Init, EmptyTable, TheLobby!LobbyInit
<1>2. Registration /\ IInv /\ [Next]_vars => [TheLobby!LobbyNext]_(users.byName)
  BY StepInLobby
<1> QED BY <1>1, <1>2, RegistrationHolds, Invariance, PTL
      DEF Spec, ServesTheLobby, TheLobby!LobbySpec

-----------------------------------------------------------------------------
\* Who was told of whom.

\* The client that has the descriptor a user is recorded under.
Owner(n) == fdt[users.byName[n].fd]

\* A connected user whose client is there to listen.
Present(n) == n \in Usernames(users) /\ Owner(n) # None /\ peer[Owner(n)] = "here"

\* The first of two users was told about the second.
ToldOf(n, m) == seen[Owner(n)][m] # "unheard"

Telling == {"notify_size", "notify_each"}

\* A thread that has added name n and has not told everybody yet.
Announces(d, n) ==
  \/ /\ pc[d] = "reply" /\ loc[d].reply \notin Fatal
     /\ Req(d).type = "IDENTIFY" /\ Wanted(d) = n
  \/ pc[d] \in Telling /\ loc[d].note.type = "NEW_USER" /\ loc[d].note.name = n

\* A number leads to the connection that got it, and every user is recorded
\* under a number some connection got.
Owned ==
  /\ \A f \in Fds : fdt[f] # None => fdOf[fdt[f]] = f
  /\ \A d \in Conns : peer[d] = "away" => fdOf[d] = 0
  /\ \A n \in Usernames(users) : \E d \in Conns : fdOf[d] = users.byName[n].fd

\* What a broadcast says of a user is something to know, but for a public text.
NoteTells(d) ==
  pc[d] \in Telling /\ loc[d].note.type # "PUBLIC_TEXT_FROM"
    => loc[d].note.status # "unheard"
NotesTell == \A d \in Conns : NoteTells(d)

(* The inductive form of EveryPairIntroduced: a pair that was not introduced is
   about to be, by the thread of one of the two.                            *)
Introduced ==
  \A n, m : n # m /\ Present(n) /\ Present(m)
    => ToldOf(n, m) \/ ToldOf(m, n) \/ Announces(Owner(n), n) \/ Announces(Owner(m), m)

Introduction == Owned /\ NotesTell /\ Introduced

-----------------------------------------------------------------------------
\* What steps leave alone.

\* Nobody comes in: users only leave.
UsersStay ==
  \A n \in Usernames(users') :
    n \in Usernames(users) /\ users'.byName[n].fd = users.byName[n].fd

\* No connection is accepted: sockets are only closed.
SocketsStay ==
  /\ fdOf' = fdOf
  /\ \A f \in Fds : fdt'[f] = fdt[f] \/ fdt'[f] = None
  /\ \A d \in Conns : peer'[d] # peer[d] => peer'[d] \notin {"away", "here"}

\* Nobody forgets what it was told.
NothingForgotten ==
  \A d \in Conns : \A n \in Names : seen[d][n] # "unheard" => seen'[d][n] # "unheard"

\* Whoever is present was present.
StillPresent == \A n : Present(n)' => Present(n) /\ Owner(n)' = Owner(n)

\* The thread of whoever is present still has to announce it if it had to.
StillAnnounced ==
  \A n : Present(n)' /\ Announces(Owner(n), n) => Announces(Owner(n), n)'

\* No step of a thread but IDENTIFY's add lets anybody in.
LEMMA OnlyAddLetsIn ==
  ASSUME NEW c \in Conns, Thread(c), ~IdentifyAdd(c)
  PROVE  UsersStay
<1>1. ASSUME NEW n, users' = RemoveUser(users, n) PROVE UsersStay
  BY <1>1 DEF RemoveUser, UsersStay, Usernames
<1>2. ASSUME NEW fd, NEW s, users' = ChangeStatusByFd(users, fd, s) PROVE UsersStay
  BY <1>2 DEF ChangeStatusByFd, UsersStay, Usernames
<1>3. ASSUME users' = users PROVE UsersStay
  BY <1>3 DEF UsersStay
<1>4. CASE ConnectionStep(c)
  <2>1. CASE EvictFromUsers(c) \/ DisconnectFromUsers(c)
    BY <2>1, <1>1 DEF EvictFromUsers, DisconnectFromUsers
  <2>2. CASE ~(EvictFromUsers(c) \/ DisconnectFromUsers(c))
    BY <1>3, <1>4, <2>2 DEF ConnectionStep, RecvCall, RecvReturns, RecvEnds, Extract, BadJson, GateOpens,
       GateCloses, ReplyFatal, ReplyFails, ReplySent, NotifySize, NotifyEach, EvictNext,
       EvictFromRooms, EvictDone, DisconnectFind, DisconnectFromRooms, DisconnectClose, OnlyThread, OnlyThreadAndTables,
       OnlyThreadAndSeen, tabVars
  <2> QED BY <2>1, <2>2
<1>5. CASE HandlerStep(c)
  <2>1. CASE StatusChange(c)
    BY <2>1, <1>2 DEF StatusChange
  <2>2. CASE ~StatusChange(c)
    BY <1>3, <1>5, <2>2 DEF HandlerStep, IdentifyFindFd, IdentifyFindName, StatusFind, StatusChangeInRooms,
       UsersList, TextFindAddressee, TextCompare, TextFindSender, TextSend,
       PublicTextFindSender, OnlyThread, OnlyThreadAndTables, tabVars
  <2> QED BY <2>1, <2>2
<1>6. CASE RoomStep(c)
  BY <1>3, <1>6 DEF RoomStep, NewRoomContains, NewRoomAdd, NewRoomFindCreator, NewRoomAddCreator,
       RoomContains, RoomFindSender, RoomMember, InviteResolve, InviteIsMember,
       InviteIsGuest, InviteAdd, InviteSend, JoinIsGuest, JoinMove, RoomUsersList,
       RoomNotify, LeaveRoom, LeaveDropRoom, OnlyThread, OnlyThreadAndTables, tabVars
<1> QED BY <1>4, <1>5, <1>6 DEF Thread

\* No step of a thread opens a socket; one closes one.
LEMMA ThreadsOnlyClose ==
  ASSUME IInv, NEW c \in Conns, Thread(c)
  PROVE  SocketsStay
<1>1. ASSUME fdt' = fdt, fdOf' = fdOf, peer' = peer PROVE SocketsStay
  BY <1>1 DEF SocketsStay
<1>2. CASE DisconnectClose(c)
  BY <1>2, Halves DEF DisconnectClose, SocketsStay, Sockets
<1>3. CASE ConnectionStep(c) /\ ~DisconnectClose(c)
  BY <1>1, <1>3 DEF ConnectionStep, RecvCall, RecvReturns, RecvEnds, Extract, BadJson, GateOpens,
       GateCloses, ReplyFatal, ReplyFails, ReplySent, NotifySize, NotifyEach, EvictNext,
       EvictFromRooms, EvictFromUsers, EvictDone, DisconnectFind, DisconnectFromRooms,
       DisconnectFromUsers, OnlyThread, OnlyThreadAndTables,
     OnlyThreadAndSeen, sockVars
<1>4. CASE HandlerStep(c)
  BY <1>1, <1>4 DEF HandlerStep, IdentifyFindFd, IdentifyFindName, IdentifyAdd, StatusFind,
       StatusChange, StatusChangeInRooms, UsersList, TextFindAddressee, TextCompare,
       TextFindSender, TextSend, PublicTextFindSender, OnlyThread, OnlyThreadAndTables, sockVars
<1>5. CASE RoomStep(c)
  BY <1>1, <1>5 DEF RoomStep, NewRoomContains, NewRoomAdd, NewRoomFindCreator, NewRoomAddCreator,
       RoomContains, RoomFindSender, RoomMember, InviteResolve, InviteIsMember,
       InviteIsGuest, InviteAdd, InviteSend, JoinIsGuest, JoinMove, RoomUsersList,
       RoomNotify, LeaveRoom, LeaveDropRoom, OnlyThread, OnlyThreadAndTables, sockVars
<1> QED BY <1>2, <1>3, <1>4, <1>5 DEF Thread

\* Only a broadcast tells anybody about a user.
LEMMA OnlyBroadcastsTell ==
  ASSUME NEW c \in Conns, Thread(c), ~NotifyEach(c)
  PROVE  seen' = seen
<1>1. CASE ConnectionStep(c)
  BY <1>1 DEF ConnectionStep, RecvCall, RecvReturns, RecvEnds, Extract, BadJson, GateOpens,
       GateCloses, ReplyFatal, ReplyFails, ReplySent, NotifySize, EvictNext,
       EvictFromRooms, EvictFromUsers, EvictDone, DisconnectFind, DisconnectFromRooms,
       DisconnectFromUsers, DisconnectClose, OnlyThread, OnlyThreadAndTables, obsVars
<1>2. CASE HandlerStep(c)
  BY <1>2 DEF HandlerStep, IdentifyFindFd, IdentifyFindName, IdentifyAdd, StatusFind,
       StatusChange, StatusChangeInRooms, UsersList, TextFindAddressee, TextCompare,
       TextFindSender, TextSend, PublicTextFindSender, OnlyThread, OnlyThreadAndTables, obsVars
<1>3. CASE RoomStep(c)
  BY <1>3 DEF RoomStep, NewRoomContains, NewRoomAdd, NewRoomFindCreator, NewRoomAddCreator,
       RoomContains, RoomFindSender, RoomMember, InviteResolve, InviteIsMember,
       InviteIsGuest, InviteAdd, InviteSend, JoinIsGuest, JoinMove, RoomUsersList,
       RoomNotify, LeaveRoom, LeaveDropRoom, OnlyThread, OnlyThreadAndTables, obsVars
<1> QED BY <1>1, <1>2, <1>3 DEF Thread

\* A broadcast begins in four places.
LEMMA WhoBroadcasts ==
  ASSUME IInv, NEW c \in Conns, Thread(c), pc'[c] \in Telling
  PROVE  \/ ReplySent(c) \/ DisconnectFind(c) \/ NotifySize(c)
         \/ StatusChangeInRooms(c) \/ PublicTextFindSender(c)
<1> DEFINE Starts == \/ ReplySent(c) \/ DisconnectFind(c) \/ NotifySize(c)
                     \/ StatusChangeInRooms(c) \/ PublicTextFindSender(c)
<1>1. pc \in [Conns -> Places]
  BY DEF IInv, TypeOK
<1>2. \A q : Goto(c, q) => pc'[c] = q
  BY <1>1 DEF Goto
<1>3. /\ \A req : Entry(req) \notin Telling
      /\ \A req : HandlerOf(req) \notin Telling
  BY DEF Entry, HandlerOf, Telling
<1> USE DEF Done, Reply, Disconnect, Telling
<1>4. CASE Extract(c) \/ GateOpens(c)
  BY <1>2, <1>3, <1>4 DEF Extract, GateOpens
<1>5. CASE ConnectionStep(c) /\ ~(Extract(c) \/ GateOpens(c))
  BY <1>1, <1>2, <1>5 DEF ConnectionStep, RecvCall, RecvReturns, RecvEnds, BadJson, GateCloses, ReplyFatal,
       ReplyFails, NotifyEach, EvictNext, EvictFromRooms, EvictFromUsers, EvictDone,
       DisconnectFromRooms, DisconnectFromUsers, DisconnectClose
<1>6. CASE HandlerStep(c)
  BY <1>2, <1>6 DEF HandlerStep, IdentifyFindFd, IdentifyFindName, IdentifyAdd, StatusFind,
       StatusChange, UsersList, TextFindAddressee, TextCompare, TextFindSender, TextSend
<1>7. CASE RoomMember(c)
  <2>1. Req(c).type \in RoomRequests
    BY <1>7, ThreadFacts, HoldsAt DEF RoomMember, Req, EnteringRoom, Holds
  <2> QED BY <1>2, <1>7, <2>1 DEF RoomMember, RoomRequests
<1>8. CASE RoomStep(c) /\ ~RoomMember(c)
  BY <1>2, <1>8 DEF RoomStep, NewRoomContains, NewRoomAdd, NewRoomFindCreator, NewRoomAddCreator,
       RoomContains, RoomFindSender, InviteResolve, InviteIsMember, InviteIsGuest,
       InviteAdd, InviteSend, JoinIsGuest, JoinMove, RoomUsersList, RoomNotify,
       LeaveRoom, LeaveDropRoom
<1> QED BY <1>4, <1>5, <1>6, <1>7, <1>8 DEF Thread

\* What a thread broadcasts from then on tells something.
LEMMA NotesTellKept ==
  ASSUME IInv, NotesTell, NEW c \in Conns, Thread(c)
  PROVE  NotesTell'
<1> DEFINE l == loc[c]
<1>1. ASSUME NEW d \in Conns PROVE NoteTells(d)'
  <2>1. CASE d # c
    BY <2>1, OthersStandStill DEF NotesTell, NoteTells
  <2>2. CASE d = c /\ pc'[c] \notin Telling
    BY <2>2 DEF NoteTells
  <2>3. CASE d = c /\ pc'[c] \in Telling
    <3> pc[c] \notin {"off", "end"} /\ loc \in [Conns -> Locals]
      BY <2>3, WhoBroadcasts DEF ReplySent, DisconnectFind, NotifySize, StatusChangeInRooms,
         PublicTextFindSender, IInv, TypeOK
    <3> l \in Locals
      OBVIOUS
    <3>1. \A x : loc' = [loc EXCEPT ![c].note = x] => loc'[c].note = x
      BY DEF Locals
    <3>2. CASE ReplySent(c)
      <4>1. CASE Req(c).type = "IDENTIFY"
        BY <2>3, <3>1, <3>2, <4>1 DEF ReplySent, Broadcast, NoteTells
      <4>2. CASE Req(c).type # "IDENTIFY"
        <5>1. pc'[c] \in {"room_notify", "next"}
          BY <3>2, <4>2 DEF ReplySent, Goto, Done, IInv, TypeOK
        <5> QED BY <2>3, <5>1 DEF Telling
      <4> QED BY <4>1, <4>2
    <3>3. CASE DisconnectFind(c)
      <4>1. CASE ContainsFd(users, l.dfd)
        <5>1. loc'[c] = [[l EXCEPT !.gone = FindByFd(users, l.dfd)] EXCEPT
                           !.note = [type |-> "DISCONNECTED",
                                     name |-> FindByFd(users, l.dfd).name, status |-> "out"]]
          BY <3>3, <4>1 DEF DisconnectFind
        <5> DEFINE m == [l EXCEPT !.gone = FindByFd(users, l.dfd)]
        <5>2. FindByFd(users, l.dfd) \in UserCopy
          BY <4>1, ThreadFacts, LookupsYieldUsers
        <5>3. m \in Locals
          BY <5>2, UpdateLocals
        <5> HIDE DEF m
        <5>4. loc'[c].note.status = "out"
          BY <5>1, <5>3 DEF Locals, m
        <5> QED BY <2>3, <5>4 DEF NoteTells
      <4>2. CASE ~ContainsFd(users, l.dfd)
        <5>1. pc'[c] = "dc_close"
          BY <3>3, <4>2 DEF DisconnectFind, Goto, IInv, TypeOK
        <5> QED BY <2>3, <5>1 DEF Telling
      <4> QED BY <4>1, <4>2
    <3>4. CASE NotifySize(c)
      <4>1. loc'[c] = [l EXCEPT !.mx = Cardinality(Usernames(users))]
        BY <3>4 DEF NotifySize
      <4>2. loc'[c].note = l.note
        BY <4>1 DEF Locals
      <4> QED BY <2>3, <3>4, <4>2 DEF NotifySize, NotesTell, NoteTells, Telling
    <3>5. CASE StatusChangeInRooms(c)
      <4>1. Req(c).status \in Status
        BY <3>5, ThreadFacts, HoldsAt DEF StatusChangeInRooms, Req
      <4>2. loc'[c].note.status = Req(c).status
        BY <3>1, <3>5 DEF StatusChangeInRooms, Broadcast
      <4> QED BY <2>3, <4>1, <4>2 DEF NoteTells, Status
    <3>6. CASE PublicTextFindSender(c)
      <4>1. CASE ContainsFd(users, fdOf[c])
        <5> DEFINE u == FindByFd(users, fdOf[c])
        <5> DEFINE m == [l EXCEPT !.me = u]
        <5>1. loc'[c] = [m EXCEPT !.note = [type |-> "PUBLIC_TEXT_FROM",
                                            name |-> u.name, status |-> "unheard"]]
          BY <3>6, <4>1 DEF PublicTextFindSender
        <5>2. u \in UserCopy
          BY <4>1, ThreadFacts, LookupsYieldUsers
        <5>3. m \in Locals
          BY <5>2, UpdateLocals
        <5> HIDE DEF m
        <5>4. loc'[c].note.type = "PUBLIC_TEXT_FROM"
          BY <5>1, <5>3 DEF Locals
        <5> QED BY <2>3, <5>4 DEF NoteTells
      <4>2. CASE ~ContainsFd(users, fdOf[c])
        <5>1. pc'[c] = "next"
          BY <3>6, <4>2 DEF PublicTextFindSender, Done, Goto, IInv, TypeOK
        <5> QED BY <2>3, <5>1 DEF Telling
      <4> QED BY <4>1, <4>2
    <3> QED BY <2>3, <3>2, <3>3, <3>4, <3>5, <3>6, WhoBroadcasts
  <2> QED BY <2>1, <2>2, <2>3
<1> QED BY <1>1 DEF NotesTell

-----------------------------------------------------------------------------
\* The parts of the invariant, for any step.

\* Whoever is present after a step that lets nobody in was present before.
LEMMA NobodyAppears ==
  ASSUME IInv, UsersStay, SocketsStay
  PROVE  StillPresent
<1>1. /\ fdt \in [Fds -> Conns \cup {None}] /\ Table(users)
  BY DEF IInv, TypeOK
<1>2. ASSUME NEW n, Present(n)' PROVE Present(n) /\ Owner(n)' = Owner(n)
  <2>1. n \in Usernames(users) /\ users'.byName[n].fd = users.byName[n].fd
    BY <1>2 DEF Present, UsersStay
  <2>2. users.byName[n].fd \in Fds
    BY <1>1, <2>1 DEF Table
  <2>3. Owner(n)' = Owner(n) /\ Owner(n) \in Conns
    BY <1>1, <1>2, <2>1, <2>2 DEF Present, Owner, SocketsStay
  <2>4. peer[Owner(n)] = "here"
    BY <1>2, <2>3 DEF Present, SocketsStay
  <2> QED BY <1>2, <2>1, <2>3, <2>4 DEF Present
<1> QED BY <1>2 DEF StillPresent

\* The thread of a present user is its own.
LEMMA PresentOwner ==
  ASSUME IInv, Owned, NEW n, Present(n)
  PROVE  /\ n \in Names /\ Owner(n) \in Conns /\ users.byName[n].fd \in Fds
         /\ fdOf[Owner(n)] = users.byName[n].fd
  BY DEF IInv, TypeOK, Table, Owned, Present, Owner

\* A step that forgets nothing and drops no announcement keeps pairs introduced.
LEMMA IntroducedStays ==
  ASSUME IInv, Owned, Introduced, StillPresent, NothingForgotten, StillAnnounced
  PROVE  Introduced'
<1>1. ASSUME NEW n, NEW m, n # m, Present(n)', Present(m)'
      PROVE  (\/ ToldOf(n, m) \/ ToldOf(m, n)
              \/ Announces(Owner(n), n) \/ Announces(Owner(m), m))'
  <2>1. /\ Present(n) /\ Owner(n)' = Owner(n)
        /\ Present(m) /\ Owner(m)' = Owner(m)
    BY <1>1 DEF StillPresent
  <2>2. n \in Names /\ m \in Names /\ Owner(n) \in Conns /\ Owner(m) \in Conns
    BY <2>1, PresentOwner
  <2>3. ToldOf(n, m) => ToldOf(n, m)'
    BY <2>1, <2>2 DEF ToldOf, NothingForgotten
  <2>4. ToldOf(m, n) => ToldOf(m, n)'
    BY <2>1, <2>2 DEF ToldOf, NothingForgotten
  <2>5. /\ Announces(Owner(n), n) => Announces(Owner(n), n)'
        /\ Announces(Owner(m), m) => Announces(Owner(m), m)'
    BY <1>1 DEF StillAnnounced
  <2>6. ToldOf(n, m) \/ ToldOf(m, n) \/ Announces(Owner(n), n) \/ Announces(Owner(m), m)
    BY <1>1, <2>1 DEF Introduced
  <2> QED BY <2>3, <2>4, <2>5, <2>6
<1> QED BY <1>1 DEF Introduced

\* Nobody gets a number, and nobody enters under a number nobody has.
LEMMA OwnedStays ==
  ASSUME IInv, Owned, UsersStay, SocketsStay
  PROVE  Owned'
<1>1. \A f \in Fds : fdt'[f] # None => fdOf'[fdt'[f]] = f
  BY DEF Owned, SocketsStay
<1>2. \A d \in Conns : peer'[d] = "away" => fdOf'[d] = 0
  BY DEF Owned, SocketsStay
<1>3. \A n \in Usernames(users') : \E d \in Conns : fdOf'[d] = users'.byName[n].fd
  BY DEF Owned, SocketsStay, UsersStay
<1> QED BY <1>1, <1>2, <1>3 DEF Owned

-----------------------------------------------------------------------------
\* Steps of the threads.

\* A thread that has a reply or a broadcast to send does that next.
LEMMA TellersTell ==
  ASSUME NEW c \in Conns, Thread(c), pc[c] \in {"reply"} \cup Telling
  PROVE  ReplyFatal(c) \/ ReplyFails(c) \/ ReplySent(c) \/ NotifySize(c) \/ NotifyEach(c)
<1>1. CASE ConnectionStep(c)
  BY <1>1 DEF ConnectionStep, RecvCall, RecvReturns, RecvEnds, Extract, BadJson, GateOpens,
       GateCloses, EvictNext, EvictFromRooms, EvictFromUsers, EvictDone, DisconnectFind,
       DisconnectFromRooms, DisconnectFromUsers, DisconnectClose, Telling
<1>2. CASE HandlerStep(c)
  BY <1>2 DEF HandlerStep, IdentifyFindFd, IdentifyFindName, IdentifyAdd, StatusFind,
       StatusChange, StatusChangeInRooms, UsersList, TextFindAddressee, TextCompare,
       TextFindSender, TextSend, PublicTextFindSender, Telling
<1>3. CASE RoomStep(c)
  BY <1>3 DEF RoomStep, NewRoomContains, NewRoomAdd, NewRoomFindCreator, NewRoomAddCreator,
       RoomContains, RoomFindSender, RoomMember, InviteResolve, InviteIsMember,
       InviteIsGuest, InviteAdd, InviteSend, JoinIsGuest, JoinMove, RoomUsersList,
       RoomNotify, LeaveRoom, LeaveDropRoom, Telling
<1> QED BY <1>1, <1>2, <1>3 DEF Thread

\* Whether an announcement is due is a matter of its thread only.
LEMMA OthersStillAnnounce ==
  ASSUME IInv, Owned, StillPresent, NEW c \in Conns, Thread(c),
         NEW n, Present(n)', Owner(n) # c, Announces(Owner(n), n)
  PROVE  Announces(Owner(n), n)'
<1>1. Owner(n)' = Owner(n) /\ Owner(n) \in Conns
  BY PresentOwner DEF StillPresent
<1> QED BY <1>1, OthersStandStill DEF Announces, Req, Wanted

(* A new user's thread goes on with the announcement until it is out: the send
   of its SUCCESS cannot fail as long as the client is there.               *)
LEMMA AnnouncementGoesOn ==
  ASSUME IInv, Owned, StillPresent, NEW c \in Conns, Thread(c), ~NotifyEach(c)
  PROVE  StillAnnounced
<1>1. ASSUME NEW n, Present(n)', Announces(Owner(n), n) PROVE Announces(Owner(n), n)'
  <2>1. CASE Owner(n) # c
    BY <1>1, <2>1, OthersStillAnnounce
  <2>2. CASE Owner(n) = c
    <3>1. /\ Present(n) /\ Owner(n)' = c /\ loc \in [Conns -> Locals] /\ loc[c] \in Locals
          /\ pc \in [Conns -> Places]
      BY <1>1, <2>2 DEF StillPresent, IInv, TypeOK
    <3>2. pc[c] \in {"reply"} \cup Telling
      BY <1>1, <2>2 DEF Announces
    <3>3. CASE ReplyFatal(c)
      BY <1>1, <2>2, <3>3 DEF ReplyFatal, Announces, Telling
    <3>4. CASE ReplyFails(c)
      <4>1. fdt[fdOf[c]] = c /\ c # None /\ peer[c] = "here"
        BY <2>2, <3>1, PresentOwner, ChatAssumption DEF Owner, Present
      <4>2. SendResults(fdOf[c], ReplyIsBig(c)) = {TRUE}
        <5>1. Req(c).type = "IDENTIFY"
          BY <1>1, <2>2, <3>4 DEF ReplyFails, Announces, Telling
        <5>2. ~ReplyIsBig(c)
          BY <5>1 DEF ReplyIsBig, Echo, RoomRequests
        <5> QED BY <4>1, <5>2 DEF SendResults
      <4> QED BY <3>4, <4>2 DEF ReplyFails
    <3>5. CASE ReplySent(c)
      <4>1. Req(c).type = "IDENTIFY" /\ Wanted(c) = n
        BY <1>1, <2>2, <3>5 DEF ReplySent, Announces, Telling
      <4>2. Broadcast(c, [type |-> "NEW_USER", name |-> n, status |-> "ACTIVE"])
        BY <3>5, <4>1 DEF ReplySent, Wanted
      <4>3. pc'[c] = "notify_size"
        BY <3>1, <4>2 DEF Broadcast, Goto
      <4>4. loc'[c].note = [type |-> "NEW_USER", name |-> n, status |-> "ACTIVE"]
        BY <3>1, <4>2 DEF Broadcast, Locals
      <4> QED BY <3>1, <4>3, <4>4 DEF Announces, Telling
    <3>6. CASE NotifySize(c)
      <4>1. loc'[c] = [loc[c] EXCEPT !.mx = Cardinality(Usernames(users))]
        BY <3>1, <3>6 DEF NotifySize
      <4>2. loc'[c].note = loc[c].note
        BY <3>1, <4>1 DEF Locals
      <4>3. pc'[c] = "notify_each" /\ pc[c] = "notify_size"
        BY <3>1, <3>6 DEF NotifySize, Goto
      <4> QED BY <1>1, <2>2, <3>1, <4>2, <4>3 DEF Announces, Telling
    <3> QED BY <3>2, <3>3, <3>4, <3>5, <3>6, TellersTell
  <2> QED BY <2>1, <2>2
<1> QED BY <1>1 DEF StillAnnounced


\* A broadcast tells whoever is there, but for the client it leaves out.
LEMMA BroadcastReaches ==
  ASSUME IInv, NotesTell, NEW c \in Conns, NotifyEach(c),
         loc[c].note.type # "PUBLIC_TEXT_FROM",
         NEW m, Present(m), users.byName[m].fd # Skipped(c)
  PROVE  /\ seen'[Owner(m)][loc[c].note.name] = loc[c].note.status
         /\ loc[c].note.status # "unheard"
<1> DEFINE note == loc[c].note
           u == FindByName(users, m)
           others == {x \in UsersOf(users) : x.fd # Skipped(c)}
<1>1. /\ fdt \in [Fds -> Conns \cup {None}] /\ Table(users)
      /\ seen \in [Conns -> [Names -> Views]] /\ m \in Usernames(users)
  BY DEF IInv, TypeOK, Present
<1>2. u.fd = users.byName[m].fd /\ u \in others /\ Owner(m) \in Conns
  BY <1>1 DEF FindByName, UsersOf, Present, Owner, Table
<1>3. SendResults(u.fd, FALSE) = {TRUE}
  BY <1>2, ChatAssumption DEF Present, Owner, SendResults
<1>4. PICK F \in FailingSets(users, Skipped(c), FALSE) :
        seen' = [d \in Conns |->
                   IF d \in {fdt[x.fd] : x \in others \ F} /\ note.type # "PUBLIC_TEXT_FROM"
                   THEN [seen[d] EXCEPT ![note.name] = note.status] ELSE seen[d]]
  BY DEF NotifyEach
<1>5. u \notin F
  BY <1>3, <1>4 DEF FailingSets
<1>6. Owner(m) \in {fdt[x.fd] : x \in others \ F}
  BY <1>2, <1>5 DEF Owner
<1>7. seen'[Owner(m)] = [seen[Owner(m)] EXCEPT ![note.name] = note.status]
  BY <1>2, <1>4, <1>6
<1>8. note \in Note /\ note.status # "unheard"
  <2>1. pc[c] = "notify_each"
    BY DEF NotifyEach
  <2> QED BY <2>1, ThreadFacts DEF Holds, Notifying, NotesTell, NoteTells, Telling
<1> QED BY <1>1, <1>2, <1>7, <1>8 DEF Note

\* What a broadcast says replaces nothing by nothing.
LEMMA BroadcastForgetsNothing ==
  ASSUME IInv, NotesTell, NEW c \in Conns, NotifyEach(c)
  PROVE  NothingForgotten
<1> DEFINE note == loc[c].note
<1>1. PICK R : seen' = [d \in Conns |->
                          IF d \in R /\ note.type # "PUBLIC_TEXT_FROM"
                          THEN [seen[d] EXCEPT ![note.name] = note.status] ELSE seen[d]]
  BY DEF NotifyEach
<1>2. note.type # "PUBLIC_TEXT_FROM" => note.status # "unheard"
  BY DEF NotifyEach, NotesTell, NoteTells, Telling
<1>3. seen \in [Conns -> [Names -> Views]]
  BY DEF IInv, TypeOK
<1> QED BY <1>1, <1>2, <1>3 DEF NothingForgotten

\* After its broadcast a new user is known to everybody who is there.
LEMMA BroadcastIntroduces ==
  ASSUME IInv, Registration, Introduction, StillPresent, NEW c \in Conns, NotifyEach(c)
  PROVE  Introduced'
<1>0. Thread(c) /\ Owned /\ NotesTell /\ Introduced
  BY DEF Thread, ConnectionStep, Introduction
<1>1. ASSUME NEW n, NEW m, n # m, Present(n), Present(m), Owner(n) = c,
             Announces(Owner(n), n), Owner(m)' = Owner(m)
      PROVE  ToldOf(m, n)'
  <2>1. loc[c].note.type = "NEW_USER" /\ loc[c].note.name = n
    BY <1>1 DEF Announces, NotifyEach
  <2>2. fdOf[c] = users.byName[n].fd /\ Skipped(c) = fdOf[c]
    BY <1>0, <1>1, <2>1, PresentOwner DEF Skipped
  <2>3. users.byName[m].fd # Skipped(c)
    BY <1>1, <2>2 DEF Registration, OneNamePerClient, Agrees, Present
  <2> QED BY <1>0, <1>1, <2>1, <2>3, BroadcastReaches DEF ToldOf
<1>2. ASSUME NEW n, NEW m, n # m, Present(n)', Present(m)'
      PROVE  (\/ ToldOf(n, m) \/ ToldOf(m, n)
              \/ Announces(Owner(n), n) \/ Announces(Owner(m), m))'
  <2>1. /\ Present(n) /\ Owner(n)' = Owner(n)
        /\ Present(m) /\ Owner(m)' = Owner(m)
    BY <1>2 DEF StillPresent
  <2>2. n \in Names /\ m \in Names /\ Owner(n) \in Conns /\ Owner(m) \in Conns
    BY <1>0, <2>1, PresentOwner
  <2>3. /\ ToldOf(n, m) => ToldOf(n, m)'
        /\ ToldOf(m, n) => ToldOf(m, n)'
    BY <1>0, <2>1, <2>2, BroadcastForgetsNothing DEF ToldOf, NothingForgotten
  <2>4. /\ Announces(Owner(n), n) => Announces(Owner(n), n)' \/ ToldOf(m, n)'
        /\ Announces(Owner(m), m) => Announces(Owner(m), m)' \/ ToldOf(n, m)'
    BY <1>0, <1>1, <1>2, <2>1, OthersStillAnnounce
  <2>5. ToldOf(n, m) \/ ToldOf(m, n) \/ Announces(Owner(n), n) \/ Announces(Owner(m), m)
    BY <1>0, <1>2, <2>1 DEF Introduced
  <2> QED BY <2>3, <2>4, <2>5
<1> QED BY <1>2 DEF Introduced

\* Every step of a thread but the add.
LEMMA StepIntroduces ==
  ASSUME IInv, Registration, Introduction, NEW c \in Conns, Thread(c), ~IdentifyAdd(c)
  PROVE  Introduction'
<1>1. Owned /\ NotesTell /\ Introduced
  BY DEF Introduction
<1>2. UsersStay /\ SocketsStay
  BY OnlyAddLetsIn, ThreadsOnlyClose
<1>3. StillPresent
  BY <1>2, NobodyAppears
<1>4. CASE NotifyEach(c)
  BY <1>1, <1>2, <1>3, <1>4, BroadcastIntroduces, OwnedStays, NotesTellKept DEF Introduction
<1>5. CASE ~NotifyEach(c)
  <2>1. NothingForgotten
    BY <1>5, OnlyBroadcastsTell DEF NothingForgotten
  <2>2. StillAnnounced
    BY <1>1, <1>3, <1>5, AnnouncementGoesOn
  <2> QED BY <1>1, <1>2, <1>3, <2>1, <2>2, IntroducedStays, OwnedStays, NotesTellKept
          DEF Introduction
<1> QED BY <1>4, <1>5

\* The thread that adds a name is the one that will announce it.
LEMMA AddIntroduces ==
  ASSUME IInv, Registration, Introduction, NEW c \in Conns, IdentifyAdd(c)
  PROVE  Introduction'
<1>1. Owned /\ NotesTell /\ Introduced /\ Thread(c)
  BY DEF Introduction, Thread, HandlerStep
<1>2. /\ pc[c] = "id_add" /\ pc[c] \notin {"off", "end"} /\ seen' = seen /\ SocketsStay /\ fdt' = fdt
      /\ fdOf' = fdOf /\ peer' = peer
  BY <1>1, ThreadsOnlyClose DEF IdentifyAdd, sockVars
<1>3. NothingForgotten
  BY <1>2 DEF NothingForgotten
<1>4. NotesTell'
  BY <1>1, NotesTellKept
<1>5. pc[c] \notin {"reply"} \cup Telling
  BY <1>2 DEF Telling
<1>6. CASE users' = users
  <2>1. UsersStay
    BY <1>6 DEF UsersStay
  <2>2. StillPresent
    BY <1>2, <2>1, NobodyAppears
  <2>3. ~NotifyEach(c)
    BY <1>2 DEF NotifyEach
  <2>4. StillAnnounced
    BY <1>1, <2>2, <2>3, AnnouncementGoesOn
  <2> QED BY <1>1, <1>2, <1>3, <1>4, <2>1, <2>2, <2>4, IntroducedStays, OwnedStays
          DEF Introduction
<1>7. CASE /\ ~ContainsName(users, Wanted(c))
           /\ users' = AddUser(users, Wanted(c), fdOf[c], "ACTIVE")
           /\ Reply(c, "SUCCESS")
  <2>0. PICK w : w = Wanted(c)
    OBVIOUS
  <2>1. /\ Usernames(users') = Usernames(users) \cup {w}
        /\ users'.byName[w].fd = fdOf[c]
        /\ \A n \in Usernames(users) : n # w /\ users'.byName[n] = users.byName[n]
    BY <1>7, <2>0 DEF AddUser, Usernames, ContainsName
  <2>2. fdOf[c] \in Fds /\ loc[c].req.type = "IDENTIFY" /\ loc[c] \in Locals
    BY <1>2, ThreadFacts, HoldsAt DEF Identifying
  <2>3. Owned'
    <3>1. \A n \in Usernames(users') : \E d \in Conns : fdOf'[d] = users'.byName[n].fd
      BY <1>1, <1>2, <2>1 DEF Owned
    <3>2. /\ \A f \in Fds : fdt'[f] # None => fdOf'[fdt'[f]] = f
          /\ \A d \in Conns : peer'[d] = "away" => fdOf'[d] = 0
      BY <1>1, <1>2 DEF Owned
    <3> QED BY <3>1, <3>2 DEF Owned
  <2>4. ASSUME Present(w)' PROVE Announces(Owner(w), w)'
    <3>1. fdt[fdOf[c]] # None /\ Owner(w)' = fdt[fdOf[c]]
      BY <1>2, <2>1, <2>4 DEF Present, Owner
    <3>2. fdt[fdOf[c]] \in Conns /\ fdOf[fdt[fdOf[c]]] = fdOf[c]
      BY <1>1, <2>2, <3>1 DEF Owned, IInv, TypeOK
    <3>3. Owner(w)' = c
      BY <2>2, <3>1, <3>2, ChatAssumption DEF Registration, OwnDescriptors, Fds
    <3>4. pc'[c] = "reply" /\ loc'[c] = [loc[c] EXCEPT !.reply = "SUCCESS"]
      BY <1>7 DEF Reply, Goto, IInv, TypeOK
    <3>5. loc'[c].reply = "SUCCESS" /\ loc'[c].req = loc[c].req
      BY <2>2, <3>4 DEF Locals
    <3>6. Req(c)' = Req(c) /\ Wanted(c)' = w
      BY <2>0, <3>5 DEF Req, Wanted
    <3> QED BY <2>2, <3>3, <3>4, <3>5, <3>6 DEF Announces, Fatal, Req
  <2>5. ASSUME NEW n, Present(n)', n # w
        PROVE  /\ Present(n) /\ Owner(n)' = Owner(n)
               /\ Announces(Owner(n), n) => Announces(Owner(n), n)'
    <3>1. n \in Usernames(users) /\ users'.byName[n] = users.byName[n]
      BY <2>1, <2>5 DEF Present
    <3>2. Owner(n)' = Owner(n) /\ Present(n)
      BY <1>2, <2>5, <3>1 DEF Present, Owner
    <3>3. Owner(n) \in Conns
      BY <1>1, <3>2, PresentOwner
    <3>4. ASSUME Announces(Owner(n), n) PROVE Announces(Owner(n), n)'
      <4>1. Owner(n) # c
        BY <1>5, <3>4 DEF Announces
      <4> QED BY <1>1, <3>2, <3>3, <3>4, <4>1, OthersStandStill DEF Announces, Req, Wanted
    <3> QED BY <3>2, <3>4
  <2>6. ASSUME NEW n, NEW m, n # m, Present(n)', Present(m)'
        PROVE  (\/ ToldOf(n, m) \/ ToldOf(m, n)
                \/ Announces(Owner(n), n) \/ Announces(Owner(m), m))'
    <3>1. CASE n = w \/ m = w
      BY <2>4, <2>6, <3>1
    <3>2. CASE n # w /\ m # w
      <4>1. /\ Present(n) /\ Owner(n)' = Owner(n) /\ Present(m) /\ Owner(m)' = Owner(m)
            /\ Announces(Owner(n), n) => Announces(Owner(n), n)'
            /\ Announces(Owner(m), m) => Announces(Owner(m), m)'
        BY <2>5, <2>6, <3>2
      <4>2. /\ ToldOf(n, m) => ToldOf(n, m)'
            /\ ToldOf(m, n) => ToldOf(m, n)'
        BY <1>2, <4>1 DEF ToldOf
      <4> QED BY <1>1, <2>6, <4>1, <4>2 DEF Introduced
    <3> QED BY <3>1, <3>2
  <2>7. Introduced'
    BY <2>6 DEF Introduced
  <2> QED BY <1>4, <2>3, <2>7 DEF Introduction
<1> QED BY <1>6, <1>7 DEF IdentifyAdd


-----------------------------------------------------------------------------
\* The clients.

\* A new connection has a number no user is recorded under.
LEMMA AcceptIntroduces ==
  ASSUME ~Reuse, IInv, Introduction, NEW c \in Conns, Accept(c)
  PROVE  Introduction'
<1>0. Owned /\ NotesTell /\ Introduced
  BY DEF Introduction
<1>1. PICK f \in Fds :
        /\ fdt[f] = None /\ fdt' = [fdt EXCEPT ![f] = c] /\ fdOf'[c] = f
        /\ \A d \in Conns : d # c /\ fdOf[d] # f => fdOf'[d] = fdOf[d]
        /\ \A d \in Conns : d # c /\ fdOf[d] = f => fdOf'[d] = 0
        /\ \A n \in Usernames(users) : users.byName[n].fd # f
  BY AcceptTakesForgotten
<1>2. /\ peer[c] = "away" /\ peer' = [peer EXCEPT ![c] = "here"]
      /\ pc' = [pc EXCEPT ![c] = "next"] /\ loc' = loc /\ users' = users /\ seen' = seen
  BY DEF Accept, Goto, tabVars, obsVars
<1>3. /\ fdt \in [Fds -> Conns \cup {None}] /\ fdOf \in [Conns -> Fds \cup {0}]
      /\ peer \in [Conns -> {"away", "here", "leaving", "gone"}]
      /\ pc \in [Conns -> Places] /\ Table(users) /\ 0 \notin Fds /\ fdOf[c] = 0
  BY <1>0, <1>2, ChatAssumption DEF IInv, TypeOK, Owned, Fds
<1>4. Owned'
  <2>1. \A g \in Fds : fdt'[g] # None => fdOf'[fdt'[g]] = g
    <3>1. ASSUME NEW g \in Fds, fdt'[g] # None PROVE fdOf'[fdt'[g]] = g
      <4>1. CASE g = f
        BY <1>1, <1>3, <4>1
      <4>2. CASE g # f
        <5>1. fdt'[g] = fdt[g] /\ fdt[g] \in Conns /\ fdOf[fdt[g]] = g
          BY <1>0, <1>1, <1>3, <3>1, <4>2 DEF Owned
        <5>2. fdt[g] # c
          BY <1>3, <5>1
        <5> QED BY <1>1, <1>3, <5>1, <5>2
      <4> QED BY <4>1, <4>2
    <3> QED BY <3>1
  <2>2. \A d \in Conns : peer'[d] = "away" => fdOf'[d] = 0
    BY <1>0, <1>1, <1>2, <1>3 DEF Owned
  <2>3. ASSUME NEW n \in Usernames(users)
        PROVE  \E d \in Conns : fdOf'[d] = users.byName[n].fd
    <3>1. PICK d \in Conns : fdOf[d] = users.byName[n].fd
      BY <1>0 DEF Owned
    <3>2. d # c /\ fdOf[d] # f
      BY <1>1, <1>3, <3>1 DEF Table
    <3> QED BY <1>1, <3>1, <3>2
  <2> QED BY <1>2, <2>1, <2>2, <2>3 DEF Owned
<1>5. NotesTell'
  BY <1>0, <1>2, <1>3 DEF NotesTell, NoteTells, Telling
<1>6. ASSUME NEW n, Present(n)'
      PROVE  /\ Present(n) /\ Owner(n)' = Owner(n)
             /\ Announces(Owner(n), n) => Announces(Owner(n), n)'
  <2>1. n \in Usernames(users) /\ users.byName[n].fd \in Fds /\ users.byName[n].fd # f
    BY <1>0, <1>1, <1>2, <1>3, <1>6 DEF Owned, Present, Table
  <2>2. Owner(n)' = Owner(n) /\ Owner(n) \in Conns
    <3>1. Owner(n)' = fdt'[users.byName[n].fd] /\ Owner(n)' # None
      BY <1>2, <1>6 DEF Present, Owner
    <3>2. fdt'[users.byName[n].fd] = fdt[users.byName[n].fd]
      BY <1>1, <1>3, <2>1
    <3> QED BY <1>3, <2>1, <3>1, <3>2 DEF Owner
  <2>3. Owner(n) # c
    <3>1. fdt[users.byName[n].fd] # None
      BY <2>2, ChatAssumption DEF Owner
    <3>2. fdOf[Owner(n)] = users.byName[n].fd
      BY <1>0, <2>1, <3>1 DEF Owned, Owner
    <3> QED BY <1>3, <2>1, <3>2
  <2>4. Present(n)
    BY <1>2, <1>3, <1>6, <2>1, <2>2, <2>3, ChatAssumption DEF Present
  <2>5. pc'[Owner(n)] = pc[Owner(n)]
    BY <1>2, <1>3, <2>2, <2>3
  <2> QED BY <1>2, <2>2, <2>4, <2>5 DEF Announces, Req, Wanted
<1>7. Introduced'
  BY <1>0, <1>2, <1>6, IntroducedStays DEF StillPresent, StillAnnounced, NothingForgotten
<1> QED BY <1>4, <1>5, <1>7 DEF Introduction

\* A step that changes no more than what clients are at, and never for the better.
LEMMA BystanderIntroduces ==
  ASSUME IInv, Introduction, UNCHANGED << fdt, pc, fdOf, loc, users, seen >>,
         \A d \in Conns : peer'[d] # peer[d] => peer'[d] \notin {"away", "here"}
  PROVE  Introduction'
<1>1. UsersStay /\ SocketsStay /\ NothingForgotten
  BY DEF UsersStay, SocketsStay, NothingForgotten
<1>2. StillPresent
  BY <1>1, NobodyAppears
<1>3. StillAnnounced
  BY <1>2 DEF StillPresent, StillAnnounced, Announces, Req, Wanted
<1>4. NotesTell'
  BY DEF Introduction, NotesTell, NoteTells
<1> QED BY <1>1, <1>2, <1>3, <1>4, IntroducedStays, OwnedStays DEF Introduction

\* Every step keeps the invariant.
LEMMA IntroductionKept ==
  ASSUME ~Reuse, IInv, Registration, Introduction, [Next]_vars
  PROVE  Introduction'
<1>1. ASSUME NEW c \in Conns, ClientStep(c) PROVE Introduction'
  <2>1. CASE Accept(c)
    BY <2>1, AcceptIntroduces
  <2>2. CASE Submit(c) \/ Vanish(c)
    <3>1. UNCHANGED << fdt, pc, fdOf, loc, users, seen >>
      BY <2>2 DEF Submit, Vanish, tabVars, obsVars
    <3>2. \A d \in Conns : peer'[d] # peer[d] => peer'[d] \notin {"away", "here"}
      BY <2>2 DEF Submit, Vanish, IInv, TypeOK
    <3> QED BY <3>1, <3>2, BystanderIntroduces
  <2> QED BY <1>1, <2>1, <2>2 DEF ClientStep
<1>2. ASSUME NEW c \in Conns, Thread(c) PROVE Introduction'
  BY <1>2, StepIntroduces, AddIntroduces
<1>3. CASE UNCHANGED vars
  BY <1>3, BystanderIntroduces DEF vars, sockVars, tabVars, obsVars
<1> QED BY <1>1, <1>2, <1>3 DEF Next, Idling

\* The inductive invariant holds in every execution in which only forgotten
\* descriptor numbers are handed out again.
THEOREM IntroductionHolds ==
  ASSUME ~Reuse
  PROVE  Spec => []Introduction
<1>1. Init => Introduction
  BY DEF Init, EmptyTable, Introduction, Owned, NotesTell, NoteTells, Introduced, Present,
         Usernames, Telling
<1>2. Introduction /\ Registration /\ IInv /\ [Next]_vars => Introduction'
  BY IntroductionKept
<1> QED BY <1>1, <1>2, Invariance, RegistrationHolds, PTL DEF Spec

\* Once the server rests nobody has anything left to announce.
LEMMA QuietIntroduces ==
  ASSUME IInv, Introduction
  PROVE  EveryPairIntroduced
<1>1. SUFFICES ASSUME Quiet, NEW u \in UsersOf(users), NEW v \in UsersOf(users), u # v,
                      Listens(u), Listens(v)
               PROVE  \/ seen[fdt[u.fd]][v.name] # "unheard"
                      \/ seen[fdt[v.fd]][u.name] # "unheard"
  BY DEF EveryPairIntroduced
<1>2. /\ u = FindByName(users, u.name) /\ u.name \in Usernames(users)
      /\ v = FindByName(users, v.name) /\ v.name \in Usernames(users)
  BY DEF UsersOf, FindByName
<1>3. u.fd = users.byName[u.name].fd /\ v.fd = users.byName[v.name].fd /\ u.name # v.name
  BY <1>1, <1>2 DEF FindByName
<1>4. Present(u.name) /\ Present(v.name)
  BY <1>1, <1>2, <1>3 DEF Listens, Present, Owner
<1>5. Owner(u.name) \in Conns /\ Owner(v.name) \in Conns
  BY <1>4, PresentOwner DEF Introduction
<1>6. ~Announces(Owner(u.name), u.name) /\ ~Announces(Owner(v.name), v.name)
  BY <1>1, <1>5 DEF Quiet, Announces, Telling
<1> QED BY <1>3, <1>4, <1>6 DEF Introduction, Introduced, ToldOf, Owner

(* Of any two clients that are there one was told about the other, whatever the
   interleaving of their IDENTIFYs, the evictions and the departures, as long
   as only forgotten numbers are handed out again: each is in the users table
   before it is announced (message_handler.c:182, 202).                     *)
THEOREM EveryPairIntroducedHolds ==
  ASSUME ~Reuse
  PROVE  Spec => []EveryPairIntroduced
<1>1. IInv /\ Introduction => EveryPairIntroduced
  BY QuietIntroduces
<1> QED BY <1>1, IntroductionHolds, Invariance, PTL


-----------------------------------------------------------------------------
(* Nobody is left behind.  This part is about executions without INVITE, the
   one request whose failed send disconnects the addressee: its thread may
   register again before the descriptor is closed, and is then left behind.  *)

Uninviting == {req \in Request : req.type # "INVITE"}

\* No client ever sends an INVITE.
NobodyInvites == Menu \in [Conns -> Seq(SUBSET Uninviting)]

\* A user is recorded under the thread's number.
Recorded(c, n) == n \in Usernames(users) /\ users.byName[n].fd = fdOf[c]

\* A thread on its way to taking its own user out of the tables.
TakingOut(c) ==
  \/ pc[c] \in Notifying /\ loc[c].note.type = "DISCONNECTED"
  \/ pc[c] \in {"dc_rooms", "dc_users"}

\* It is going to do so, or has overrun its array and does nothing any more.
OnItsWayOut(c) == TakingOut(c) \/ pc[c] \in {"dc_find", "overrun"}

\* A thread whose user cannot stay if its socket is closed.
Departs(c) == OnItsWayOut(c) \/ (pc[c] = "reply" /\ loc[c].reply \notin Fatal)

\* No INVITE is under way.
Uninvited ==
  /\ wire \in [Conns -> Seq(Uninviting)]
  /\ buf \in [Conns -> Seq([req : Uninviting, from : Conns])]
  /\ \A c \in Conns : pc[c] \notin Inviting

\* A thread serves no INVITE, and disconnects nobody but its own client.
OwnRequest(c) ==
  pc[c] \in Serving => loc[c].req \in Uninviting /\ loc[c].dfd = fdOf[c]

\* It takes out all that is recorded under its number, ...
TakesItsOwn(c) == TakingOut(c) => \A n : Recorded(c, n) => n = loc[c].gone.name

\* ... and closes the socket after that.
ClosesLast(c) == pc[c] = "dc_close" => \A n : ~Recorded(c, n)

\* A user whose socket is closed is about to go.
ClosedDeparts(c) ==
  fdt[fdOf[c]] = None => \A n : Recorded(c, n) => Departs(c)

Leaving(c) == OwnRequest(c) /\ TakesItsOwn(c) /\ ClosesLast(c) /\ ClosedDeparts(c)

(* The inductive invariant behind NoGhosts.                                 *)
Departure == Uninvited /\ \A c \in Conns : Leaving(c)

-----------------------------------------------------------------------------
\* What a thread's steps do to its locals.

\* A handler keeps its request; the descriptor it may disconnect stays, or
\* becomes the thread's own.
KeepsRequest(c) ==
  \/ loc'[c] = Fresh
  \/ loc'[c].req = loc[c].req /\ loc'[c].dfd \in {loc[c].dfd, fdOf[c]}

\* Other fields than these two leave them alone.
SameRequest(m, l) == m.req = l.req /\ m.dfd = l.dfd

LEMMA FieldsStay ==
  ASSUME NEW l \in Locals, NEW x
  PROVE  /\ SameRequest([l EXCEPT !.me = x], l)
         /\ SameRequest([l EXCEPT !.to = x], l)
         /\ SameRequest([l EXCEPT !.reply = x], l)
         /\ SameRequest([l EXCEPT !.note = x], l)
         /\ SameRequest([l EXCEPT !.mx = x], l)
         /\ SameRequest([l EXCEPT !.failed = x], l)
         /\ SameRequest([l EXCEPT !.victim = x], l)
         /\ SameRequest([l EXCEPT !.gone = x], l)
         /\ SameRequest([l EXCEPT !.list = x], l)
<1> USE DEF Locals, SameRequest
<1>1. SameRequest([l EXCEPT !.me = x], l)
  OBVIOUS
<1>2. SameRequest([l EXCEPT !.to = x], l)
  OBVIOUS
<1>3. SameRequest([l EXCEPT !.reply = x], l)
  OBVIOUS
<1>4. SameRequest([l EXCEPT !.note = x], l)
  OBVIOUS
<1>5. SameRequest([l EXCEPT !.mx = x], l)
  OBVIOUS
<1>6. SameRequest([l EXCEPT !.failed = x], l)
  OBVIOUS
<1>7. SameRequest([l EXCEPT !.victim = x], l)
  OBVIOUS
<1>8. SameRequest([l EXCEPT !.gone = x], l)
  OBVIOUS
<1>9. SameRequest([l EXCEPT !.list = x], l)
  OBVIOUS
<1> HIDE DEF Locals, SameRequest
<1> QED BY <1>1, <1>2, <1>3, <1>4, <1>5, <1>6, <1>7, <1>8, <1>9

\* Each way a handler goes on keeps its request.
LEMMA WaysOn ==
  ASSUME IInv, NEW c \in Conns
  PROVE  /\ loc' = loc => KeepsRequest(c)
         /\ Done(c) => KeepsRequest(c)
         /\ \A x : Reply(c, x) => KeepsRequest(c)
         /\ \A x : Broadcast(c, x) => KeepsRequest(c)
         /\ Disconnect(c, fdOf[c]) => KeepsRequest(c)
         /\ \A x : loc' = [loc EXCEPT ![c].me = x] => KeepsRequest(c)
         /\ \A x : loc' = [loc EXCEPT ![c].to = x] => KeepsRequest(c)
         /\ \A x : loc' = [loc EXCEPT ![c].mx = x] => KeepsRequest(c)
         /\ \A x : loc' = [loc EXCEPT ![c].failed = x] => KeepsRequest(c)
         /\ \A x : loc' = [loc EXCEPT ![c].victim = x] => KeepsRequest(c)
<1>1. loc \in [Conns -> Locals] /\ loc[c] \in Locals
  BY DEF IInv, TypeOK
<1>2. loc' = loc => KeepsRequest(c)
  BY DEF KeepsRequest
<1>3. Done(c) => KeepsRequest(c)
  BY <1>1 DEF Done, KeepsRequest
<1>4. ASSUME NEW x, Reply(c, x) PROVE KeepsRequest(c)
  <2>1. loc'[c] = [loc[c] EXCEPT !.reply = x]
    BY <1>1, <1>4 DEF Reply
  <2> QED BY <1>1, <2>1, FieldsStay DEF KeepsRequest, SameRequest
<1>5. ASSUME NEW x, Broadcast(c, x) PROVE KeepsRequest(c)
  <2>1. loc'[c] = [loc[c] EXCEPT !.note = x]
    BY <1>1, <1>5 DEF Broadcast
  <2> QED BY <1>1, <2>1, FieldsStay DEF KeepsRequest, SameRequest
<1>6. ASSUME Disconnect(c, fdOf[c]) PROVE KeepsRequest(c)
  <2>1. loc'[c] = [loc[c] EXCEPT !.dfd = fdOf[c]]
    BY <1>1, <1>6 DEF Disconnect
  <2>2. loc'[c].req = loc[c].req /\ loc'[c].dfd = fdOf[c]
    BY <1>1, <2>1 DEF Locals
  <2> QED BY <2>2 DEF KeepsRequest
<1>7. ASSUME NEW x, loc' = [loc EXCEPT ![c].me = x] PROVE KeepsRequest(c)
  <2>1. loc'[c] = [loc[c] EXCEPT !.me = x]
    BY <1>1, <1>7
  <2> QED BY <1>1, <2>1, FieldsStay DEF KeepsRequest, SameRequest
<1>8. ASSUME NEW x, loc' = [loc EXCEPT ![c].to = x] PROVE KeepsRequest(c)
  <2>1. loc'[c] = [loc[c] EXCEPT !.to = x]
    BY <1>1, <1>8
  <2> QED BY <1>1, <2>1, FieldsStay DEF KeepsRequest, SameRequest
<1>9. ASSUME NEW x, loc' = [loc EXCEPT ![c].mx = x] PROVE KeepsRequest(c)
  <2>1. loc'[c] = [loc[c] EXCEPT !.mx = x]
    BY <1>1, <1>9
  <2> QED BY <1>1, <2>1, FieldsStay DEF KeepsRequest, SameRequest
<1>10. ASSUME NEW x, loc' = [loc EXCEPT ![c].failed = x] PROVE KeepsRequest(c)
  <2>1. loc'[c] = [loc[c] EXCEPT !.failed = x]
    BY <1>1, <1>10
  <2> QED BY <1>1, <2>1, FieldsStay DEF KeepsRequest, SameRequest
<1>11. ASSUME NEW x, loc' = [loc EXCEPT ![c].victim = x] PROVE KeepsRequest(c)
  <2>1. loc'[c] = [loc[c] EXCEPT !.victim = x]
    BY <1>1, <1>11
  <2> QED BY <1>1, <2>1, FieldsStay DEF KeepsRequest, SameRequest
<1> QED
  BY <1>2, <1>3, <1>4, <1>5, <1>6, <1>7, <1>8, <1>9, <1>10, <1>11


\* Every step of a thread that invites nobody keeps the request it serves.
LEMMA StepsKeepRequest ==
  ASSUME IInv, NEW c \in Conns, Thread(c), ~Extract(c), pc[c] \notin Inviting
  PROVE  KeepsRequest(c) \/ (RoomMember(c) /\ Req(c).type = "INVITE")
<1> DEFINE l == loc[c]
<1>1. l \in Locals /\ loc \in [Conns -> Locals]
  BY DEF IInv, TypeOK
<1>2. CASE EvictNext(c)
  <2>1. PICK u \in l.failed :
          IF ContainsFd(users, u.fd)
          THEN loc' = [loc EXCEPT ![c].failed = @ \ {u}, ![c].victim = FindByFd(users, u.fd)]
          ELSE loc' = [loc EXCEPT ![c].failed = @ \ {u}]
    BY <1>2 DEF EvictNext
  <2>2. CASE ContainsFd(users, u.fd)
    <3> DEFINE m == [l EXCEPT !.failed = l.failed \ {u}]
    <3>1. loc'[c] = [m EXCEPT !.victim = FindByFd(users, u.fd)]
      BY <1>1, <2>1, <2>2
    <3>2. l.failed \ {u} \in SUBSET UserCopy
      BY <1>1 DEF Locals
    <3>3. m \in Locals
      BY <1>1, <3>2, UpdateLocals
    <3>4. SameRequest(m, l)
      BY <1>1, FieldsStay
    <3> HIDE DEF m, l
    <3>5. SameRequest(loc'[c], m)
      BY <3>1, <3>3, FieldsStay
    <3> QED BY <3>4, <3>5 DEF SameRequest, KeepsRequest, l
  <2>3. CASE ~ContainsFd(users, u.fd)
    <3>1. loc' = [loc EXCEPT ![c].failed = l.failed \ {u}]
      BY <2>1, <2>3
    <3> QED BY <3>1, WaysOn
  <2> QED BY <2>2, <2>3
<1>3. CASE DisconnectFind(c)
  <2>1. CASE ~ContainsFd(users, l.dfd)
    BY <1>3, <2>1, WaysOn DEF DisconnectFind
  <2>2. CASE ContainsFd(users, l.dfd)
    <3> DEFINE u == FindByFd(users, l.dfd)
               n == [type |-> "DISCONNECTED", name |-> u.name, status |-> "out"]
               m == [l EXCEPT !.gone = u]
    <3>1. loc'[c] = [m EXCEPT !.note = n]
      BY <1>1, <1>3, <2>2 DEF DisconnectFind
    <3>2. m \in Locals
      BY <1>1, <1>3, <2>2, ThreadFacts, LookupsYieldUsers, UpdateLocals DEF DisconnectFind
    <3>3. SameRequest(m, l)
      BY <1>1, FieldsStay
    <3> HIDE DEF m, l, n
    <3>4. SameRequest(loc'[c], m)
      BY <3>1, <3>2, FieldsStay
    <3> QED BY <3>3, <3>4 DEF SameRequest, KeepsRequest, l
  <2> QED BY <2>1, <2>2
<1>4. CASE PublicTextFindSender(c)
  <2>1. CASE ~ContainsFd(users, fdOf[c])
    BY <1>4, <2>1, WaysOn DEF PublicTextFindSender
  <2>2. CASE ContainsFd(users, fdOf[c])
    <3> DEFINE u == FindByFd(users, fdOf[c])
               n == [type |-> "PUBLIC_TEXT_FROM", name |-> u.name, status |-> "unheard"]
               m == [l EXCEPT !.me = u]
    <3>1. loc'[c] = [m EXCEPT !.note = n]
      BY <1>1, <1>4, <2>2 DEF PublicTextFindSender
    <3>2. m \in Locals
      BY <1>1, <1>4, <2>2, ThreadFacts, LookupsYieldUsers, UpdateLocals
         DEF PublicTextFindSender
    <3>3. SameRequest(m, l)
      BY <1>1, FieldsStay
    <3> HIDE DEF m, l, n
    <3>4. SameRequest(loc'[c], m)
      BY <3>1, <3>2, FieldsStay
    <3> QED BY <3>3, <3>4 DEF SameRequest, KeepsRequest, l
  <2> QED BY <2>1, <2>2
<1>5. CASE UsersList(c) \/ RoomUsersList(c)
  <2>0. PICK shown : \E x \in Replies : loc' = [loc EXCEPT ![c].reply = x, ![c].list = shown]
    BY <1>5 DEF UsersList, RoomUsersList, Replies
  <2>1. PICK x \in Replies : loc' = [loc EXCEPT ![c].reply = x, ![c].list = shown]
    BY <2>0
  <2> DEFINE m == [l EXCEPT !.reply = x]
  <2>2. loc'[c] = [m EXCEPT !.list = shown]
    BY <1>1, <2>1
  <2>3. m \in Locals
    BY <1>1, UpdateLocals
  <2>4. SameRequest(m, l)
    BY <1>1, FieldsStay
  <2> HIDE DEF m, l
  <2>5. SameRequest(loc'[c], m)
    BY <2>2, <2>3, FieldsStay
  <2> QED BY <2>4, <2>5 DEF SameRequest, KeepsRequest, l
<1>6. CASE GateOpens(c)
  BY <1>6, WaysOn DEF GateOpens
<1>7. CASE ReplySent(c)
  BY <1>7, WaysOn DEF ReplySent
<1>8. CASE ConnectionStep(c) /\ ~(EvictNext(c) \/ DisconnectFind(c) \/ GateOpens(c) \/ ReplySent(c))
  <2>1. CASE DisconnectClose(c)
    BY <1>1, <2>1 DEF DisconnectClose, KeepsRequest
  <2>2. CASE ~DisconnectClose(c)
    BY <1>8, <2>2, WaysOn DEF ConnectionStep, RecvCall, RecvReturns, RecvEnds, BadJson, GateCloses, ReplyFatal,
       ReplyFails, NotifySize, NotifyEach, EvictFromRooms, EvictFromUsers, EvictDone,
       DisconnectFromRooms, DisconnectFromUsers
  <2> QED BY <2>1, <2>2
<1>9. CASE HandlerStep(c) /\ ~(UsersList(c) \/ PublicTextFindSender(c))
  BY <1>9, WaysOn DEF HandlerStep, IdentifyFindFd, IdentifyFindName, IdentifyAdd, StatusFind,
       StatusChange, StatusChangeInRooms, TextFindAddressee, TextCompare,
       TextFindSender, TextSend
<1>10. CASE RoomMember(c)
  <2>1. Req(c).type \in RoomRequests
    BY <1>10, ThreadFacts, HoldsAt DEF RoomMember, Req, EnteringRoom, Holds
  <2> QED BY <1>10, <2>1, WaysOn DEF RoomMember, RoomRequests
<1>11. CASE RoomStep(c) /\ ~(RoomMember(c) \/ RoomUsersList(c))
  BY <1>11, WaysOn DEF RoomStep, NewRoomContains, NewRoomAdd, NewRoomFindCreator, NewRoomAddCreator,
       RoomContains, RoomFindSender, JoinIsGuest, JoinMove, RoomNotify, LeaveRoom,
       LeaveDropRoom, InviteAdd, InviteIsGuest, InviteIsMember, InviteResolve,
       InviteSend, Inviting
<1> QED BY <1>2, <1>3, <1>4, <1>5, <1>6, <1>7, <1>8, <1>9, <1>10, <1>11 DEF Thread


-----------------------------------------------------------------------------
\* Who goes where.

\* Places of a thread that evicts, or takes its user out.
Leading == Notifying \cup {"dc_rooms", "dc_users"}

\* Steps that lead to a broadcast, its evictions or a removal.
LEMMA WhoLeads ==
  ASSUME IInv, NEW c \in Conns, Thread(c), pc'[c] \in Leading
  PROVE  ReplySent(c) \/ StatusChangeInRooms(c) \/ PublicTextFindSender(c) \/
         DisconnectFind(c) \/ NotifySize(c) \/ NotifyEach(c) \/ EvictNext(c) \/
         EvictFromRooms(c) \/ EvictFromUsers(c) \/ EvictDone(c) \/ DisconnectFromRooms(c)
<1>1. pc \in [Conns -> Places]
  BY DEF IInv, TypeOK
<1>2. \A q : Goto(c, q) => pc'[c] = q
  BY <1>1 DEF Goto
<1>3. /\ \A req : Entry(req) \notin Leading
      /\ \A req : HandlerOf(req) \notin Leading
  BY DEF Entry, HandlerOf, Leading, Notifying
<1> USE DEF Done, Reply, Broadcast, Disconnect, Leading, Notifying
<1>4. CASE Extract(c) \/ GateOpens(c)
  BY <1>2, <1>3, <1>4 DEF Extract, GateOpens
<1>5. CASE ConnectionStep(c) /\ ~(Extract(c) \/ GateOpens(c))
  BY <1>1, <1>2, <1>5 DEF ConnectionStep, RecvCall, RecvReturns, RecvEnds, BadJson, GateCloses, ReplyFatal,
       ReplyFails, DisconnectFromUsers, DisconnectClose
<1>6. CASE HandlerStep(c)
  BY <1>2, <1>6 DEF HandlerStep, IdentifyFindFd, IdentifyFindName, IdentifyAdd, StatusFind,
       StatusChange, UsersList, TextFindAddressee, TextCompare, TextFindSender, TextSend
<1>7. CASE RoomMember(c)
  <2>1. Req(c).type \in RoomRequests
    BY <1>7, ThreadFacts, HoldsAt DEF RoomMember, Req, EnteringRoom, Holds
  <2> QED BY <1>2, <1>7, <2>1 DEF RoomMember, RoomRequests
<1>8. CASE RoomStep(c) /\ ~RoomMember(c)
  BY <1>2, <1>8 DEF RoomStep, NewRoomContains, NewRoomAdd, NewRoomFindCreator, NewRoomAddCreator,
       RoomContains, RoomFindSender, InviteResolve, InviteIsMember, InviteIsGuest,
       InviteAdd, InviteSend, JoinIsGuest, JoinMove, RoomUsersList, RoomNotify,
       LeaveRoom, LeaveDropRoom
<1> QED BY <1>4, <1>5, <1>6, <1>7, <1>8 DEF Thread

\* Steps that lead to closing a socket.
LEMMA WhoCloses ==
  ASSUME IInv, NEW c \in Conns, Thread(c), pc'[c] \in {"dc_close"}
  PROVE  BadJson(c) \/ DisconnectFind(c) \/ DisconnectFromUsers(c)
<1>1. pc \in [Conns -> Places]
  BY DEF IInv, TypeOK
<1>2. \A q : Goto(c, q) => pc'[c] = q
  BY <1>1 DEF Goto
<1>3. /\ \A req : Entry(req) \notin {"dc_close"}
      /\ \A req : HandlerOf(req) \notin {"dc_close"}
  BY DEF Entry, HandlerOf
<1> USE DEF Done, Reply, Broadcast, Disconnect
<1>4. CASE Extract(c) \/ GateOpens(c)
  BY <1>2, <1>3, <1>4 DEF Extract, GateOpens
<1>5. CASE ConnectionStep(c) /\ ~(Extract(c) \/ GateOpens(c))
  BY <1>1, <1>2, <1>5 DEF ConnectionStep, RecvCall, RecvReturns, RecvEnds, GateCloses, ReplyFatal,
       ReplyFails, ReplySent, NotifySize, NotifyEach, EvictNext, EvictFromRooms,
       EvictFromUsers, EvictDone, DisconnectFromRooms, DisconnectClose
<1>6. CASE HandlerStep(c)
  BY <1>2, <1>6 DEF HandlerStep, IdentifyFindFd, IdentifyFindName, IdentifyAdd, StatusFind,
       StatusChange, StatusChangeInRooms, UsersList, TextFindAddressee, TextCompare,
       TextFindSender, TextSend, PublicTextFindSender
<1>7. CASE RoomMember(c)
  <2>1. Req(c).type \in RoomRequests
    BY <1>7, ThreadFacts, HoldsAt DEF RoomMember, Req, EnteringRoom, Holds
  <2> QED BY <1>2, <1>7, <2>1 DEF RoomMember, RoomRequests
<1>8. CASE RoomStep(c) /\ ~RoomMember(c)
  BY <1>2, <1>8 DEF RoomStep, NewRoomContains, NewRoomAdd, NewRoomFindCreator, NewRoomAddCreator,
       RoomContains, RoomFindSender, InviteResolve, InviteIsMember, InviteIsGuest,
       InviteAdd, InviteSend, JoinIsGuest, JoinMove, RoomUsersList, RoomNotify,
       LeaveRoom, LeaveDropRoom
<1> QED BY <1>4, <1>5, <1>6, <1>7, <1>8 DEF Thread

\* An invitation begins with an INVITE.
LEMMA WhoInvites ==
  ASSUME IInv, NEW c \in Conns, Thread(c), pc[c] \notin Inviting, pc'[c] \in Inviting
  PROVE  RoomMember(c) /\ Req(c).type = "INVITE"
<1>1. pc \in [Conns -> Places]
  BY DEF IInv, TypeOK
<1>2. \A q : Goto(c, q) => pc'[c] = q
  BY <1>1 DEF Goto
<1>3. /\ \A req : Entry(req) \notin Inviting
      /\ \A req : HandlerOf(req) \notin Inviting
  BY DEF Entry, HandlerOf, Inviting
<1> USE DEF Done, Reply, Broadcast, Disconnect, Inviting
<1>4. CASE Extract(c) \/ GateOpens(c)
  BY <1>2, <1>3, <1>4 DEF Extract, GateOpens
<1>5. CASE ConnectionStep(c) /\ ~(Extract(c) \/ GateOpens(c))
  BY <1>1, <1>2, <1>5 DEF ConnectionStep, RecvCall, RecvReturns, RecvEnds, BadJson, GateCloses, ReplyFatal,
       ReplyFails, ReplySent, NotifySize, NotifyEach, EvictNext, EvictFromRooms,
       EvictFromUsers, EvictDone, DisconnectFind, DisconnectFromRooms,
       DisconnectFromUsers, DisconnectClose
<1>6. CASE HandlerStep(c)
  BY <1>2, <1>6 DEF HandlerStep, IdentifyFindFd, IdentifyFindName, IdentifyAdd, StatusFind,
       StatusChange, StatusChangeInRooms, UsersList, TextFindAddressee, TextCompare,
       TextFindSender, TextSend, PublicTextFindSender
<1>7. CASE RoomMember(c)
  <2>1. Req(c).type \in RoomRequests
    BY <1>7, ThreadFacts, HoldsAt DEF RoomMember, Req, EnteringRoom, Holds
  <2> QED BY <1>2, <1>7, <2>1 DEF RoomMember, RoomRequests
<1>8. CASE RoomStep(c) /\ ~RoomMember(c)
  BY <1>2, <1>8 DEF RoomStep, NewRoomContains, NewRoomAdd, NewRoomFindCreator, NewRoomAddCreator,
       RoomContains, RoomFindSender, InviteResolve, InviteIsMember, InviteIsGuest,
       InviteAdd, InviteSend, JoinIsGuest, JoinMove, RoomUsersList, RoomNotify,
       LeaveRoom, LeaveDropRoom
<1> QED BY <1>4, <1>5, <1>6, <1>7, <1>8 DEF Thread

\* A thread that serves nothing can only receive, or begin to serve a line.
LEMMA OnlyExtractStarts ==
  ASSUME IInv, NEW c \in Conns, Thread(c), ~Extract(c), pc[c] \notin Serving
  PROVE  pc'[c] \notin Serving
<1> USE DEF Serving, Identifying, ChangingStatus, Notifying, Disconnecting, CreatingRoom,
            EnteringRoom, Inviting
<1>1. RecvCall(c) \/ RecvReturns(c) \/ RecvEnds(c)
  <2>1. CASE ConnectionStep(c)
    BY <2>1 DEF ConnectionStep, BadJson, GateOpens, GateCloses, ReplyFatal, ReplyFails,
       ReplySent, NotifySize, NotifyEach, EvictNext, EvictFromRooms, EvictFromUsers,
       EvictDone, DisconnectFind, DisconnectFromRooms, DisconnectFromUsers,
       DisconnectClose
  <2>2. CASE HandlerStep(c)
    BY <2>2 DEF HandlerStep, IdentifyFindFd, IdentifyFindName, IdentifyAdd, StatusFind,
       StatusChange, StatusChangeInRooms, UsersList, TextFindAddressee, TextCompare,
       TextFindSender, TextSend, PublicTextFindSender
  <2>3. CASE RoomStep(c)
    BY <2>3 DEF RoomStep, NewRoomContains, NewRoomAdd, NewRoomFindCreator, NewRoomAddCreator,
       RoomContains, RoomFindSender, RoomMember, InviteResolve, InviteIsMember,
       InviteIsGuest, InviteAdd, InviteSend, JoinIsGuest, JoinMove, RoomUsersList,
       RoomNotify, LeaveRoom, LeaveDropRoom
  <2> QED BY <2>1, <2>2, <2>3 DEF Thread
<1>2. pc'[c] \in {"next", "blocked", "end"}
  BY <1>1 DEF RecvCall, RecvReturns, RecvEnds, Goto, IInv, TypeOK
<1> QED BY <1>2

\* The steps of a thread that disconnects or broadcasts.
LEMMA DepartersDepart ==
  ASSUME NEW c \in Conns, Thread(c), pc[c] \in Leading \cup {"dc_find", "overrun"}
  PROVE  \/ NotifySize(c) \/ NotifyEach(c) \/ EvictNext(c) \/ EvictFromRooms(c)
         \/ EvictFromUsers(c) \/ EvictDone(c) \/ DisconnectFind(c)
         \/ DisconnectFromRooms(c) \/ DisconnectFromUsers(c)
<1> USE DEF Leading, Notifying
<1>1. CASE ConnectionStep(c)
  BY <1>1 DEF ConnectionStep, RecvCall, RecvReturns, RecvEnds, Extract, BadJson, GateOpens,
       GateCloses, ReplyFatal, ReplyFails, ReplySent, DisconnectClose
<1>2. CASE HandlerStep(c)
  BY <1>2 DEF HandlerStep, IdentifyFindFd, IdentifyFindName, IdentifyAdd, StatusFind,
       StatusChange, StatusChangeInRooms, UsersList, TextFindAddressee, TextCompare,
       TextFindSender, TextSend, PublicTextFindSender
<1>3. CASE RoomStep(c)
  BY <1>3 DEF RoomStep, NewRoomContains, NewRoomAdd, NewRoomFindCreator, NewRoomAddCreator,
       RoomContains, RoomFindSender, RoomMember, InviteResolve, InviteIsMember,
       InviteIsGuest, InviteAdd, InviteSend, JoinIsGuest, JoinMove, RoomUsersList,
       RoomNotify, LeaveRoom, LeaveDropRoom
<1> QED BY <1>1, <1>2, <1>3 DEF Thread


\* A broadcast and its evictions keep what is told and who is to go.
SamePlan(m, l) == m.note = l.note /\ m.gone = l.gone

LEMMA PlanFields ==
  ASSUME NEW l \in Locals, NEW x
  PROVE  /\ SamePlan([l EXCEPT !.mx = x], l)
         /\ SamePlan([l EXCEPT !.failed = x], l)
         /\ SamePlan([l EXCEPT !.victim = x], l)
<1> USE DEF Locals, SamePlan
<1>1. SamePlan([l EXCEPT !.mx = x], l)
  OBVIOUS
<1>2. SamePlan([l EXCEPT !.failed = x], l)
  OBVIOUS
<1>3. SamePlan([l EXCEPT !.victim = x], l)
  OBVIOUS
<1> HIDE DEF Locals, SamePlan
<1> QED BY <1>1, <1>2, <1>3

LEMMA PlanStays ==
  ASSUME IInv, NEW c \in Conns,
         \/ NotifySize(c) \/ NotifyEach(c) \/ EvictNext(c) \/ EvictFromRooms(c)
         \/ EvictFromUsers(c) \/ DisconnectFromRooms(c)
         \/ EvictDone(c) /\ loc[c].note.type = "DISCONNECTED"
  PROVE  SamePlan(loc'[c], loc[c])
<1> DEFINE l == loc[c]
<1>1. l \in Locals /\ loc \in [Conns -> Locals]
  BY DEF IInv, TypeOK
<1>2. CASE loc' = loc
  BY <1>2 DEF SamePlan
<1>3. ASSUME NEW x, \/ loc'[c] = [l EXCEPT !.mx = x] \/ loc'[c] = [l EXCEPT !.failed = x]
                    \/ loc'[c] = [l EXCEPT !.victim = x]
      PROVE  SamePlan(loc'[c], l)
  <2> HIDE DEF l
  <2> QED BY <1>1, <1>3, PlanFields
<1>4. CASE NotifySize(c)
  BY <1>1, <1>3, <1>4 DEF NotifySize
<1>5. CASE NotifyEach(c)
  <2>1. PICK F : loc' = [loc EXCEPT ![c].failed = F]
    BY <1>5 DEF NotifyEach
  <2> QED BY <1>1, <1>3, <2>1
<1>6. CASE EvictNext(c)
  <2>1. PICK u \in l.failed :
          IF ContainsFd(users, u.fd)
          THEN loc' = [loc EXCEPT ![c].failed = @ \ {u}, ![c].victim = FindByFd(users, u.fd)]
          ELSE loc' = [loc EXCEPT ![c].failed = @ \ {u}]
    BY <1>6 DEF EvictNext
  <2> DEFINE m == [l EXCEPT !.failed = l.failed \ {u}]
  <2>2. CASE ContainsFd(users, u.fd)
    <3>1. loc'[c] = [m EXCEPT !.victim = FindByFd(users, u.fd)]
      BY <1>1, <2>1, <2>2
    <3>2. l.failed \ {u} \in SUBSET UserCopy
      BY <1>1 DEF Locals
    <3>3. m \in Locals
      BY <1>1, <3>2, UpdateLocals
    <3>4. SamePlan(m, l)
      BY <1>1, PlanFields
    <3> HIDE DEF m, l
    <3>5. SamePlan(loc'[c], m)
      BY <3>1, <3>3, PlanFields
    <3> QED BY <3>4, <3>5 DEF SamePlan, l
  <2>3. CASE ~ContainsFd(users, u.fd)
    <3>1. loc'[c] = m
      BY <1>1, <2>1, <2>3
    <3> QED BY <1>3, <3>1
  <2> QED BY <2>2, <2>3
<1>7. CASE EvictFromUsers(c)
  BY <1>1, <1>3, <1>7 DEF EvictFromUsers
<1>8. CASE EvictFromRooms(c) \/ DisconnectFromRooms(c)
  BY <1>2, <1>8 DEF EvictFromRooms, DisconnectFromRooms
<1>9. CASE EvictDone(c) /\ l.note.type = "DISCONNECTED"
  BY <1>2, <1>9 DEF EvictDone
<1> QED BY <1>4, <1>5, <1>6, <1>7, <1>8, <1>9

\* A thread that takes its user out found it, or goes on with what it found.
LEMMA WhoTakesOut ==
  ASSUME IInv, NEW c \in Conns, Thread(c), TakingOut(c)'
  PROVE  \/ DisconnectFind(c) /\ ContainsFd(users, loc[c].dfd)
         \/ TakingOut(c) /\ loc'[c].gone = loc[c].gone
<1> DEFINE l == loc[c]
<1>1. /\ l \in Locals /\ loc \in [Conns -> Locals] /\ pc \in [Conns -> Places]
      /\ pc'[c] \in Leading
  BY DEF IInv, TypeOK, TakingOut, Leading
<1>2. \A x : Broadcast(c, x) => pc'[c] = "notify_size" /\ loc'[c].note = x
  BY <1>1 DEF Broadcast, Goto, Locals
<1>3. CASE ReplySent(c)
  <2>1. CASE Req(c).type = "IDENTIFY"
    <3>1. loc'[c].note.type = "NEW_USER" /\ pc'[c] = "notify_size"
      BY <1>2, <1>3, <2>1 DEF ReplySent
    <3> QED BY <3>1 DEF TakingOut
  <2>2. CASE Req(c).type # "IDENTIFY"
    <3>1. pc'[c] \in {"room_notify", "next"}
      BY <1>1, <1>3, <2>2 DEF ReplySent, Goto, Done
    <3> QED BY <1>1, <3>1 DEF Leading, Notifying
  <2> QED BY <2>1, <2>2
<1>4. CASE StatusChangeInRooms(c)
  <2>1. loc'[c].note.type = "NEW_STATUS" /\ pc'[c] = "notify_size"
    BY <1>2, <1>4 DEF StatusChangeInRooms
  <2> QED BY <2>1 DEF TakingOut
<1>5. CASE PublicTextFindSender(c)
  <2>1. CASE ContainsFd(users, fdOf[c])
    <3> DEFINE u == FindByFd(users, fdOf[c])
    <3> DEFINE m == [l EXCEPT !.me = u]
    <3>1. loc'[c] = [m EXCEPT !.note = [type |-> "PUBLIC_TEXT_FROM",
                                        name |-> u.name, status |-> "unheard"]]
      BY <1>1, <1>5, <2>1 DEF PublicTextFindSender
    <3>2. m \in Locals
      BY <1>1, <1>5, <2>1, ThreadFacts, LookupsYieldUsers, UpdateLocals
         DEF PublicTextFindSender
    <3> HIDE DEF m
    <3>3. loc'[c].note.type = "PUBLIC_TEXT_FROM" /\ pc'[c] = "notify_size"
      BY <1>1, <1>5, <2>1, <3>1, <3>2 DEF PublicTextFindSender, Goto, Locals
    <3> QED BY <3>3 DEF TakingOut
  <2>2. CASE ~ContainsFd(users, fdOf[c])
    <3>1. pc'[c] = "next"
      BY <1>1, <1>5, <2>2 DEF PublicTextFindSender, Done, Goto
    <3> QED BY <1>1, <3>1 DEF Leading, Notifying
  <2> QED BY <2>1, <2>2
<1>6. CASE DisconnectFind(c)
  <2>1. CASE ContainsFd(users, l.dfd)
    BY <1>6, <2>1
  <2>2. CASE ~ContainsFd(users, l.dfd)
    <3>1. pc'[c] = "dc_close"
      BY <1>1, <1>6, <2>2 DEF DisconnectFind, Goto
    <3> QED BY <1>1, <3>1 DEF Leading, Notifying
  <2> QED BY <2>1, <2>2
<1>7. CASE \/ NotifySize(c) \/ NotifyEach(c) \/ EvictNext(c) \/ EvictFromRooms(c)
           \/ EvictFromUsers(c)
  <2>1. SamePlan(loc'[c], l)
    BY <1>7, PlanStays
  <2>2. pc[c] \in Notifying /\ pc'[c] \notin {"dc_rooms", "dc_users"}
    BY <1>1, <1>7 DEF NotifySize, NotifyEach, EvictNext, EvictFromRooms, EvictFromUsers,
       Notifying, Goto
  <2> QED BY <2>1, <2>2 DEF TakingOut, SamePlan
<1>8. CASE EvictDone(c)
  <2>1. CASE l.note.type = "DISCONNECTED"
    <3>1. SamePlan(loc'[c], l) /\ pc[c] = "evict"
      BY <1>8, <2>1, PlanStays DEF EvictDone
    <3> QED BY <2>1, <3>1 DEF TakingOut, SamePlan, Notifying
  <2>2. CASE l.note.type # "DISCONNECTED"
    <3>1. pc'[c] = "next"
      BY <1>1, <1>8, <2>2 DEF EvictDone, Done, Goto
    <3> QED BY <1>1, <3>1 DEF Leading, Notifying
  <2> QED BY <2>1, <2>2
<1>9. CASE DisconnectFromRooms(c)
  <2>1. SamePlan(loc'[c], l)
    BY <1>9, PlanStays
  <2> QED BY <1>9, <2>1 DEF DisconnectFromRooms, TakingOut, SamePlan
<1> QED BY <1>1, <1>3, <1>4, <1>5, <1>6, <1>7, <1>8, <1>9, WhoLeads


-----------------------------------------------------------------------------
\* No INVITE comes under way.

\* Lines waiting for a thread.
Waiting == [req : Uninviting, from : Conns]

\* What the receive loop moves is still not an INVITE.
LEMMA LinesStayUninviting ==
  ASSUME IInv, Uninvited, NEW c \in Conns, Thread(c)
  PROVE  wire' \in [Conns -> Seq(Uninviting)] /\ buf' \in [Conns -> Seq(Waiting)]
<1>1. wire \in [Conns -> Seq(Uninviting)] /\ buf \in [Conns -> Seq(Waiting)]
  BY DEF Uninvited, Waiting
<1>2. CASE RecvReturns(c)
  <2> DEFINE d == bound[c]
  <2>1. d \in Conns /\ wire[d] \in Seq(Uninviting)
    BY <1>1, <1>2, Halves DEF RecvReturns, Threads, LocalsReady
  <2>2. PICK k \in 1..Len(wire[d]) :
          /\ buf' = [buf EXCEPT ![c] = [i \in 1..k |-> [req |-> wire[d][i], from |-> d]]]
          /\ wire' = [wire EXCEPT ![d] = SubSeq(@, k + 1, Len(@))]
    BY <1>2 DEF RecvReturns
  <2>3. [i \in 1..k |-> [req |-> wire[d][i], from |-> d]] \in Seq(Waiting)
    <3>1. ASSUME NEW i \in 1..k PROVE [req |-> wire[d][i], from |-> d] \in Waiting
      BY <2>1, <2>2, ElementOfSeq DEF Waiting
    <3> QED BY <3>1, <2>1, <2>2, IsASeq, LenProperties
  <2>4. SubSeq(wire[d], k + 1, Len(wire[d])) \in Seq(Uninviting)
    BY <2>1, SubSeqProperties, LenProperties
  <2> QED BY <1>1, <2>1, <2>2, <2>3, <2>4
<1>3. CASE Extract(c)
  <2>1. Tail(buf[c]) \in Seq(Waiting)
    BY <1>1, <1>3, HeadTailProperties DEF Extract
  <2>2. buf' = [buf EXCEPT ![c] = Tail(buf[c])] /\ wire' = wire
    BY <1>3 DEF Extract, sockVars
  <2> QED BY <1>1, <2>1, <2>2
<1>4. CASE ~(RecvReturns(c) \/ Extract(c))
  <2>1. wire' = wire /\ buf' = buf
    <3>1. CASE ConnectionStep(c)
      BY <1>4, <3>1 DEF ConnectionStep, RecvCall, RecvEnds, BadJson, GateOpens, GateCloses, ReplyFatal,
       ReplyFails, ReplySent, NotifySize, NotifyEach, EvictNext, EvictFromRooms,
       EvictFromUsers, EvictDone, DisconnectFind, DisconnectFromRooms,
       DisconnectFromUsers, DisconnectClose,
         OnlyThread, OnlyThreadAndTables, OnlyThreadAndSeen, sockVars
    <3>2. CASE HandlerStep(c)
      BY <3>2 DEF HandlerStep, IdentifyFindFd, IdentifyFindName, IdentifyAdd, StatusFind,
       StatusChange, StatusChangeInRooms, UsersList, TextFindAddressee, TextCompare,
       TextFindSender, TextSend, PublicTextFindSender, OnlyThread, OnlyThreadAndTables, sockVars
    <3>3. CASE RoomStep(c)
      BY <3>3 DEF RoomStep, NewRoomContains, NewRoomAdd, NewRoomFindCreator, NewRoomAddCreator,
       RoomContains, RoomFindSender, RoomMember, InviteResolve, InviteIsMember,
       InviteIsGuest, InviteAdd, InviteSend, JoinIsGuest, JoinMove, RoomUsersList,
       RoomNotify, LeaveRoom, LeaveDropRoom, OnlyThread, OnlyThreadAndTables, sockVars
    <3> QED BY <3>1, <3>2, <3>3 DEF Thread
  <2> QED BY <1>1, <2>1
<1> QED BY <1>2, <1>3, <1>4

\* Nor does any thread come to invite.
LEMMA ThreadsStayUninviting ==
  ASSUME IInv, Departure, NEW c \in Conns, Thread(c)
  PROVE  Uninvited'
<1>1. Uninvited /\ OwnRequest(c)
  BY DEF Departure, Leaving
<1>2. ASSUME NEW d \in Conns PROVE pc'[d] \notin Inviting
  <2>1. CASE d # c
    BY <1>1, <2>1, OthersStandStill DEF Uninvited
  <2>2. CASE d = c
    <3>1. ~(RoomMember(c) /\ Req(c).type = "INVITE")
      BY <1>1 DEF RoomMember, OwnRequest, Serving, EnteringRoom, Uninviting, Req
    <3> QED BY <1>1, <2>2, <3>1, WhoInvites DEF Uninvited
  <2> QED BY <2>1, <2>2
<1> QED BY <1>1, <1>2, LinesStayUninviting DEF Uninvited, Waiting

\* Clients send no INVITE.
LEMMA SubmitStaysUninviting ==
  ASSUME NobodyInvites, IInv, Uninvited, NEW c \in Conns, Submit(c)
  PROVE  wire' \in [Conns -> Seq(Uninviting)]
<1> DEFINE i == sent[c] + 1
<1>1. PICK req \in Menu[c][i] : wire' = [wire EXCEPT ![c] = Append(@, req)]
  BY DEF Submit
<1>2. Menu[c] \in Seq(SUBSET Uninviting)
  BY DEF NobodyInvites
<1>3. i \in 1..Len(Menu[c])
  <2>1. Len(Menu[c]) \in Nat
    BY <1>2, LenProperties
  <2>2. sent[c] \in Nat /\ sent[c] < Len(Menu[c])
    BY Halves DEF Submit, Sockets
  <2> QED BY <2>1, <2>2
<1>4. req \in Uninviting
  <2>1. Menu[c][i] \in SUBSET Uninviting
    BY <1>2, <1>3, ElementOfSeq
  <2> QED BY <1>1, <2>1
<1>5. wire \in [Conns -> Seq(Uninviting)]
  BY DEF Uninvited
<1>6. Append(wire[c], req) \in Seq(Uninviting)
  BY <1>4, <1>5, AppendProperties
<1> QED BY <1>1, <1>5, <1>6

-----------------------------------------------------------------------------
\* A thread and its user.

\* A thread serves what it served, or a line that is no INVITE, for itself.
LEMMA OwnRequestKept ==
  ASSUME IInv, IInv', Departure, NEW c \in Conns, Thread(c)
  PROVE  OwnRequest(c)'
<1>1. Uninvited /\ OwnRequest(c) /\ pc[c] \notin Inviting
  BY DEF Departure, Leaving, Uninvited
<1>2. fdOf' = fdOf /\ pc \in [Conns -> Places] /\ loc \in [Conns -> Locals]
  BY ThreadsOnlyClose DEF SocketsStay, IInv, TypeOK
<1>3. CASE Extract(c)
  <2> DEFINE line == Head(buf[c])
             x == IF Entry(line.req) = "reply" THEN "INVALID" ELSE None
             m == [Fresh EXCEPT !.req = line.req, !.from = line.from, !.dfd = fdOf[c], !.reply = x]
  <2>1. line.req \in Uninviting
    <3>1. buf[c] \in Seq(Waiting) /\ buf[c] # << >>
      BY <1>1, <1>3 DEF Uninvited, Waiting, Extract
    <3>2. line \in Waiting
      BY <3>1, HeadTailProperties
    <3> QED BY <3>2 DEF Waiting
  <2>2. CASE Entry(line.req) = "next"
    <3>1. pc'[c] = "next"
      BY <1>2, <1>3, <2>2 DEF Extract, Goto
    <3> QED BY <3>1 DEF OwnRequest, Serving, Identifying, ChangingStatus, Notifying,
            Disconnecting, CreatingRoom, EnteringRoom, Inviting
  <2>3. CASE Entry(line.req) # "next"
    <3>1. loc'[c] = m
      BY <1>2, <1>3, <2>3 DEF Extract
    <3>2. m.req = line.req /\ m.dfd = fdOf[c]
      BY DEF Fresh
    <3> QED BY <1>2, <2>1, <3>1, <3>2 DEF OwnRequest
  <2> QED BY <2>2, <2>3
<1>4. CASE ~Extract(c)
  <2>1. ~(RoomMember(c) /\ Req(c).type = "INVITE")
    BY <1>1 DEF RoomMember, OwnRequest, Serving, EnteringRoom, Uninviting, Req
  <2>2. KeepsRequest(c)
    BY <1>1, <1>4, <2>1, StepsKeepRequest
  <2>3. pc'[c] \in Serving => pc[c] \in Serving
    BY <1>4, OnlyExtractStarts
  <2>4. pc'[c] \in Serving => loc'[c] # Fresh
    <3>1. pc'[c] \in Serving => loc'[c].from \in Conns
      BY DEF IInv, LocalsReady, Holds
    <3>2. Fresh.from = None
      BY DEF Fresh
    <3> QED BY <3>1, <3>2, ChatAssumption
  <2> QED BY <1>1, <1>2, <2>2, <2>3, <2>4 DEF OwnRequest, KeepsRequest
<1> QED BY <1>3, <1>4

\* Only its own add records anybody under a thread's number.
LEMMA RecordedBefore ==
  ASSUME IInv, Registration, NEW c \in Conns, Thread(c), NEW d \in Conns,
         d # c \/ ~IdentifyAdd(c), NEW n, Recorded(d, n)'
  PROVE  Recorded(d, n) /\ fdOf[d] \in Fds
<1>1. fdOf' = fdOf /\ Table(users)
  BY ThreadsOnlyClose DEF SocketsStay, IInv, TypeOK
<1>2. CASE ~IdentifyAdd(c)
  BY <1>1, <1>2, OnlyAddLetsIn DEF UsersStay, Recorded, Table
<1>3. CASE IdentifyAdd(c) /\ d # c
  <2>1. pc[c] \notin {"off", "end"} /\ fdOf[c] \in Fds /\ 0 \notin Fds
    BY <1>3, ThreadFacts, ChatAssumption DEF IdentifyAdd, Fds
  <2>2. fdOf[d] # fdOf[c]
    BY <1>3, <2>1 DEF Registration, OwnDescriptors
  <2>3. CASE users' = users
    BY <1>1, <2>3 DEF Recorded, Table
  <2>4. CASE ~ContainsName(users, Wanted(c)) /\ users' = AddUser(users, Wanted(c), fdOf[c], "ACTIVE")
    <3>1. n \in Usernames(users) /\ users'.byName[n] = users.byName[n]
      BY <1>1, <2>2, <2>4 DEF AddUser, Recorded, Usernames, ContainsName
    <3> QED BY <1>1, <3>1 DEF Recorded, Table
  <2> QED BY <1>3, <2>3, <2>4 DEF IdentifyAdd
<1> QED BY <1>2, <1>3

\* The index by descriptor knows who is recorded under a thread's number.
LEMMA RecordedIsIndexed ==
  ASSUME Registration, NEW c \in Conns, NEW n, Recorded(c, n)
  PROVE  ContainsFd(users, fdOf[c]) /\ FindByFd(users, fdOf[c]).name = n
  BY DEF Registration, OneNamePerClient, Agrees, Recorded, FindByFd, FindByName

\* Only the end of a disconnection closes a socket.
LEMMA OnlyCloseCloses ==
  ASSUME NEW c \in Conns, Thread(c), ~DisconnectClose(c)
  PROVE  fdt' = fdt
<1>1. CASE ConnectionStep(c)
  BY <1>1 DEF ConnectionStep, RecvCall, RecvReturns, RecvEnds, Extract, BadJson, GateOpens,
       GateCloses, ReplyFatal, ReplyFails, ReplySent, NotifySize, NotifyEach, EvictNext,
       EvictFromRooms, EvictFromUsers, EvictDone, DisconnectFind, DisconnectFromRooms,
       DisconnectFromUsers,
     OnlyThread, OnlyThreadAndTables, OnlyThreadAndSeen, sockVars
<1>2. CASE HandlerStep(c)
  BY <1>2 DEF HandlerStep, IdentifyFindFd, IdentifyFindName, IdentifyAdd, StatusFind,
       StatusChange, StatusChangeInRooms, UsersList, TextFindAddressee, TextCompare,
       TextFindSender, TextSend, PublicTextFindSender, OnlyThread, OnlyThreadAndTables, sockVars
<1>3. CASE RoomStep(c)
  BY <1>3 DEF RoomStep, NewRoomContains, NewRoomAdd, NewRoomFindCreator, NewRoomAddCreator,
       RoomContains, RoomFindSender, RoomMember, InviteResolve, InviteIsMember,
       InviteIsGuest, InviteAdd, InviteSend, JoinIsGuest, JoinMove, RoomUsersList,
       RoomNotify, LeaveRoom, LeaveDropRoom, OnlyThread, OnlyThreadAndTables, sockVars
<1> QED BY <1>1, <1>2, <1>3 DEF Thread

\* What another thread does is no matter to a thread and its user.
LEMMA OthersLeave ==
  ASSUME IInv, Registration, Departure, NEW c \in Conns, Thread(c),
         NEW d \in Conns, d # c
  PROVE  Leaving(d)'
<1>1. Leaving(d) /\ OwnRequest(c)
  BY DEF Departure, Leaving
<1>2. pc'[d] = pc[d] /\ loc'[d] = loc[d] /\ fdOf' = fdOf
  BY OthersStandStill, ThreadsOnlyClose DEF SocketsStay
<1>3. \A n : Recorded(d, n)' => Recorded(d, n) /\ fdOf[d] \in Fds
  BY RecordedBefore
<1>4. OwnRequest(d)'
  BY <1>1, <1>2 DEF Leaving, OwnRequest
<1>5. TakesItsOwn(d)' /\ ClosesLast(d)'
  BY <1>1, <1>2, <1>3 DEF Leaving, TakesItsOwn, TakingOut, ClosesLast
<1>6. fdOf[d] \in Fds => fdt'[fdOf[d]] = fdt[fdOf[d]]
  <2>1. CASE DisconnectClose(c)
    <3>1. pc[c] = "dc_close" /\ pc[c] \notin {"off", "end"} /\ loc[c].dfd = fdOf[c]
      BY <1>1, <2>1 DEF DisconnectClose, OwnRequest, Serving, Disconnecting
    <3>2. fdOf[c] \in Fds /\ 0 \notin Fds
      BY <3>1, ThreadFacts, ChatAssumption DEF Fds
    <3>3. fdOf[d] # fdOf[c]
      BY <3>2 DEF Registration, OwnDescriptors
    <3> QED BY <2>1, <3>1, <3>3, Halves DEF DisconnectClose, Sockets
  <2>2. CASE ~DisconnectClose(c)
    BY <2>2, OnlyCloseCloses
  <2> QED BY <2>1, <2>2
<1>7. ClosedDeparts(d)'
  BY <1>1, <1>2, <1>3, <1>6 DEF Leaving, ClosedDeparts, Departs, OnItsWayOut, TakingOut
<1> QED BY <1>4, <1>5, <1>7 DEF Leaving


\* A thread takes out who is recorded under its own number.
LEMMA TakesItsOwnKept ==
  ASSUME IInv, Registration, Departure, NEW c \in Conns, Thread(c)
  PROVE  TakesItsOwn(c)'
<1>1. OwnRequest(c) /\ TakesItsOwn(c)
  BY DEF Departure, Leaving
<1>2. ASSUME TakingOut(c)', NEW n, Recorded(c, n)' PROVE n = loc'[c].gone.name
  <2>1. CASE DisconnectFind(c) /\ ContainsFd(users, loc[c].dfd)
    <3>1. loc[c].dfd = fdOf[c]
      BY <1>1, <2>1 DEF DisconnectFind, OwnRequest, Serving, Disconnecting
    <3>2. Recorded(c, n)
      <4>1. ~IdentifyAdd(c)
        BY <2>1 DEF DisconnectFind, IdentifyAdd
      <4> QED BY <1>2, <4>1, RecordedBefore
    <3> DEFINE u == FindByFd(users, fdOf[c])
               m == [loc[c] EXCEPT !.gone = u]
    <3>3. u.name = n
      BY <3>2, RecordedIsIndexed
    <3>4. loc[c] \in Locals /\ loc \in [Conns -> Locals]
      BY DEF IInv, TypeOK
    <3>5. loc'[c] = [m EXCEPT !.note = [type |-> "DISCONNECTED", name |-> u.name,
                                        status |-> "out"]]
      BY <2>1, <3>1, <3>4 DEF DisconnectFind
    <3>6. u \in UserCopy
      BY <2>1, <3>1, ThreadFacts, LookupsYieldUsers DEF DisconnectFind
    <3>7. m \in Locals
      BY <3>4, <3>6, UpdateLocals
    <3> HIDE DEF u
    <3>9. m.gone = u
      BY <3>4 DEF Locals
    <3> HIDE DEF m
    <3>8. loc'[c].gone = u
      BY <3>5, <3>7, <3>9 DEF Locals
    <3> QED BY <3>3, <3>8 DEF u
  <2>2. CASE TakingOut(c) /\ loc'[c].gone = loc[c].gone
    <3>1. ~IdentifyAdd(c)
      BY <2>2 DEF TakingOut, IdentifyAdd, Notifying
    <3>2. Recorded(c, n)
      BY <1>2, <3>1, RecordedBefore
    <3> QED BY <1>1, <2>2, <3>2 DEF TakesItsOwn
  <2> QED BY <1>2, <2>1, <2>2, WhoTakesOut
<1> QED BY <1>2 DEF TakesItsOwn

\* A thread about to close its socket has nobody left under its number.
LEMMA ClosesLastKept ==
  ASSUME IInv, Registration, Departure, NEW c \in Conns, Thread(c)
  PROVE  ClosesLast(c)'
<1>1. OwnRequest(c) /\ TakesItsOwn(c) /\ pc \in [Conns -> Places]
  BY DEF Departure, Leaving, IInv, TypeOK
<1>2. ASSUME pc'[c] = "dc_close", NEW n, Recorded(c, n)' PROVE FALSE
  <2>1. BadJson(c) \/ DisconnectFind(c) \/ DisconnectFromUsers(c)
    BY <1>2, WhoCloses
  <2>2. Recorded(c, n)
    <3>1. ~IdentifyAdd(c)
      BY <2>1 DEF BadJson, DisconnectFind, DisconnectFromUsers, IdentifyAdd
    <3> QED BY <1>2, <3>1, RecordedBefore
  <2>3. ContainsFd(users, fdOf[c])
    BY <2>2, RecordedIsIndexed
  <2>4. CASE BadJson(c)
    BY <1>1, <1>2, <2>3, <2>4 DEF BadJson, Goto
  <2>5. CASE DisconnectFind(c)
    <3>1. loc[c].dfd = fdOf[c]
      BY <1>1, <2>5 DEF DisconnectFind, OwnRequest, Serving, Disconnecting
    <3>2. pc'[c] = "notify_size"
      BY <1>1, <2>3, <2>5, <3>1 DEF DisconnectFind, Goto
    <3> QED BY <1>2, <3>2
  <2>6. CASE DisconnectFromUsers(c)
    <3>1. n = loc[c].gone.name
      BY <1>1, <2>2, <2>6 DEF DisconnectFromUsers, TakesItsOwn, TakingOut
    <3>2. n \notin Usernames(users')
      BY <2>6, <3>1 DEF DisconnectFromUsers, RemoveUser, Usernames, ContainsName
    <3> QED BY <1>2, <3>2 DEF Recorded
  <2> QED BY <2>1, <2>4, <2>5, <2>6
<1> QED BY <1>2 DEF ClosesLast

\* Who is on its way out goes on until it is out.
LEMMA WayOutGoesOn ==
  ASSUME IInv, Registration, Departure, NEW c \in Conns, Thread(c), OnItsWayOut(c),
         NEW n, Recorded(c, n), Recorded(c, n)'
  PROVE  OnItsWayOut(c)'
<1>1. /\ OwnRequest(c) /\ TakesItsOwn(c) /\ pc \in [Conns -> Places] /\ loc[c] \in Locals
      /\ loc \in [Conns -> Locals]
  BY DEF Departure, Leaving, IInv, TypeOK
<1>2. CASE pc[c] = "dc_find"
  <2>1. DisconnectFind(c)
    BY <1>2, DepartersDepart DEF NotifySize, NotifyEach, EvictNext, EvictFromRooms,
       EvictFromUsers, EvictDone, DisconnectFromRooms, DisconnectFromUsers
  <2>2. loc[c].dfd = fdOf[c] /\ ContainsFd(users, fdOf[c])
    BY <1>1, <1>2, RecordedIsIndexed DEF OwnRequest, Serving, Disconnecting
  <2> DEFINE u == FindByFd(users, fdOf[c])
             m == [loc[c] EXCEPT !.gone = u]
  <2>3. loc'[c] = [m EXCEPT !.note = [type |-> "DISCONNECTED", name |-> u.name,
                                      status |-> "out"]]
    BY <1>1, <2>1, <2>2 DEF DisconnectFind
  <2>4. m \in Locals
    BY <1>1, <1>2, <2>2, ThreadFacts, LookupsYieldUsers, UpdateLocals
  <2>5. pc'[c] = "notify_size"
    BY <1>1, <2>1, <2>2 DEF DisconnectFind, Goto
  <2> HIDE DEF m, u
  <2>6. loc'[c].note.type = "DISCONNECTED"
    BY <2>3, <2>4 DEF Locals
  <2> QED BY <2>5, <2>6 DEF OnItsWayOut, TakingOut, Notifying
<1>3. CASE TakingOut(c)
  <2>1. pc[c] \in Leading
    BY <1>3 DEF TakingOut, Leading
  <2>2. CASE \/ NotifySize(c) \/ NotifyEach(c) \/ EvictNext(c) \/ EvictFromRooms(c)
             \/ EvictFromUsers(c)
    <3>1. loc[c].note.type = "DISCONNECTED" /\ SamePlan(loc'[c], loc[c])
      BY <1>3, <2>2, PlanStays DEF TakingOut, NotifySize, NotifyEach, EvictNext,
         EvictFromRooms, EvictFromUsers
    <3>2. pc'[c] \in Notifying \cup {"overrun"}
      BY <1>1, <2>2 DEF NotifySize, NotifyEach, EvictNext, EvictFromRooms, EvictFromUsers,
         Notifying, Goto
    <3> QED BY <3>1, <3>2 DEF OnItsWayOut, TakingOut, SamePlan
  <2>3. CASE EvictDone(c)
    <3>1. pc'[c] = "dc_rooms"
      BY <1>1, <1>3, <2>3 DEF EvictDone, TakingOut, Goto
    <3> QED BY <3>1 DEF OnItsWayOut, TakingOut
  <2>4. CASE DisconnectFromRooms(c)
    <3>1. pc'[c] = "dc_users"
      BY <1>1, <2>4 DEF DisconnectFromRooms, Goto
    <3> QED BY <3>1 DEF OnItsWayOut, TakingOut
  <2>5. CASE DisconnectFromUsers(c)
    <3>1. n = loc[c].gone.name
      BY <1>1, <1>3 DEF TakesItsOwn
    <3>2. n \notin Usernames(users')
      BY <2>5, <3>1 DEF DisconnectFromUsers, RemoveUser, Usernames, ContainsName
    <3> QED BY <3>2 DEF Recorded
  <2>6. ~DisconnectFind(c)
    BY <2>1 DEF DisconnectFind, Leading, Notifying
  <2> QED BY <2>1, <2>2, <2>3, <2>4, <2>5, <2>6, DepartersDepart
<1>4. CASE pc[c] = "overrun"
  BY <1>4, DepartersDepart DEF NotifySize, NotifyEach, EvictNext, EvictFromRooms,
     EvictFromUsers, EvictDone, DisconnectFind, DisconnectFromRooms, DisconnectFromUsers
<1> QED BY <1>2, <1>3, <1>4 DEF OnItsWayOut

\* So is a user whose socket is closed: its thread cannot send the answer to a
\* late IDENTIFY.
LEMMA DepartingGoesOn ==
  ASSUME IInv, Registration, Departure, NEW c \in Conns, Thread(c), Departs(c),
         fdt[fdOf[c]] = None, NEW n, Recorded(c, n), Recorded(c, n)'
  PROVE  Departs(c)'
<1>1. CASE pc[c] = "reply" /\ loc[c].reply \notin Fatal
  <2>1. SendResults(fdOf[c], ReplyIsBig(c)) = {FALSE}
    BY DEF SendResults
  <2>2. ReplyFails(c)
    BY <1>1, <2>1, TellersTell DEF ReplyFatal, ReplySent, NotifySize, NotifyEach
  <2>3. pc \in [Conns -> Places]
    BY DEF IInv, TypeOK
  <2>4. pc'[c] = "dc_find"
    BY <2>2, <2>3 DEF ReplyFails, Disconnect, Goto
  <2> QED BY <2>4 DEF Departs, OnItsWayOut
<1>2. CASE OnItsWayOut(c)
  BY <1>2, WayOutGoesOn DEF Departs
<1> QED BY <1>1, <1>2 DEF Departs

\* So nobody stays behind when a thread closes its socket, or registers late.
LEMMA ClosedDepartsKept ==
  ASSUME IInv, Registration, Departure, NEW c \in Conns, Thread(c)
  PROVE  ClosedDeparts(c)'
<1>1. Leaving(c) /\ fdOf' = fdOf /\ pc \in [Conns -> Places] /\ loc \in [Conns -> Locals]
  BY ThreadsOnlyClose DEF Departure, SocketsStay, IInv, TypeOK
<1>2. ASSUME fdt'[fdOf'[c]] = None, NEW n, Recorded(c, n)' PROVE Departs(c)'
  <2>1. CASE DisconnectClose(c)
    <3>1. ~IdentifyAdd(c) /\ pc[c] = "dc_close"
      BY <2>1 DEF DisconnectClose, IdentifyAdd
    <3>2. Recorded(c, n)
      BY <1>2, <3>1, RecordedBefore
    <3> QED BY <1>1, <3>1, <3>2 DEF Leaving, ClosesLast
  <2>2. CASE ~DisconnectClose(c) /\ Recorded(c, n)
    <3>1. fdt[fdOf[c]] = None
      BY <1>1, <1>2, <2>2, OnlyCloseCloses
    <3>2. Departs(c)
      BY <1>1, <2>2, <3>1 DEF Leaving, ClosedDeparts
    <3> QED BY <1>2, <2>2, <3>1, <3>2, DepartingGoesOn
  <2>3. CASE ~DisconnectClose(c) /\ ~Recorded(c, n)
    <3>1. IdentifyAdd(c)
      BY <1>2, <2>3, RecordedBefore
    <3>2. users' # users
      BY <1>1, <1>2, <2>3 DEF Recorded
    <3>3. Reply(c, "SUCCESS") /\ loc[c] \in Locals
      BY <1>1, <3>1, <3>2 DEF IdentifyAdd
    <3>4. pc'[c] = "reply" /\ loc'[c].reply = "SUCCESS"
      BY <1>1, <3>3 DEF Reply, Goto, Locals
    <3> QED BY <3>4 DEF Departs, Fatal
  <2> QED BY <2>1, <2>2, <2>3
<1> QED BY <1>2 DEF ClosedDeparts


-----------------------------------------------------------------------------
\* The clients, and the theorem.

\* A new connection starts with a number nobody is recorded under.
LEMMA AcceptLeaves ==
  ASSUME ~Reuse, IInv, Owned, Departure, NEW c \in Conns, Accept(c)
  PROVE  Departure'
<1>1. PICK f \in Fds :
        /\ fdt' = [fdt EXCEPT ![f] = c] /\ fdOf'[c] = f
        /\ \A d \in Conns : d # c /\ fdOf[d] # f => fdOf'[d] = fdOf[d]
        /\ \A d \in Conns : fdOf[d] = f => pc[d] = "end"
        /\ \A d \in Conns : d # c /\ fdOf[d] = f => fdOf'[d] = 0
        /\ \A n \in Usernames(users) : users.byName[n].fd # f
  BY AcceptTakesForgotten
<1>2. /\ pc' = [pc EXCEPT ![c] = "next"] /\ loc' = loc /\ users' = users
      /\ wire' = wire /\ buf' = buf
  BY DEF Accept, Goto, tabVars
<1>3. /\ fdt \in [Fds -> Conns \cup {None}] /\ fdOf \in [Conns -> Fds \cup {0}]
      /\ pc \in [Conns -> Places] /\ Table(users)
  BY DEF IInv, TypeOK
<1>4. Uninvited'
  BY <1>2, <1>3 DEF Departure, Uninvited, Inviting
<1>5. ASSUME NEW d \in Conns PROVE Leaving(d)'
  <2>1. CASE d = c
    <3>1. pc'[c] = "next"
      BY <1>2, <1>3
    <3>2. \A n : ~Recorded(c, n)'
      BY <1>1, <1>2, <1>3 DEF Recorded, Owned
    <3> QED BY <2>1, <3>1, <3>2 DEF Leaving, OwnRequest, TakesItsOwn, TakingOut, ClosesLast,
            ClosedDeparts, Serving, Identifying, ChangingStatus, Notifying, Disconnecting,
            CreatingRoom, EnteringRoom, Inviting
  <2>2. CASE d # c /\ fdOf[d] = f
    <3>1. pc'[d] = "end" /\ fdOf'[d] = 0
      BY <1>1, <1>2, <1>3, <2>2
    <3>2. \A n : ~Recorded(d, n)'
      BY <1>2, <1>3, <3>1, ChatAssumption DEF Recorded, Table, Fds
    <3> QED BY <3>1, <3>2 DEF Leaving, OwnRequest, TakesItsOwn, TakingOut, ClosesLast,
            ClosedDeparts, Serving, Identifying, ChangingStatus, Notifying, Disconnecting,
            CreatingRoom, EnteringRoom, Inviting
  <2>3. CASE d # c /\ fdOf[d] # f
    <3>1. pc'[d] = pc[d] /\ loc'[d] = loc[d] /\ fdOf'[d] = fdOf[d]
      BY <1>1, <1>2, <1>3, <2>3
    <3>2. \A n : Recorded(d, n)' => Recorded(d, n) /\ fdOf[d] \in Fds
      BY <1>2, <1>3, <3>1 DEF Recorded, Table
    <3>3. fdOf[d] \in Fds => fdt'[fdOf[d]] = fdt[fdOf[d]]
      BY <1>1, <1>3, <2>3
    <3>4. Leaving(d)
      BY DEF Departure
    <3>5. OwnRequest(d)' /\ TakesItsOwn(d)' /\ ClosesLast(d)'
      BY <3>1, <3>2, <3>4 DEF Leaving, OwnRequest, TakesItsOwn, TakingOut, ClosesLast
    <3>6. ClosedDeparts(d)'
      BY <3>1, <3>2, <3>3, <3>4 DEF Leaving, ClosedDeparts, Departs, OnItsWayOut, TakingOut
    <3> QED BY <3>5, <3>6 DEF Leaving
  <2> QED BY <2>1, <2>2, <2>3
<1> QED BY <1>4, <1>5 DEF Departure

\* A client's own end is no matter to its thread.
LEMMA BystanderLeaves ==
  ASSUME IInv, Departure, UNCHANGED << fdt, pc, fdOf, loc, users, buf >>,
         wire' \in [Conns -> Seq(Uninviting)]
  PROVE  Departure'
<1>1. Uninvited'
  BY DEF Departure, Uninvited
<1>2. ASSUME NEW d \in Conns PROVE Leaving(d)'
  <2>1. Leaving(d)
    BY DEF Departure
  <2>2. \A n : Recorded(d, n)' <=> Recorded(d, n)
    BY DEF Recorded
  <2> QED BY <2>1, <2>2 DEF Leaving, OwnRequest, TakesItsOwn, TakingOut, ClosesLast,
          ClosedDeparts, Departs, OnItsWayOut
<1> QED BY <1>1, <1>2 DEF Departure

\* Every step keeps the invariant.
LEMMA DepartureKept ==
  ASSUME ~Reuse, NobodyInvites, IInv, IInv', Registration, Introduction, Departure, [Next]_vars
  PROVE  Departure'
<1>1. ASSUME NEW c \in Conns, ClientStep(c) PROVE Departure'
  <2>1. CASE Accept(c)
    BY <2>1, AcceptLeaves DEF Introduction
  <2>2. CASE Submit(c)
    <3>1. UNCHANGED << fdt, pc, fdOf, loc, users, buf >>
      BY <2>2 DEF Submit, tabVars
    <3>2. wire' \in [Conns -> Seq(Uninviting)]
      BY <2>2, SubmitStaysUninviting DEF Departure
    <3> QED BY <3>1, <3>2, BystanderLeaves
  <2>3. CASE Vanish(c)
    <3>1. UNCHANGED << wire, fdt, pc, fdOf, loc, users, buf >>
      BY <2>3 DEF Vanish, tabVars
    <3> QED BY <3>1, BystanderLeaves DEF Departure, Uninvited
  <2> QED BY <1>1, <2>1, <2>2, <2>3 DEF ClientStep
<1>2. ASSUME NEW c \in Conns, Thread(c) PROVE Departure'
  <2>1. Leaving(c)'
    BY <1>2, OwnRequestKept, TakesItsOwnKept, ClosesLastKept, ClosedDepartsKept DEF Leaving
  <2>2. \A d \in Conns : Leaving(d)'
    BY <1>2, <2>1, OthersLeave
  <2>3. Uninvited'
    BY <1>2, ThreadsStayUninviting
  <2> QED BY <2>2, <2>3 DEF Departure
<1>3. CASE UNCHANGED vars
  <2>1. UNCHANGED << wire, fdt, pc, fdOf, loc, users, buf >>
    BY <1>3 DEF vars, sockVars, tabVars
  <2> QED BY <2>1, BystanderLeaves DEF Departure, Uninvited
<1> QED BY <1>1, <1>2, <1>3 DEF Next, Idling

\* The inductive invariant holds in every execution without INVITE in which only
\* forgotten descriptor numbers are handed out again.
THEOREM DepartureHolds ==
  ASSUME ~Reuse, NobodyInvites
  PROVE  Spec => []Departure
<1>1. Init => Departure
  <2> SUFFICES ASSUME Init PROVE Departure
    OBVIOUS
  <2>1. Uninvited
    BY EmptySeq DEF Init, Uninvited, Inviting
  <2>2. \A c \in Conns : pc[c] = "off" /\ Usernames(users) = {}
    BY DEF Init, EmptyTable, Usernames
  <2>3. \A c \in Conns : Leaving(c)
    BY <2>2 DEF Leaving, OwnRequest, TakesItsOwn, TakingOut, ClosesLast, ClosedDeparts,
       Recorded, Serving, Identifying, ChangingStatus, Notifying, Disconnecting,
       CreatingRoom, EnteringRoom, Inviting
  <2> QED BY <2>1, <2>3 DEF Departure
<1>2. Departure /\ Introduction /\ Registration /\ IInv /\ IInv' /\ [Next]_vars => Departure'
  BY DepartureKept
<1> QED BY <1>1, <1>2, Invariance, RegistrationHolds, IntroductionHolds, PTL DEF Spec

\* Once the server rests no thread has anybody left to take out.
LEMMA QuietLeavesNobody ==
  ASSUME IInv, Owned, Departure
  PROVE  NoGhosts
<1>1. SUFFICES ASSUME Quiet, NEW u \in UsersOf(users), fdt[u.fd] = None
               PROVE  FALSE
  BY DEF NoGhosts
<1>2. u.name \in Usernames(users) /\ u.fd = users.byName[u.name].fd
  BY DEF UsersOf, FindByName
<1>3. PICK c \in Conns : fdOf[c] = users.byName[u.name].fd
  BY <1>2 DEF Owned
<1>4. Departs(c)
  BY <1>1, <1>2, <1>3 DEF Departure, Leaving, ClosedDeparts, Recorded
<1> QED BY <1>1, <1>4 DEF Quiet, Departs, OnItsWayOut, TakingOut, Notifying

(* Once the server rests every name belongs to an open socket, in every
   execution without INVITE in which only forgotten numbers are handed out again:
   a disconnected client's thread may register a name for the descriptor just
   closed, and then takes it out itself, when it cannot send its SUCCESS
   (message_handler.c:195).                                                 *)
THEOREM NoGhostsHolds ==
  ASSUME ~Reuse, NobodyInvites
  PROVE  Spec => []NoGhosts
<1>1. IInv /\ Introduction /\ Departure => NoGhosts
  BY QuietLeavesNobody DEF Introduction
<1> QED BY <1>1, DepartureHolds, IntroductionHolds, Invariance, PTL

-----------------------------------------------------------------------------
(* What clients know is true.  A handler learns a user's status, changes it and
   announces it in separate critical sections; the announcements about one name
   are made by one thread as long as nobody else takes the name out.  That
   others do, when a broadcast fails, is what the hypothesis excludes: the
   eviction goes by a name that may have passed to another client meanwhile. *)

NobodyIsEvicted == \A c \in Conns : pc[c] \notin {"evict_rooms", "evict_user"}

\* The places of a thread that serves an IDENTIFY.
IdentifyPlaces == {"reply"} \cup Identifying \cup Notifying \cup Disconnecting
KeepsToIdentify(c) ==
  pc[c] \in Serving \ IdentifyPlaces => Req(c).type # "IDENTIFY"

\* Thread c's own user is called n and has status s.
OwnStatus(c, n, s) == Recorded(c, n) /\ users.byName[n].status = s

\* A thread about to announce that it has come in, or what its status is.
ComesIn(c) ==
  pc[c] = "reply" /\ loc[c].reply \notin Fatal /\ Req(c).type = "IDENTIFY"
Announcing(c) == pc[c] \in Telling /\ loc[c].note.type \in {"NEW_USER", "NEW_STATUS"}

\* It speaks of its own user and says what the table says.
SpeaksTheTruth(c) ==
  /\ ComesIn(c) => OwnStatus(c, Wanted(c), "ACTIVE")
  /\ pc[c] = "st_change" => Recorded(c, loc[c].me.name)
  /\ pc[c] = "st_rooms" => OwnStatus(c, loc[c].me.name, Req(c).status)
  /\ Announcing(c) => OwnStatus(c, loc[c].note.name, loc[c].note.status)
  /\ TakingOut(c) => Recorded(c, loc[c].gone.name)
  /\ pc[c] \in Telling /\ loc[c].note.type = "DISCONNECTED"
       => loc[c].note.name = loc[c].gone.name

\* A client that is there to listen, on thread d's connection.
Hears(d) == fdOf[d] # 0 /\ fdt[fdOf[d]] = d /\ peer[d] = "here"

\* It has heard nothing before it comes in, and does not come in twice.
HearsFromTheStart(d) ==
  peer[d] = "away" \/ (Hears(d) /\ pc[d] # "dc_close" /\ \A n : ~Recorded(d, n))
    => \A n \in Names : seen[d][n] = "unheard"

\* A thread that will still correct what others know of its user.
Corrects(c) == ComesIn(c) \/ pc[c] = "st_rooms" \/ Announcing(c) \/ OnItsWayOut(c)

\* What d has heard of others is true, or about to be corrected.
KnowsTheTruth(d) ==
  Hears(d) /\ (\E m : Recorded(d, m)) =>
    \A n \in Usernames(users) :
      \/ seen[d][n] \in {"unheard", users.byName[n].status}
      \/ \E c \in Conns : Recorded(c, n) /\ (c = d \/ Corrects(c))

\* The inductive invariant behind NotificationsAccurate.
Accuracy ==
  \A c \in Conns : /\ KeepsToIdentify(c) /\ SpeaksTheTruth(c)
                   /\ HearsFromTheStart(c) /\ KnowsTheTruth(c)

-----------------------------------------------------------------------------
\* Where threads go.

\* The steps of a thread at the places of an IDENTIFY.
IdentifyStep(c) ==
  \/ ReplyFatal(c) \/ ReplyFails(c) \/ ReplySent(c)
  \/ IdentifyFindFd(c) \/ IdentifyFindName(c) \/ IdentifyAdd(c)
  \/ NotifySize(c) \/ NotifyEach(c) \/ EvictNext(c) \/ EvictFromRooms(c)
  \/ EvictFromUsers(c) \/ EvictDone(c) \/ DisconnectFind(c)
  \/ DisconnectFromRooms(c) \/ DisconnectFromUsers(c) \/ DisconnectClose(c)

LEMMA IdentifyPlacesLead ==
  ASSUME NEW c \in Conns, Thread(c), pc[c] \in IdentifyPlaces
  PROVE  IdentifyStep(c)
<1> USE DEF IdentifyPlaces, Identifying, Notifying, Disconnecting
<1>1. CASE ConnectionStep(c)
  BY <1>1 DEF IdentifyStep, ConnectionStep, RecvCall, RecvReturns, RecvEnds, Extract, BadJson,
       GateOpens, GateCloses
<1>2. CASE HandlerStep(c)
  BY <1>2 DEF IdentifyStep, HandlerStep, StatusFind, StatusChange, StatusChangeInRooms,
       UsersList, TextFindAddressee, TextCompare, TextFindSender, TextSend,
       PublicTextFindSender
<1>3. CASE RoomStep(c)
  BY <1>3 DEF RoomStep, NewRoomContains, NewRoomAdd, NewRoomFindCreator, NewRoomAddCreator,
       RoomContains, RoomFindSender, RoomMember, InviteResolve, InviteIsMember,
       InviteIsGuest, InviteAdd, InviteSend, JoinIsGuest, JoinMove, RoomUsersList,
       RoomNotify, LeaveRoom, LeaveDropRoom
<1> QED BY <1>1, <1>2, <1>3 DEF Thread

\* A thread leaves them for a malformed line, or with the answer to a JOIN_ROOM.
LEMMA LeavesIdentify ==
  ASSUME IInv, NEW c \in Conns, Thread(c), pc[c] \in IdentifyPlaces,
         pc'[c] \in Serving \ IdentifyPlaces
  PROVE  Req(c).type # "IDENTIFY" /\ loc' = loc
<1>1. pc \in [Conns -> Places]
  BY DEF IInv, TypeOK
<1>2. \A q : Goto(c, q) => pc'[c] = q
  BY <1>1 DEF Goto
<1>3. {"next", "end", "overrun", "evict", "notify_size", "notify_each", "evict_rooms",
       "evict_user", "dc_find", "dc_rooms", "dc_users", "dc_close", "reply", "id_find_name",
       "id_add"} \cap (Serving \ IdentifyPlaces) = {}
  BY DEF Serving, IdentifyPlaces, Identifying, Notifying, Disconnecting, CreatingRoom,
     EnteringRoom, Inviting, ChangingStatus
<1> USE DEF Done, Reply, Broadcast, Disconnect
<1>4. CASE ReplyFatal(c)
  BY <1>2, <1>3, <1>4 DEF ReplyFatal
<1>5. CASE ReplySent(c)
  BY <1>2, <1>3, <1>5 DEF ReplySent
<1>6. CASE ReplyFails(c) \/ IdentifyFindFd(c) \/ IdentifyFindName(c) \/ IdentifyAdd(c)
  BY <1>2, <1>3, <1>6 DEF ReplyFails, IdentifyFindFd, IdentifyFindName, IdentifyAdd
<1>7. CASE \/ NotifySize(c) \/ NotifyEach(c) \/ EvictFromRooms(c)
           \/ EvictFromUsers(c) \/ EvictDone(c)
  BY <1>2, <1>3, <1>7 DEF NotifySize, NotifyEach, EvictFromRooms, EvictFromUsers, EvictDone
<1>8. CASE EvictNext(c)
  <2>1. pc'[c] \in {"evict", "evict_rooms"}
    BY <1>2, <1>8 DEF EvictNext
  <2> QED BY <1>3, <2>1
<1>9. CASE \/ DisconnectFind(c) \/ DisconnectFromRooms(c) \/ DisconnectFromUsers(c)
           \/ DisconnectClose(c)
  BY <1>2, <1>3, <1>9 DEF DisconnectFind, DisconnectFromRooms, DisconnectFromUsers,
     DisconnectClose
<1> QED BY <1>4, <1>5, <1>6, <1>7, <1>8, <1>9, IdentifyPlacesLead DEF IdentifyStep

\* Which steps lead to the change of a status.
LEMMA WhoChanges ==
  ASSUME IInv, NEW c \in Conns, Thread(c), pc'[c] \in {"st_change", "st_rooms"}
  PROVE  StatusFind(c) \/ StatusChange(c)
<1>1. pc \in [Conns -> Places]
  BY DEF IInv, TypeOK
<1>2. \A q : Goto(c, q) => pc'[c] = q
  BY <1>1 DEF Goto
<1>3. /\ \A req : Entry(req) \notin {"st_change", "st_rooms"}
      /\ \A req : HandlerOf(req) \notin {"st_change", "st_rooms"}
  BY DEF Entry, HandlerOf
<1> USE DEF Done, Reply, Broadcast, Disconnect
<1>4. CASE Extract(c) \/ GateOpens(c)
  BY <1>2, <1>3, <1>4 DEF Extract, GateOpens
<1>5. CASE ConnectionStep(c) /\ ~(Extract(c) \/ GateOpens(c))
  BY <1>1, <1>2, <1>5 DEF ConnectionStep, RecvCall, RecvReturns, RecvEnds, BadJson, GateCloses, ReplyFatal,
       ReplyFails, ReplySent, NotifySize, NotifyEach, EvictNext, EvictFromRooms,
       EvictFromUsers, EvictDone, DisconnectFind, DisconnectFromRooms,
       DisconnectFromUsers, DisconnectClose
<1>6. CASE HandlerStep(c)
  BY <1>2, <1>6 DEF HandlerStep, IdentifyFindFd, IdentifyFindName, IdentifyAdd,
       StatusChangeInRooms, UsersList, TextFindAddressee, TextCompare,
       TextFindSender, TextSend, PublicTextFindSender
<1>7. CASE RoomMember(c)
  <2>1. Req(c).type \in RoomRequests
    BY <1>7, ThreadFacts, HoldsAt DEF RoomMember, Req, EnteringRoom, Holds
  <2> QED BY <1>2, <1>7, <2>1 DEF RoomMember, RoomRequests
<1>8. CASE RoomStep(c) /\ ~RoomMember(c)
  BY <1>2, <1>8 DEF RoomStep, NewRoomContains, NewRoomAdd, NewRoomFindCreator, NewRoomAddCreator,
       RoomContains, RoomFindSender, InviteResolve, InviteIsMember, InviteIsGuest,
       InviteAdd, InviteSend, JoinIsGuest, JoinMove, RoomUsersList, RoomNotify,
       LeaveRoom, LeaveDropRoom
<1> QED BY <1>4, <1>5, <1>6, <1>7, <1>8 DEF Thread

\* A thread about to close its socket does that next.
LEMMA ClosersClose ==
  ASSUME NEW c \in Conns, Thread(c), pc[c] = "dc_close"
  PROVE  DisconnectClose(c)
  BY IdentifyPlacesLead DEF IdentifyPlaces, Disconnecting, IdentifyStep, ReplyFatal, ReplyFails,
     ReplySent, IdentifyFindFd, IdentifyFindName, IdentifyAdd, NotifySize, NotifyEach,
     EvictNext, EvictFromRooms, EvictFromUsers, EvictDone, DisconnectFind,
     DisconnectFromRooms, DisconnectFromUsers

\* A request a thread goes on serving stays the same.
LEMMA RequestStays ==
  ASSUME IInv, IInv', Departure, NEW c \in Conns, Thread(c), pc[c] \in Serving,
         pc'[c] \in Serving
  PROVE  loc'[c].req = loc[c].req
<1>1. ~Extract(c)
  BY DEF Extract, Serving, Identifying, ChangingStatus, Notifying, Disconnecting, CreatingRoom,
     EnteringRoom, Inviting
<1>2. pc[c] \notin Inviting /\ OwnRequest(c)
  BY DEF Departure, Uninvited, Leaving
<1>3. ~(RoomMember(c) /\ Req(c).type = "INVITE")
  BY <1>2 DEF OwnRequest, Uninviting, Req
<1>4. KeepsRequest(c)
  BY <1>1, <1>2, <1>3, StepsKeepRequest
<1>5. loc'[c] # Fresh
  <2>1. loc'[c].from \in Conns
    BY DEF IInv, LocalsReady, Holds
  <2>2. Fresh.from = None
    BY DEF Fresh
  <2> QED BY <2>1, <2>2, ChatAssumption
<1> QED BY <1>4, <1>5 DEF KeepsRequest

\* So an IDENTIFY never reaches another type's handler.
LEMMA KeepsToIdentifyKept ==
  ASSUME IInv, IInv', Departure, NEW c \in Conns, Thread(c), KeepsToIdentify(c)
  PROVE  KeepsToIdentify(c)'
<1>1. SUFFICES ASSUME pc'[c] \in Serving \ IdentifyPlaces
               PROVE  loc'[c].req.type # "IDENTIFY"
  BY DEF KeepsToIdentify, Req
<1>2. CASE pc[c] \in IdentifyPlaces
  BY <1>1, <1>2, LeavesIdentify DEF Req
<1>3. CASE pc[c] \in Serving \ IdentifyPlaces
  BY <1>1, <1>3, RequestStays DEF KeepsToIdentify, Req
<1>4. CASE pc[c] \notin Serving
  <2>1. Extract(c)
    BY <1>1, <1>4, OnlyExtractStarts
  <2> DEFINE line == Head(buf[c])
             x == IF Entry(line.req) = "reply" THEN "INVALID" ELSE None
             m == [Fresh EXCEPT !.req = line.req, !.from = line.from, !.dfd = fdOf[c], !.reply = x]
  <2>2. pc'[c] = Entry(line.req)
    BY <2>1 DEF Extract, Goto, IInv, TypeOK
  <2>3. Entry(line.req) # "next"
    BY <1>1, <2>2 DEF Serving, Identifying, ChangingStatus, Notifying, Disconnecting,
       CreatingRoom, EnteringRoom, Inviting
  <2>4. loc'[c] = m
    BY <2>1, <2>3 DEF Extract, IInv, TypeOK
  <2>5. m.req = line.req
    BY DEF Fresh
  <2>6. line.req.type = "IDENTIFY" => Entry(line.req) = "id_find_fd"
    BY DEF Entry
  <2> QED BY <1>1, <2>2, <2>4, <2>5, <2>6 DEF IdentifyPlaces, Identifying
<1>5. IdentifyPlaces \subseteq Serving
  BY DEF IdentifyPlaces, Serving
<1> QED BY <1>2, <1>3, <1>4

\* A thread that comes in has just been added.
LEMMA WhoComesIn ==
  ASSUME IInv, IInv', Departure, NEW c \in Conns, Thread(c), KeepsToIdentify(c), ComesIn(c)'
  PROVE  /\ IdentifyAdd(c) /\ ~ContainsName(users, Wanted(c)) /\ loc'[c].req = loc[c].req
         /\ users' = AddUser(users, Wanted(c), fdOf[c], "ACTIVE")
<1>1. pc \in [Conns -> Places] /\ loc \in [Conns -> Locals]
  BY DEF IInv, TypeOK
<1>2. pc'[c] = "reply" /\ loc'[c].reply \notin Fatal /\ loc'[c].req.type = "IDENTIFY"
  BY DEF ComesIn, Req
<1>3. "reply" \in Serving
  BY DEF Serving
<1>4. pc[c] \in Serving
  <2>1. SUFFICES ASSUME pc[c] \notin Serving PROVE FALSE
    OBVIOUS
  <2>2. Extract(c)
    BY <1>2, <1>3, <2>1, OnlyExtractStarts
  <2> DEFINE line == Head(buf[c])
             m == [Fresh EXCEPT !.req = line.req, !.from = line.from, !.dfd = fdOf[c],
                     !.reply = "INVALID"]
  <2>3. Entry(line.req) = "reply"
    BY <1>1, <1>2, <2>2 DEF Extract, Goto
  <2>4. loc'[c] = m
    BY <1>1, <2>2, <2>3 DEF Extract
  <2>5. m.reply = "INVALID"
    BY DEF Fresh
  <2> QED BY <1>2, <2>4, <2>5 DEF Fatal
<1>5. loc'[c].req = loc[c].req
  BY <1>2, <1>3, <1>4, RequestStays
<1>6. pc[c] \in IdentifyPlaces
  BY <1>2, <1>4, <1>5 DEF KeepsToIdentify, Req
<1>7. IdentifyStep(c)
  BY <1>6, IdentifyPlacesLead
<1>8. \A q : Goto(c, q) => pc'[c] = q
  BY <1>1 DEF Goto
<1>9. \A x : Reply(c, x) => loc'[c].reply = x
  BY <1>1 DEF Reply, Locals
<1>10. IdentifyFindFd(c) \/ IdentifyFindName(c) \/ IdentifyAdd(c)
  <2>1. CASE ReplyFatal(c) \/ ReplyFails(c) \/ ReplySent(c)
    BY <1>2, <1>8, <2>1 DEF ReplyFatal, ReplyFails, ReplySent, Done, Broadcast, Disconnect
  <2>2. CASE \/ NotifySize(c) \/ NotifyEach(c) \/ EvictFromRooms(c)
             \/ EvictFromUsers(c) \/ EvictDone(c)
    BY <1>2, <1>8, <2>2 DEF NotifySize, NotifyEach, EvictFromRooms, EvictFromUsers, EvictDone, Done
  <2>3. CASE EvictNext(c)
    <3>1. pc'[c] \in {"evict", "evict_rooms"}
      BY <1>8, <2>3 DEF EvictNext
    <3> QED BY <1>2, <3>1
  <2>4. CASE \/ DisconnectFind(c) \/ DisconnectFromRooms(c) \/ DisconnectFromUsers(c)
             \/ DisconnectClose(c)
    BY <1>2, <1>8, <2>4 DEF DisconnectFind, DisconnectFromRooms, DisconnectFromUsers,
       DisconnectClose
  <2> QED BY <1>7, <2>1, <2>2, <2>3, <2>4 DEF IdentifyStep
<1>11. ~IdentifyFindFd(c) /\ ~IdentifyFindName(c)
  BY <1>2, <1>8, <1>9 DEF IdentifyFindFd, IdentifyFindName, Done, Fatal
<1>12. ~Done(c)
  BY <1>2, <1>8 DEF Done
<1> QED BY <1>5, <1>10, <1>11, <1>12 DEF IdentifyAdd

-----------------------------------------------------------------------------
\* Who is recorded stays so.

\* A step that neither evicts nor disconnects takes nobody out; one changes a
\* status.
LEMMA EntriesStay ==
  ASSUME NEW c \in Conns, Thread(c), ~EvictFromUsers(c), ~DisconnectFromUsers(c),
         NEW n \in Usernames(users)
  PROVE  /\ n \in Usernames(users') /\ users'.byName[n].fd = users.byName[n].fd
         /\ ~StatusChange(c) => users'.byName[n].status = users.byName[n].status
<1>1. CASE users' = users
  BY <1>1
<1>2. CASE StatusChange(c)
  BY <1>2, ChangeStatusEntries DEF StatusChange
<1>3. CASE IdentifyAdd(c) /\ users' # users
  <2>1. users' = AddUser(users, Wanted(c), fdOf[c], "ACTIVE")
    BY <1>3 DEF IdentifyAdd
  <2>2. n \in Usernames(users') /\ users'.byName[n] = users.byName[n]
    BY <2>1 DEF AddUser, Usernames, ContainsName
  <2> QED BY <2>2
<1>4. CASE ConnectionStep(c)
  <2>1. users' = users
    BY <1>4 DEF ConnectionStep, RecvCall, RecvReturns, RecvEnds, Extract, BadJson,
       GateOpens, GateCloses, ReplyFatal, ReplyFails, ReplySent, NotifySize, NotifyEach,
       EvictNext, EvictFromRooms, EvictDone, DisconnectFind, DisconnectFromRooms,
       DisconnectClose, OnlyThread, OnlyThreadAndTables, OnlyThreadAndSeen, tabVars
  <2> QED BY <1>1, <2>1
<1>5. CASE HandlerStep(c) /\ ~StatusChange(c) /\ ~IdentifyAdd(c)
  <2>1. users' = users
    BY <1>5 DEF HandlerStep, IdentifyFindFd, IdentifyFindName, StatusFind, StatusChangeInRooms,
       UsersList, TextFindAddressee, TextCompare, TextFindSender, TextSend,
       PublicTextFindSender, OnlyThread, OnlyThreadAndTables, tabVars
  <2> QED BY <1>1, <2>1
<1>6. CASE RoomStep(c)
  <2>1. users' = users
    BY <1>6 DEF RoomStep, NewRoomContains, NewRoomAdd, NewRoomFindCreator, NewRoomAddCreator,
       RoomContains, RoomFindSender, RoomMember, InviteResolve, InviteIsMember,
       InviteIsGuest, InviteAdd, InviteSend, JoinIsGuest, JoinMove, RoomUsersList,
       RoomNotify, LeaveRoom, LeaveDropRoom, OnlyThread, OnlyThreadAndTables, tabVars
  <2> QED BY <1>1, <2>1
<1> QED BY <1>1, <1>2, <1>3, <1>4, <1>5, <1>6 DEF Thread

\* Descriptors of threads that have come in differ.
LEMMA OneRecord ==
  ASSUME IInv, Registration, NEW c \in Conns, NEW d \in Conns, NEW n,
         Recorded(c, n), Recorded(d, n)
  PROVE  c = d
<1>1. fdOf[c] \in Fds /\ 0 \notin Fds
  BY ChatAssumption DEF IInv, TypeOK, Table, Recorded, Fds
<1> QED BY <1>1 DEF Recorded, Registration, OwnDescriptors

\* One descriptor is one name.
LEMMA OneName ==
  ASSUME Registration, NEW c \in Conns, NEW n, NEW m, Recorded(c, n), Recorded(c, m)
  PROVE  n = m
  BY RecordedIsIndexed

\* Only a thread itself takes its user out, or changes its status.
LEMMA RecordStays ==
  ASSUME IInv, Registration, Departure, Accuracy, NobodyIsEvicted, NEW c \in Conns, Thread(c),
         NEW d \in Conns, NEW n, Recorded(d, n), d # c \/ ~DisconnectFromUsers(c)
  PROVE  /\ Recorded(d, n)'
         /\ d # c \/ ~StatusChange(c) => users'.byName[n].status = users.byName[n].status
<1>1. fdOf' = fdOf /\ n \in Usernames(users)
  BY ThreadsOnlyClose DEF SocketsStay, Recorded
<1>2. CASE DisconnectFromUsers(c)
  <2>1. Recorded(c, loc[c].gone.name)
    BY <1>2 DEF DisconnectFromUsers, Accuracy, SpeaksTheTruth, TakingOut
  <2>2. n # loc[c].gone.name
    BY <1>2, <2>1, OneRecord
  <2>3. /\ n \in Usernames(users') /\ users'.byName[n] = users.byName[n]
    BY <1>1, <1>2, <2>2, RemoveUserEntries DEF DisconnectFromUsers
  <2> QED BY <1>1, <2>3 DEF Recorded
<1>3. CASE ~DisconnectFromUsers(c)
  <2>1. /\ n \in Usernames(users') /\ users'.byName[n].fd = users.byName[n].fd
        /\ ~StatusChange(c) => users'.byName[n].status = users.byName[n].status
    BY <1>1, <1>3, EntriesStay DEF EvictFromUsers, NobodyIsEvicted
  <2>2. Recorded(d, n)'
    BY <1>1, <2>1 DEF Recorded
  <2>3. ASSUME StatusChange(c), d # c
        PROVE  users'.byName[n].status = users.byName[n].status
    <3>1. users' = ChangeStatusByFd(users, fdOf[c], Req(c).status)
      BY <2>3 DEF StatusChange
    <3>2. ContainsFd(users, fdOf[c]) => n # users.byFd[fdOf[c]]
      <4>1. SUFFICES ASSUME ContainsFd(users, fdOf[c]), n = users.byFd[fdOf[c]] PROVE FALSE
        OBVIOUS
      <4>2. Recorded(c, n)
        BY <1>1, <4>1 DEF Registration, OneNamePerClient, Agrees, Coherent, Recorded, ContainsFd
      <4> QED BY <2>3, <4>2, OneRecord
    <3> QED BY <1>1, <3>1, <3>2, ChangeStatusEntries
  <2> QED BY <2>1, <2>2, <2>3
<1> QED BY <1>2, <1>3

-----------------------------------------------------------------------------
\* A thread speaks of its own user and says what the table says.

\* What the table tells a thread about its own descriptor is about its own user.
LEMMA FindsItsOwn ==
  ASSUME IInv, Registration, NEW c \in Conns, ContainsFd(users, fdOf[c])
  PROVE  /\ OwnStatus(c, FindByFd(users, fdOf[c]).name, FindByFd(users, fdOf[c]).status)
         /\ FindByFd(users, fdOf[c]) \in UserCopy
<1>1. Sound(users)
  BY DEF IInv, TypeOK, TablesCoherent, UsersCoherent, Sound
<1>2. OwnStatus(c, FindByFd(users, fdOf[c]).name, FindByFd(users, fdOf[c]).status)
  BY DEF Registration, OneNamePerClient, Agrees, Coherent, OwnStatus, Recorded, FindByFd,
     FindByName, ContainsFd
<1> QED BY <1>1, <1>2, LookupsYieldUsers

\* A thread that finds its user to take it out says so of that user.
LEMMA FindsItsOwnToGo ==
  ASSUME IInv, Registration, Departure, NEW c \in Conns, DisconnectFind(c),
         ContainsFd(users, loc[c].dfd)
  PROVE  /\ loc'[c].note.type = "DISCONNECTED" /\ loc'[c].note.name = loc'[c].gone.name
         /\ Recorded(c, loc[c].gone.name)'
<1>1. /\ loc[c].dfd = fdOf[c] /\ users' = users /\ fdOf' = fdOf /\ pc[c] = "dc_find"
      /\ loc \in [Conns -> Locals] /\ loc[c] \in Locals
  BY DEF DisconnectFind, OnlyThread, tabVars, Departure, Leaving, OwnRequest, Serving,
     Disconnecting, IInv, TypeOK
<1> DEFINE u == FindByFd(users, fdOf[c])
           m == [loc[c] EXCEPT !.gone = u]
<1>2. u \in UserCopy /\ Recorded(c, u.name)
  BY <1>1, FindsItsOwn DEF OwnStatus
<1>3. loc'[c] = [m EXCEPT !.note = [type |-> "DISCONNECTED", name |-> u.name, status |-> "out"]]
  BY <1>1 DEF DisconnectFind
<1> HIDE DEF u
<1>4. m \in Locals
  BY <1>1, <1>2, UpdateLocals
<1>6. m.gone = u
  BY <1>1 DEF Locals
<1> HIDE DEF m
<1>5. /\ loc'[c].note.type = "DISCONNECTED" /\ loc'[c].note.name = u.name
      /\ loc'[c].gone = u
  BY <1>3, <1>4, <1>6 DEF Locals
<1> QED BY <1>1, <1>2, <1>5 DEF Recorded

\* The moving thread: it has come in, ...
LEMMA ComingInSpeaks ==
  ASSUME IInv, IInv', Departure, NEW c \in Conns, Thread(c), KeepsToIdentify(c), ComesIn(c)'
  PROVE  OwnStatus(c, Wanted(c), "ACTIVE")'
<1>1. fdOf' = fdOf
  BY ThreadsOnlyClose DEF SocketsStay
<1>2. /\ ~ContainsName(users, Wanted(c)) /\ loc'[c].req = loc[c].req
      /\ users' = AddUser(users, Wanted(c), fdOf[c], "ACTIVE")
  BY WhoComesIn
<1>3. PICK w : w = Wanted(c)
  OBVIOUS
<1>4. Wanted(c)' = w
  BY <1>2, <1>3 DEF Wanted, Req
<1>5. w \in Usernames(users') /\ users'.byName[w] = [fd |-> fdOf[c], status |-> "ACTIVE"]
  BY <1>2, <1>3, AddUserEntries DEF ContainsName, Usernames
<1> QED BY <1>1, <1>4, <1>5 DEF OwnStatus, Recorded

\* ... goes on to change its status, ...
LEMMA ChangingSpeaks ==
  ASSUME IInv, Registration, NEW c \in Conns, Thread(c), SpeaksTheTruth(c)
  PROVE  /\ pc'[c] = "st_change" => Recorded(c, loc[c].me.name)'
         /\ pc'[c] = "st_rooms" => OwnStatus(c, loc[c].me.name, loc[c].req.status)'
<1>1. /\ fdOf' = fdOf /\ pc \in [Conns -> Places] /\ loc \in [Conns -> Locals]
      /\ loc[c] \in Locals
  BY ThreadsOnlyClose DEF SocketsStay, IInv, TypeOK
<1>2. CASE StatusFind(c)
  <2>1. pc'[c] # "st_rooms" /\ users' = users
    BY <1>1, <1>2 DEF StatusFind, Goto, Done, OnlyThread, tabVars
  <2>2. ASSUME pc'[c] = "st_change" PROVE Recorded(c, loc[c].me.name)'
    <3>1. ContainsFd(users, fdOf[c]) /\ loc' = [loc EXCEPT ![c].me = FindByFd(users, fdOf[c])]
      BY <1>1, <1>2, <2>2 DEF StatusFind, Goto, Done
    <3>2. loc'[c].me = FindByFd(users, fdOf[c])
      BY <1>1, <3>1 DEF Locals
    <3>3. Recorded(c, FindByFd(users, fdOf[c]).name)
      BY <3>1, FindsItsOwn DEF OwnStatus
    <3> QED BY <1>1, <2>1, <3>2, <3>3 DEF Recorded
  <2> QED BY <2>1, <2>2
<1>3. CASE StatusChange(c)
  <2>1. pc'[c] = "st_rooms" /\ pc[c] = "st_change" /\ loc' = loc
    BY <1>1, <1>3 DEF StatusChange, Goto
  <2>0. PICK n : n = loc[c].me.name
    OBVIOUS
  <2>2. Recorded(c, n)
    BY <2>0, <2>1 DEF SpeaksTheTruth
  <2>3. ContainsFd(users, fdOf[c]) /\ users.byFd[fdOf[c]] = n /\ n \in Usernames(users)
    BY <2>2 DEF Registration, OneNamePerClient, Agrees, Recorded
  <2>4. users' = ChangeStatusByFd(users, fdOf[c], Req(c).status)
    BY <1>3 DEF StatusChange
  <2>5. /\ n \in Usernames(users') /\ users'.byName[n].fd = users.byName[n].fd
        /\ users'.byName[n].status = Req(c).status
    BY <2>3, <2>4, ChangeStatusEntries
  <2>6. OwnStatus(c, loc[c].me.name, loc[c].req.status)'
    BY <1>1, <2>0, <2>1, <2>2, <2>5 DEF OwnStatus, Recorded, Req
  <2> QED BY <2>1, <2>6
<1>4. CASE pc'[c] \notin {"st_change", "st_rooms"}
  BY <1>4
<1> QED BY <1>2, <1>3, <1>4, WhoChanges

\* ... announces it, ...
LEMMA AnnouncingSpeaks ==
  ASSUME IInv, Registration, Departure, NEW c \in Conns, Thread(c), SpeaksTheTruth(c),
         pc'[c] \in Telling
  PROVE  /\ loc'[c].note.type \in {"NEW_USER", "NEW_STATUS"}
              => OwnStatus(c, loc[c].note.name, loc[c].note.status)'
         /\ loc'[c].note.type = "DISCONNECTED" => loc'[c].note.name = loc'[c].gone.name
<1>1. /\ fdOf' = fdOf /\ pc \in [Conns -> Places] /\ loc \in [Conns -> Locals]
      /\ loc[c] \in Locals
  BY ThreadsOnlyClose DEF SocketsStay, IInv, TypeOK
<1>2. \A x : Broadcast(c, x) => loc'[c].note = x
  BY <1>1 DEF Broadcast, Locals
<1>3. ASSUME users' = users, NEW n, NEW s, OwnStatus(c, n, s)
      PROVE  n \in Usernames(users') /\ users'.byName[n].fd = fdOf'[c] /\ users'.byName[n].status = s
  BY <1>1, <1>3 DEF OwnStatus, Recorded
<1>4. CASE ReplySent(c)
  <2>1. Req(c).type = "IDENTIFY"
    <3>1. Req(c).type # "IDENTIFY" => pc'[c] \in {"room_notify", "next"}
      BY <1>1, <1>4 DEF ReplySent, Goto, Done
    <3> QED BY <3>1 DEF Telling
  <2>2. Broadcast(c, [type |-> "NEW_USER", name |-> Wanted(c), status |-> "ACTIVE"])
    BY <1>4, <2>1 DEF ReplySent, Wanted
  <2>3. loc'[c].note = [type |-> "NEW_USER", name |-> Wanted(c), status |-> "ACTIVE"]
    BY <1>2, <2>2
  <2>4. OwnStatus(c, Wanted(c), "ACTIVE") /\ users' = users
    BY <1>4, <2>1 DEF ReplySent, SpeaksTheTruth, ComesIn, OnlyThread, tabVars
  <2> QED BY <1>3, <2>3, <2>4 DEF OwnStatus, Recorded
<1>5. CASE StatusChangeInRooms(c)
  <2>1. loc'[c].note = [type |-> "NEW_STATUS", name |-> loc[c].me.name, status |-> Req(c).status]
    BY <1>2, <1>5 DEF StatusChangeInRooms
  <2>2. OwnStatus(c, loc[c].me.name, Req(c).status) /\ users' = users
    BY <1>5 DEF StatusChangeInRooms, SpeaksTheTruth
  <2> QED BY <1>3, <2>1, <2>2 DEF OwnStatus, Recorded
<1>6. CASE PublicTextFindSender(c)
  <2>1. ContainsFd(users, fdOf[c])
    <3>1. ~ContainsFd(users, fdOf[c]) => pc'[c] = "next"
      BY <1>1, <1>6 DEF PublicTextFindSender, Goto, Done
    <3> QED BY <3>1 DEF Telling
  <2> DEFINE u == FindByFd(users, fdOf[c])
             m == [loc[c] EXCEPT !.me = u]
  <2>2. loc'[c] = [m EXCEPT !.note = [type |-> "PUBLIC_TEXT_FROM",
                                      name |-> u.name, status |-> "unheard"]]
    BY <1>1, <1>6, <2>1 DEF PublicTextFindSender
  <2>3. m \in Locals
    BY <1>1, <2>1, FindsItsOwn, UpdateLocals
  <2> HIDE DEF m
  <2>4. loc'[c].note.type = "PUBLIC_TEXT_FROM"
    BY <2>2, <2>3 DEF Locals
  <2> QED BY <2>4
<1>7. CASE DisconnectFind(c)
  <2>1. ContainsFd(users, loc[c].dfd)
    <3>1. ~ContainsFd(users, loc[c].dfd) => pc'[c] = "dc_close"
      BY <1>1, <1>7 DEF DisconnectFind, Goto
    <3> QED BY <3>1 DEF Telling
  <2> QED BY <1>7, <2>1, FindsItsOwnToGo
<1>8. CASE NotifySize(c)
  <2>1. SamePlan(loc'[c], loc[c]) /\ users' = users /\ pc[c] \in Telling
    BY <1>8, PlanStays DEF NotifySize, OnlyThread, tabVars, Telling
  <2>2. loc'[c].note = loc[c].note /\ loc'[c].gone = loc[c].gone
    BY <2>1 DEF SamePlan
  <2>3. loc[c].note.type \in {"NEW_USER", "NEW_STATUS"}
          => OwnStatus(c, loc[c].note.name, loc[c].note.status)
    BY <2>1 DEF SpeaksTheTruth, Announcing
  <2>4. loc[c].note.type = "DISCONNECTED" => loc[c].note.name = loc[c].gone.name
    BY <2>1 DEF SpeaksTheTruth
  <2> QED BY <1>3, <2>1, <2>2, <2>3, <2>4 DEF OwnStatus, Recorded
<1> QED BY <1>4, <1>5, <1>6, <1>7, <1>8, WhoBroadcasts

\* ... and goes on to take its user out, who is still there.
LEMMA TakingOutSpeaks ==
  ASSUME IInv, Registration, Departure, Accuracy, NobodyIsEvicted, NEW c \in Conns, Thread(c),
         TakingOut(c)'
  PROVE  Recorded(c, loc[c].gone.name)'
<1>1. CASE DisconnectFind(c) /\ ContainsFd(users, loc[c].dfd)
  BY <1>1, FindsItsOwnToGo
<1>2. CASE TakingOut(c) /\ loc'[c].gone = loc[c].gone
  <2>1. ~DisconnectFromUsers(c)
    <3>1. DisconnectFromUsers(c) => pc'[c] = "dc_close"
      BY DEF DisconnectFromUsers, Goto, IInv, TypeOK
    <3> QED BY <3>1 DEF TakingOut, Notifying
  <2>0. PICK n : n = loc[c].gone.name
    OBVIOUS
  <2>2. Recorded(c, n)
    BY <1>2, <2>0 DEF Accuracy, SpeaksTheTruth
  <2>3. Recorded(c, n)'
    BY <2>1, <2>2, RecordStays
  <2> QED BY <1>2, <2>0, <2>3 DEF Recorded
<1> QED BY <1>1, <1>2, WhoTakesOut

LEMMA MoverSpeaks ==
  ASSUME IInv, IInv', Registration, Departure, Accuracy, NobodyIsEvicted,
         NEW c \in Conns, Thread(c)
  PROVE  SpeaksTheTruth(c)'
<1>1. KeepsToIdentify(c) /\ SpeaksTheTruth(c)
  BY DEF Accuracy
<1>2. (ComesIn(c) => OwnStatus(c, Wanted(c), "ACTIVE"))'
  BY <1>1, ComingInSpeaks
<1>3. /\ (pc[c] = "st_change" => Recorded(c, loc[c].me.name))'
      /\ (pc[c] = "st_rooms" => OwnStatus(c, loc[c].me.name, Req(c).status))'
  BY <1>1, ChangingSpeaks DEF Req
<1>4. /\ (Announcing(c) => OwnStatus(c, loc[c].note.name, loc[c].note.status))'
      /\ (pc[c] \in Telling /\ loc[c].note.type = "DISCONNECTED"
            => loc[c].note.name = loc[c].gone.name)'
  BY <1>1, AnnouncingSpeaks DEF Announcing
<1>5. (TakingOut(c) => Recorded(c, loc[c].gone.name))'
  BY TakingOutSpeaks
<1> QED BY <1>2, <1>3, <1>4, <1>5 DEF SpeaksTheTruth

\* The others: their users and their locals are no matter to the moving thread.
LEMMA OthersSpeak ==
  ASSUME IInv, Registration, Departure, Accuracy, NobodyIsEvicted,
         NEW c \in Conns, Thread(c), NEW d \in Conns, d # c
  PROVE  KeepsToIdentify(d)' /\ SpeaksTheTruth(d)'
<1>1. pc'[d] = pc[d] /\ loc'[d] = loc[d]
  BY OthersStandStill
<1>2. KeepsToIdentify(d) /\ SpeaksTheTruth(d)
  BY DEF Accuracy
<1>3. \A n : Recorded(d, n) => Recorded(d, n)'
  BY RecordStays
<1>4. \A n, s : OwnStatus(d, n, s) => OwnStatus(d, n, s)'
  BY RecordStays DEF OwnStatus
<1>5. /\ (ComesIn(d) => OwnStatus(d, Wanted(d), "ACTIVE"))'
      /\ (pc[d] = "st_change" => Recorded(d, loc[d].me.name))'
      /\ (pc[d] = "st_rooms" => OwnStatus(d, loc[d].me.name, Req(d).status))'
  <2>1. (ComesIn(d) => OwnStatus(d, Wanted(d), "ACTIVE"))'
    <3>1. ComesIn(d)' => ComesIn(d)
      BY <1>1 DEF ComesIn, Req
    <3>2. Wanted(d)' = Wanted(d)
      BY <1>1 DEF Wanted, Req
    <3>3. ComesIn(d) => OwnStatus(d, Wanted(d), "ACTIVE")
      BY <1>2 DEF SpeaksTheTruth
    <3>4. PICK w : w = Wanted(d)
      OBVIOUS
    <3>5. ComesIn(d)' => OwnStatus(d, w, "ACTIVE")'
      BY <1>4, <3>1, <3>3, <3>4
    <3> QED BY <3>2, <3>4, <3>5 DEF OwnStatus, Recorded
  <2>2. (pc[d] = "st_change" => Recorded(d, loc[d].me.name))'
    BY <1>1, <1>2, <1>3 DEF SpeaksTheTruth, Recorded
  <2>3. (pc[d] = "st_rooms" => OwnStatus(d, loc[d].me.name, Req(d).status))'
    BY <1>1, <1>2, <1>4 DEF SpeaksTheTruth, Req, OwnStatus, Recorded
  <2> QED BY <2>1, <2>2, <2>3
<1>6. /\ (Announcing(d) => OwnStatus(d, loc[d].note.name, loc[d].note.status))'
      /\ (TakingOut(d) => Recorded(d, loc[d].gone.name))'
      /\ (pc[d] \in Telling /\ loc[d].note.type = "DISCONNECTED"
            => loc[d].note.name = loc[d].gone.name)'
  BY <1>1, <1>2, <1>3, <1>4 DEF SpeaksTheTruth, Announcing, TakingOut, OwnStatus, Recorded
<1>7. KeepsToIdentify(d)'
  BY <1>1, <1>2 DEF KeepsToIdentify, Req
<1> QED BY <1>5, <1>6, <1>7 DEF SpeaksTheTruth

-----------------------------------------------------------------------------
\* What clients have heard.

\* A client that hears is the one its number leads to.
LEMMA HearersArePresent ==
  ASSUME IInv, NEW d \in Conns, Hears(d), NEW m, Recorded(d, m)
  PROVE  Present(m) /\ Owner(m) = d /\ m \in Usernames(users)
  BY ChatAssumption DEF Hears, Recorded, Present, Owner

\* Nobody begins to hear.
LEMMA HearersHeard ==
  ASSUME IInv, NEW c \in Conns, Thread(c), NEW d \in Conns, Hears(d)'
  PROVE  Hears(d)
<1>1. SocketsStay /\ peer' = peer
  BY ThreadsOnlyClose, ThreadsAreOn
<1>2. fdOf[d] \in Fds
  BY <1>1 DEF SocketsStay, Hears, IInv, TypeOK
<1>3. fdOf'[d] = fdOf[d] /\ fdt'[fdOf[d]] = d /\ peer'[d] = "here" /\ fdOf[d] # 0
  BY <1>1 DEF SocketsStay, Hears
<1>4. fdt[fdOf[d]] = d
  BY <1>1, <1>2, <1>3, ChatAssumption DEF SocketsStay
<1> QED BY <1>1, <1>3, <1>4 DEF Hears

\* A broadcast is for those who have come in.
LEMMA BroadcastIsForUsers ==
  ASSUME IInv, Owned, NEW c \in Conns, NotifyEach(c), NEW d \in Conns, seen'[d] # seen[d]
  PROVE  peer[d] # "away" /\ \E n : Recorded(d, n)
<1> DEFINE note == loc[c].note
           others == {u \in UsersOf(users) : u.fd # Skipped(c)}
<1>1. PICK F : seen' = [x \in Conns |->
                 IF x \in {fdt[u.fd] : u \in others \ F} /\ note.type # "PUBLIC_TEXT_FROM"
                 THEN [seen[x] EXCEPT ![note.name] = note.status] ELSE seen[x]]
  BY DEF NotifyEach
<1>2. PICK u \in UsersOf(users) : d = fdt[u.fd]
  BY <1>1
<1>3. u.name \in Usernames(users) /\ u.fd = users.byName[u.name].fd
  BY <1>2 DEF UsersOf, FindByName
<1>4. u.fd \in Fds /\ 0 \notin Fds
  BY <1>3, ChatAssumption DEF IInv, TypeOK, Table, Fds
<1>5. fdOf[d] = u.fd
  BY <1>2, <1>4, ChatAssumption DEF Owned
<1> QED BY <1>3, <1>4, <1>5 DEF Owned, Recorded

\* Before it comes in a client has heard nothing.
LEMMA StartKept ==
  ASSUME IInv, Registration, Introduction, Departure, Accuracy, NobodyIsEvicted,
         NEW c \in Conns, Thread(c), NEW d \in Conns
  PROVE  HearsFromTheStart(d)'
<1>1. SocketsStay /\ peer' = peer /\ HearsFromTheStart(d) /\ Owned
  BY ThreadsOnlyClose, ThreadsAreOn DEF Accuracy, Introduction
<1>2. ASSUME \/ peer'[d] = "away"
             \/ Hears(d)' /\ pc'[d] # "dc_close" /\ \A n : ~Recorded(d, n)'
      PROVE  \/ peer[d] = "away"
             \/ Hears(d) /\ pc[d] # "dc_close" /\ \A n : ~Recorded(d, n)
  <2>1. SUFFICES ASSUME peer[d] # "away"
                 PROVE  Hears(d) /\ pc[d] # "dc_close" /\ \A n : ~Recorded(d, n)
    OBVIOUS
  <2>2. Hears(d)' /\ pc'[d] # "dc_close" /\ \A n : ~Recorded(d, n)'
    BY <1>1, <1>2, <2>1
  <2>3. Hears(d)
    BY <2>2, HearersHeard
  <2>4. pc[d] # "dc_close"
    <3>1. SUFFICES ASSUME pc[d] = "dc_close" PROVE FALSE
      OBVIOUS
    <3>2. d = c
      BY <2>2, <3>1, OthersStandStill
    <3>3. DisconnectClose(c) /\ loc[c].dfd = fdOf[c]
      BY <3>1, <3>2, ClosersClose DEF Departure, Leaving, OwnRequest, Serving, Disconnecting
    <3>4. fdt'[fdOf[c]] = None
      <4>1. fdOf[c] \in Fds
        BY <2>3, <3>2 DEF Hears, IInv, TypeOK
      <4> QED BY <3>3, <4>1 DEF DisconnectClose, IInv, TypeOK
    <3> QED BY <1>1, <2>2, <3>2, <3>4, ChatAssumption DEF Hears, SocketsStay
  <2>5. ASSUME NEW n, Recorded(d, n) PROVE FALSE
    <3>1. d = c /\ DisconnectFromUsers(c)
      BY <2>2, <2>5, RecordStays
    <3>2. pc'[c] = "dc_close"
      BY <3>1 DEF DisconnectFromUsers, Goto, IInv, TypeOK
    <3> QED BY <2>2, <3>1, <3>2
  <2> QED BY <2>3, <2>4, <2>5
<1>3. ASSUME \/ peer[d] = "away"
             \/ Hears(d) /\ pc[d] # "dc_close" /\ \A n : ~Recorded(d, n)
      PROVE  seen'[d] = seen[d]
  BY <1>1, <1>3, BroadcastIsForUsers, OnlyBroadcastsTell
<1> QED BY <1>1, <1>2, <1>3 DEF HearsFromTheStart

\* A thread that has changed a status goes on to the rooms.
LEMMA StatusChangersChange ==
  ASSUME NEW c \in Conns, Thread(c), pc[c] = "st_rooms"
  PROVE  StatusChangeInRooms(c)
<1>1. CASE ConnectionStep(c)
  BY <1>1 DEF ConnectionStep, RecvCall, RecvReturns, RecvEnds, Extract, BadJson, GateOpens,
       GateCloses, ReplyFatal, ReplyFails, ReplySent, NotifySize, NotifyEach, EvictNext,
       EvictFromRooms, EvictFromUsers, EvictDone, DisconnectFind, DisconnectFromRooms,
       DisconnectFromUsers, DisconnectClose
<1>2. CASE HandlerStep(c)
  BY <1>2 DEF HandlerStep, IdentifyFindFd, IdentifyFindName, IdentifyAdd, StatusFind,
       StatusChange, UsersList, TextFindAddressee, TextCompare,
       TextFindSender, TextSend, PublicTextFindSender
<1>3. CASE RoomStep(c)
  BY <1>3 DEF RoomStep, NewRoomContains, NewRoomAdd, NewRoomFindCreator, NewRoomAddCreator,
       RoomContains, RoomFindSender, RoomMember, InviteResolve, InviteIsMember,
       InviteIsGuest, InviteAdd, InviteSend, JoinIsGuest, JoinMove, RoomUsersList,
       RoomNotify, LeaveRoom, LeaveDropRoom
<1> QED BY <1>1, <1>2, <1>3 DEF Thread

\* Whether a thread owes a correction is its own matter.
LEMMA OthersCorrect ==
  ASSUME IInv, NEW c \in Conns, Thread(c), NEW e \in Conns, e # c, Corrects(e)
  PROVE  Corrects(e)'
<1>1. pc'[e] = pc[e] /\ loc'[e] = loc[e]
  BY OthersStandStill
<1> QED BY <1>1 DEF Corrects, ComesIn, Announcing, OnItsWayOut, TakingOut, Req

\* A thread that owes others a correction goes on to it.
LEMMA CorrectionGoesOn ==
  ASSUME IInv, Registration, Departure, NEW c \in Conns, Thread(c), Corrects(c),
         ~(NotifyEach(c) /\ Announcing(c)), NEW n, Recorded(c, n), Recorded(c, n)'
  PROVE  Corrects(c)'
<1>1. pc \in [Conns -> Places] /\ loc \in [Conns -> Locals] /\ loc[c] \in Locals
  BY DEF IInv, TypeOK
<1>2. \A x : Broadcast(c, x) => loc'[c].note = x /\ pc'[c] = "notify_size"
  BY <1>1 DEF Broadcast, Goto, Locals
<1>3. CASE ComesIn(c)
  <2>1. ReplyFails(c) \/ ReplySent(c)
    BY <1>3, TellersTell DEF ComesIn, ReplyFatal, NotifySize, NotifyEach
  <2>2. CASE ReplyFails(c)
    <3>1. pc'[c] = "dc_find"
      BY <1>1, <2>2 DEF ReplyFails, Disconnect, Goto
    <3> QED BY <3>1 DEF Corrects, OnItsWayOut
  <2>3. CASE ReplySent(c)
    <3>1. Broadcast(c, [type |-> "NEW_USER", name |-> Clip8[Req(c).username],
                        status |-> "ACTIVE"])
      BY <1>3, <2>3 DEF ReplySent, ComesIn
    <3> QED BY <1>2, <3>1 DEF Corrects, Announcing, Telling
  <2> QED BY <2>1, <2>2, <2>3
<1>4. CASE pc[c] = "st_rooms"
  <2>1. StatusChangeInRooms(c)
    BY <1>4, StatusChangersChange
  <2> QED BY <1>2, <2>1 DEF StatusChangeInRooms, Corrects, Announcing, Telling
<1>5. CASE Announcing(c)
  <2>1. NotifySize(c)
    BY <1>5, TellersTell DEF Announcing, Telling, ReplyFatal, ReplyFails, ReplySent
  <2>2. loc'[c].note = loc[c].note /\ pc'[c] = "notify_each"
    BY <1>1, <2>1, PlanStays DEF SamePlan, NotifySize, Goto
  <2> QED BY <1>5, <2>2 DEF Corrects, Announcing, Telling
<1>6. CASE OnItsWayOut(c)
  BY <1>6, WayOutGoesOn DEF Corrects
<1> QED BY <1>3, <1>4, <1>5, <1>6 DEF Corrects

\* What was true of a user stays so, and what was about to be corrected is still
\* about to be, in every step that neither lets anybody in nor announces.
LEMMA KnowledgeStays ==
  ASSUME IInv, Registration, Departure, Accuracy, NEW c \in Conns, Thread(c),
         ~IdentifyAdd(c), ~StatusChange(c), NobodyIsEvicted,
         NEW d \in Conns, Hears(d)', NEW m, Recorded(d, m)',
         NEW n \in Usernames(users'), seen'[d][n] = seen[d][n],
         ~(NotifyEach(c) /\ Announcing(c) /\ Recorded(c, n))
  PROVE  \/ seen'[d][n] \in {"unheard", users'.byName[n].status}
         \/ \E e \in Conns : Recorded(e, n)' /\ (e = d \/ Corrects(e)')
<1>1. UsersStay /\ fdOf' = fdOf
  BY OnlyAddLetsIn, ThreadsOnlyClose DEF SocketsStay
<1>2. n \in Usernames(users) /\ users'.byName[n].fd = users.byName[n].fd
  BY <1>1 DEF UsersStay
<1>3. users'.byName[n].status = users.byName[n].status
  <2>1. CASE DisconnectFromUsers(c)
    <3>1. n # loc[c].gone.name
      BY <2>1, RemoveUserEntries DEF DisconnectFromUsers
    <3> QED BY <1>2, <2>1, <3>1, RemoveUserEntries DEF DisconnectFromUsers
  <2>2. CASE ~DisconnectFromUsers(c)
    BY <1>2, <2>2, EntriesStay DEF EvictFromUsers, NobodyIsEvicted
  <2> QED BY <2>1, <2>2
<1>4. Hears(d) /\ Recorded(d, m)
  BY HearersHeard, RecordedBefore
<1>5. \/ seen[d][n] \in {"unheard", users.byName[n].status}
      \/ \E e \in Conns : Recorded(e, n) /\ (e = d \/ Corrects(e))
  BY <1>2, <1>4 DEF Accuracy, KnowsTheTruth
<1>6. ASSUME NEW e \in Conns, Recorded(e, n), e = d \/ Corrects(e)
      PROVE  Recorded(e, n)' /\ (e = d \/ Corrects(e)')
  <2>1. Recorded(e, n)'
    BY <1>1, <1>2, <1>6 DEF Recorded
  <2>2. ASSUME Corrects(e), e = c PROVE Corrects(e)'
    BY <1>6, <2>1, <2>2, CorrectionGoesOn
  <2>3. ASSUME Corrects(e), e # c PROVE Corrects(e)'
    BY <2>3, OthersCorrect
  <2> QED BY <1>6, <2>1, <2>2, <2>3
<1> QED BY <1>3, <1>5, <1>6

\* Nobody is told anything by a thread that speaks of its own user, but of that
\* user.
LEMMA BroadcastIsAboutOne ==
  ASSUME IInv, NEW c \in Conns, NotifyEach(c), NEW d \in Conns, NEW n \in Names,
         n # loc[c].note.name \/ loc[c].note.type = "PUBLIC_TEXT_FROM"
  PROVE  seen'[d][n] = seen[d][n]
<1> DEFINE note == loc[c].note
<1>1. PICK R : seen' = [x \in Conns |->
                          IF x \in R /\ note.type # "PUBLIC_TEXT_FROM"
                          THEN [seen[x] EXCEPT ![note.name] = note.status] ELSE seen[x]]
  BY DEF NotifyEach
<1>2. seen \in [Conns -> [Names -> Views]]
  BY DEF IInv, TypeOK
<1> QED BY <1>1, <1>2

\* A broadcast tells the truth, or says that a user is out who is about to be.
LEMMA BroadcastIsTrue ==
  ASSUME IInv, Registration, Introduction, Departure, Accuracy, NobodyIsEvicted,
         NEW c \in Conns, NotifyEach(c), NEW d \in Conns
  PROVE  KnowsTheTruth(d)'
<1>0. Thread(c) /\ ~IdentifyAdd(c) /\ ~StatusChange(c) /\ ~DisconnectFromUsers(c) /\ NotesTell
  BY DEF Thread, ConnectionStep, NotifyEach, IdentifyAdd, StatusChange, DisconnectFromUsers,
     Introduction
<1>1. users' = users /\ fdOf' = fdOf /\ pc[c] = "notify_each" /\ pc \in [Conns -> Places]
  BY DEF NotifyEach, OnlyThreadAndSeen, tabVars, IInv, TypeOK
<1>2. loc[c].note \in Note
  BY <1>1, ThreadFacts DEF Holds, Notifying
<1> SUFFICES ASSUME Hears(d)', NEW m, Recorded(d, m)', NEW n \in Usernames(users')
             PROVE  \/ seen'[d][n] \in {"unheard", users'.byName[n].status}
                    \/ \E e \in Conns : Recorded(e, n)' /\ (e = d \/ Corrects(e)')
  BY DEF KnowsTheTruth
<1>3. Hears(d) /\ Recorded(d, m) /\ n \in Names
  BY <1>0, <1>1, HearersHeard DEF Recorded, IInv, TypeOK, Table
<1>4. CASE n # loc[c].note.name \/ loc[c].note.type = "PUBLIC_TEXT_FROM"
  <2>1. seen'[d][n] = seen[d][n]
    BY <1>3, <1>4, BroadcastIsAboutOne
  <2>2. ~(Announcing(c) /\ Recorded(c, n))
    <3>1. Announcing(c) => Recorded(c, loc[c].note.name)
      BY DEF Accuracy, SpeaksTheTruth, OwnStatus
    <3> QED BY <1>4, <3>1, OneName DEF Announcing
  <2> QED BY <1>0, <2>1, <2>2, KnowledgeStays
<1>5. CASE n = loc[c].note.name /\ loc[c].note.type \in {"NEW_USER", "NEW_STATUS"}
  <2>1. OwnStatus(c, n, loc[c].note.status)
    BY <1>1, <1>5 DEF Accuracy, SpeaksTheTruth, Announcing, Telling
  <2>2. Recorded(c, n)'
    BY <1>1, <2>1 DEF OwnStatus, Recorded
  <2>3. CASE d # c
    <3>1. Present(m) /\ Owner(m) = d /\ m \in Usernames(users)
      BY <1>3, HearersArePresent
    <3>2. users.byName[m].fd # Skipped(c)
      <4>1. Skipped(c) = fdOf[c] /\ users.byName[m].fd = fdOf[d]
        BY <1>3, <1>5 DEF Skipped, Recorded
      <4>2. ~Recorded(c, m)
        BY <1>3, <2>3, OneRecord
      <4> QED BY <3>1, <4>1, <4>2 DEF Recorded
    <3>3. seen'[d][n] = loc[c].note.status
      BY <1>0, <1>5, <3>1, <3>2, BroadcastReaches
    <3> QED BY <1>1, <2>1, <3>3 DEF OwnStatus
  <2> QED BY <2>2, <2>3
<1>6. CASE n = loc[c].note.name /\ loc[c].note.type = "DISCONNECTED"
  <2>1. Recorded(c, n) /\ OnItsWayOut(c)
    BY <1>1, <1>6 DEF Accuracy, SpeaksTheTruth, OnItsWayOut, TakingOut, Telling, Notifying
  <2>2. Recorded(c, n)'
    BY <1>1, <2>1 DEF Recorded
  <2>3. OnItsWayOut(c)'
    BY <1>0, <2>1, <2>2, WayOutGoesOn
  <2> QED BY <2>2, <2>3 DEF Corrects
<1> QED BY <1>2, <1>4, <1>5, <1>6 DEF Note

\* A newcomer knows nothing yet, and will be announced.
LEMMA AddIsKnown ==
  ASSUME IInv, IInv', Registration, Introduction, Departure, Accuracy, NobodyIsEvicted,
         NEW c \in Conns, IdentifyAdd(c), NEW d \in Conns
  PROVE  KnowsTheTruth(d)'
<1>1. /\ Thread(c) /\ pc[c] = "id_add" /\ UNCHANGED << peer, fdt, fdOf, seen >>
      /\ pc \in [Conns -> Places] /\ loc \in [Conns -> Locals] /\ loc[c] \in Locals
  BY DEF Thread, HandlerStep, IdentifyAdd, sockVars, IInv, TypeOK
<1>2. ASSUME NEW n PROVE ~Recorded(c, n)
  BY <1>1, RecordedIsIndexed DEF Registration, Unregistered, Registering
<1>3. ~Corrects(c)
  BY <1>1 DEF Corrects, ComesIn, Announcing, OnItsWayOut, TakingOut, Telling, Notifying
<1>4. Hears(d)' <=> Hears(d)
  BY <1>1 DEF Hears
<1> SUFFICES ASSUME Hears(d)', NEW m, Recorded(d, m)', NEW n \in Usernames(users')
             PROVE  \/ seen'[d][n] \in {"unheard", users'.byName[n].status}
                    \/ \E e \in Conns : Recorded(e, n)' /\ (e = d \/ Corrects(e)')
  BY DEF KnowsTheTruth
<1>5. n \in Names
  BY DEF IInv, TypeOK, Table
<1>6. CASE d = c
  <2>1. HearsFromTheStart(c) /\ pc[c] # "dc_close"
    BY <1>1 DEF Accuracy
  <2> QED BY <1>1, <1>2, <1>4, <1>5, <1>6, <2>1 DEF HearsFromTheStart
<1>7. CASE d # c /\ n \in Usernames(users)
  <2>1. users'.byName[n] = users.byName[n]
    BY <1>7 DEF IdentifyAdd, AddUser, Usernames, ContainsName
  <2>2. Recorded(d, m)
    BY <1>1, <1>7, RecordedBefore
  <2>3. \/ seen[d][n] \in {"unheard", users.byName[n].status}
        \/ \E e \in Conns : Recorded(e, n) /\ (e = d \/ Corrects(e))
    BY <1>4, <1>7, <2>2 DEF Accuracy, KnowsTheTruth
  <2>4. ASSUME NEW e \in Conns, Recorded(e, n), e = d \/ Corrects(e)
        PROVE  Recorded(e, n)' /\ (e = d \/ Corrects(e)')
    <3>1. e # c /\ Recorded(e, n)'
      BY <1>1, <1>2, <2>1, <2>4 DEF Recorded
    <3> QED BY <1>1, <2>4, <3>1, OthersCorrect
  <2> QED BY <1>1, <2>1, <2>3, <2>4
<1>8. CASE d # c /\ n \notin Usernames(users)
  <2>1. /\ n = Wanted(c) /\ users' = AddUser(users, Wanted(c), fdOf[c], "ACTIVE")
        /\ Reply(c, "SUCCESS") /\ ~ContainsName(users, Wanted(c))
    BY <1>8 DEF IdentifyAdd, AddUser, Usernames, ContainsName
  <2>2. Recorded(c, n)'
    BY <1>1, <2>1 DEF AddUser, Recorded, ContainsName, Usernames
  <2>3. pc'[c] = "reply" /\ loc'[c] = [loc[c] EXCEPT !.reply = "SUCCESS"]
    BY <1>1, <2>1 DEF Reply, Goto
  <2>4. loc'[c].reply = "SUCCESS" /\ loc'[c].req = loc[c].req
    BY <1>1, <2>3 DEF Locals
  <2>5. loc[c].req.type = "IDENTIFY"
    BY <1>1, ThreadFacts, HoldsAt DEF Identifying
  <2>6. ComesIn(c)'
    BY <2>3, <2>4, <2>5 DEF ComesIn, Req, Fatal
  <2> QED BY <2>2, <2>6 DEF Corrects
<1> QED BY <1>6, <1>7, <1>8

\* A changed status will be announced.
LEMMA ChangeIsKnown ==
  ASSUME IInv, Registration, Departure, Accuracy, NobodyIsEvicted,
         NEW c \in Conns, StatusChange(c), NEW d \in Conns
  PROVE  KnowsTheTruth(d)'
<1>1. /\ Thread(c) /\ pc[c] = "st_change" /\ UNCHANGED << peer, fdt, fdOf, seen >>
      /\ pc'[c] = "st_rooms" /\ ~DisconnectFromUsers(c) /\ ~IdentifyAdd(c)
  BY DEF Thread, HandlerStep, StatusChange, OnlyThreadAndTables, sockVars, obsVars, Goto, IInv,
     TypeOK, DisconnectFromUsers, IdentifyAdd
<1>2. Hears(d)' <=> Hears(d)
  BY <1>1 DEF Hears
<1>3. UsersStay
  BY <1>1, OnlyAddLetsIn
<1> SUFFICES ASSUME Hears(d)', NEW m, Recorded(d, m)', NEW n \in Usernames(users')
             PROVE  \/ seen'[d][n] \in {"unheard", users'.byName[n].status}
                    \/ \E e \in Conns : Recorded(e, n)' /\ (e = d \/ Corrects(e)')
  BY DEF KnowsTheTruth
<1>4. /\ n \in Usernames(users) /\ users'.byName[n].fd = users.byName[n].fd
      /\ \A e \in Conns : Recorded(e, n)' <=> Recorded(e, n)
  BY <1>1, <1>3 DEF UsersStay, Recorded
<1>5. CASE Recorded(c, n)
  BY <1>1, <1>4, <1>5 DEF Corrects
<1>6. CASE ~Recorded(c, n)
  <2>1. users'.byName[n].status = users.byName[n].status
    <3>1. ContainsFd(users, fdOf[c]) => n # users.byFd[fdOf[c]]
      BY <1>4, <1>6 DEF Registration, OneNamePerClient, Agrees, Coherent, Recorded, ContainsFd
    <3> QED BY <1>4, <3>1, ChangeStatusEntries DEF StatusChange
  <2>2. Recorded(d, m)
    BY <1>1, RecordedBefore
  <2>3. \/ seen[d][n] \in {"unheard", users.byName[n].status}
        \/ \E e \in Conns : Recorded(e, n) /\ (e = d \/ Corrects(e))
    BY <1>2, <1>4, <2>2 DEF Accuracy, KnowsTheTruth
  <2>4. \A e \in Conns : Recorded(e, n) /\ Corrects(e) => Corrects(e)'
    BY <1>1, <1>6, OthersCorrect
  <2> QED BY <1>1, <1>4, <2>1, <2>3, <2>4
<1> QED BY <1>5, <1>6

\* Every step of a thread.
LEMMA ThreadsKeepAccuracy ==
  ASSUME IInv, IInv', Registration, Introduction, Departure, Accuracy, NobodyIsEvicted,
         NEW c \in Conns, Thread(c)
  PROVE  Accuracy'
<1>1. ASSUME NEW d \in Conns PROVE KeepsToIdentify(d)' /\ SpeaksTheTruth(d)'
  <2>1. CASE d = c
    BY <2>1, MoverSpeaks, KeepsToIdentifyKept DEF Accuracy
  <2>2. CASE d # c
    BY <2>2, OthersSpeak
  <2> QED BY <2>1, <2>2
<1>2. ASSUME NEW d \in Conns PROVE HearsFromTheStart(d)'
  BY StartKept
<1>3. ASSUME NEW d \in Conns PROVE KnowsTheTruth(d)'
  <2>1. CASE IdentifyAdd(c)
    BY <2>1, AddIsKnown
  <2>2. CASE StatusChange(c)
    BY <2>2, ChangeIsKnown
  <2>3. CASE NotifyEach(c)
    BY <2>3, BroadcastIsTrue
  <2>4. CASE ~IdentifyAdd(c) /\ ~StatusChange(c) /\ ~NotifyEach(c)
    <3>1. seen' = seen
      BY <2>4, OnlyBroadcastsTell
    <3> QED BY <2>4, <3>1, KnowledgeStays DEF KnowsTheTruth
  <2> QED BY <2>1, <2>2, <2>3, <2>4
<1> QED BY <1>1, <1>2, <1>3 DEF Accuracy

-----------------------------------------------------------------------------
\* The clients, and the theorem.

\* A new connection has heard nothing yet.
LEMMA AcceptKeepsAccuracy ==
  ASSUME ~Reuse, IInv, Owned, Accuracy, NEW c \in Conns, Accept(c)
  PROVE  Accuracy'
<1>1. PICK f \in Fds :
        /\ fdt' = [fdt EXCEPT ![f] = c] /\ fdOf'[c] = f
        /\ \A d \in Conns : d # c /\ fdOf[d] # f => fdOf'[d] = fdOf[d]
        /\ \A d \in Conns : fdOf[d] = f => pc[d] = "end"
        /\ \A d \in Conns : d # c /\ fdOf[d] = f => fdOf'[d] = 0
        /\ \A n \in Usernames(users) : users.byName[n].fd # f
  BY AcceptTakesForgotten
<1>2. /\ pc' = [pc EXCEPT ![c] = "next"] /\ loc' = loc /\ users' = users /\ seen' = seen
      /\ peer' = [peer EXCEPT ![c] = "here"] /\ peer[c] = "away"
  BY DEF Accept, Goto, tabVars, obsVars
<1>3. /\ fdt \in [Fds -> Conns \cup {None}] /\ fdOf \in [Conns -> Fds \cup {0}]
      /\ pc \in [Conns -> Places] /\ peer \in [Conns -> {"away", "here", "leaving", "gone"}]
  BY DEF IInv, TypeOK
<1>4. /\ pc'[c] = "next" /\ \A n : ~Recorded(c, n) /\ ~Recorded(c, n)'
      /\ \A n \in Names : seen'[c][n] = "unheard"
  <2>1. pc'[c] = "next" /\ fdOf'[c] = f /\ fdOf[c] = 0
    BY <1>1, <1>2, <1>3 DEF Owned
  <2>2. \A n \in Usernames(users) : users.byName[n].fd # 0 /\ users.byName[n].fd # f
    BY <1>1, ChatAssumption DEF Owned, IInv, TypeOK, Table, Fds
  <2>3. \A n \in Names : seen[c][n] = "unheard"
    BY <1>2 DEF Accuracy, HearsFromTheStart
  <2> QED BY <1>2, <2>1, <2>2, <2>3 DEF Recorded
<1>5. ASSUME NEW d \in Conns, d # c
      PROVE  /\ pc'[d] = pc[d] /\ loc'[d] = loc[d] /\ peer'[d] = peer[d]
             /\ Hears(d)' => Hears(d)
             /\ \A n : Recorded(d, n)' <=> Recorded(d, n)
  <2>1. pc'[d] = pc[d] /\ loc'[d] = loc[d] /\ peer'[d] = peer[d]
    BY <1>2, <1>3, <1>5
  <2>2. CASE fdOf[d] # f
    BY <1>1, <1>2, <1>3, <1>5, <2>1, <2>2 DEF Hears, Recorded
  <2>3. CASE fdOf[d] = f
    <3>1. fdOf'[d] = 0 /\ \A n \in Usernames(users) : users.byName[n].fd # 0
      BY <1>1, <1>5, <2>3, ChatAssumption DEF IInv, TypeOK, Table, Fds
    <3> QED BY <1>1, <1>2, <2>1, <2>3, <3>1 DEF Hears, Recorded
  <2> QED BY <2>1, <2>2, <2>3
<1>6. ASSUME NEW d \in Conns PROVE KeepsToIdentify(d)' /\ SpeaksTheTruth(d)'
  <2>1. CASE d = c
    BY <1>4, <2>1 DEF KeepsToIdentify, SpeaksTheTruth, ComesIn, Announcing, TakingOut, Telling,
       Serving, Identifying, ChangingStatus, Notifying, Disconnecting, CreatingRoom,
       EnteringRoom, Inviting
  <2>2. CASE d # c
    <3>1. KeepsToIdentify(d) /\ SpeaksTheTruth(d)
      BY DEF Accuracy
    <3> QED BY <1>2, <1>5, <2>2, <3>1 DEF KeepsToIdentify, SpeaksTheTruth, ComesIn, Announcing,
            TakingOut, OwnStatus, Recorded, Wanted, Req
  <2> QED BY <2>1, <2>2
<1>7. ASSUME NEW d \in Conns PROVE HearsFromTheStart(d)'
  <2>1. CASE d = c
    BY <1>4, <2>1 DEF HearsFromTheStart
  <2>2. CASE d # c
    BY <1>2, <1>5, <2>2 DEF Accuracy, HearsFromTheStart
  <2> QED BY <2>1, <2>2
<1>8. ASSUME NEW d \in Conns PROVE KnowsTheTruth(d)'
  <2>1. CASE d = c
    BY <1>4, <2>1 DEF KnowsTheTruth
  <2>2. CASE d # c
    <3>1. \A e \in Conns : \A n : Recorded(e, n) /\ Corrects(e) => Recorded(e, n)' /\ Corrects(e)'
      BY <1>4, <1>5 DEF Corrects, ComesIn, Announcing, OnItsWayOut, TakingOut, Req
    <3>2. KnowsTheTruth(d)
      BY DEF Accuracy
    <3> QED BY <1>2, <1>5, <2>2, <3>1, <3>2 DEF KnowsTheTruth
  <2> QED BY <2>1, <2>2
<1> QED BY <1>6, <1>7, <1>8 DEF Accuracy

\* A client that writes or goes away learns nothing.
LEMMA BystanderKeepsAccuracy ==
  ASSUME IInv, Accuracy, UNCHANGED << fdt, pc, fdOf, loc, users, seen >>,
         \A d \in Conns : peer'[d] # peer[d] => peer'[d] \notin {"away", "here"}
  PROVE  Accuracy'
<1>1. ASSUME NEW d \in Conns
      PROVE  /\ Hears(d)' => Hears(d)
             /\ peer'[d] = "away" => peer[d] = "away"
             /\ \A n : Recorded(d, n)' <=> Recorded(d, n)
             /\ Corrects(d)' <=> Corrects(d)
  BY DEF Hears, Recorded, Corrects, ComesIn, Announcing, OnItsWayOut, TakingOut, Req
<1>2. ASSUME NEW d \in Conns PROVE KeepsToIdentify(d)' /\ SpeaksTheTruth(d)'
  <2>1. KeepsToIdentify(d) /\ SpeaksTheTruth(d)
    BY DEF Accuracy
  <2> QED BY <2>1 DEF KeepsToIdentify, SpeaksTheTruth, ComesIn, Announcing, TakingOut, OwnStatus,
          Recorded, Wanted, Req
<1>3. ASSUME NEW d \in Conns PROVE HearsFromTheStart(d)'
  BY <1>1 DEF Accuracy, HearsFromTheStart
<1>4. ASSUME NEW d \in Conns PROVE KnowsTheTruth(d)'
  BY <1>1 DEF Accuracy, KnowsTheTruth
<1> QED BY <1>2, <1>3, <1>4 DEF Accuracy

\* Every step keeps the invariant.
LEMMA AccuracyKept ==
  ASSUME ~Reuse, IInv, IInv', Registration, Introduction, Departure, Accuracy,
         NobodyIsEvicted, [Next]_vars
  PROVE  Accuracy'
<1>1. ASSUME NEW c \in Conns, ClientStep(c) PROVE Accuracy'
  <2>1. CASE Accept(c)
    BY <2>1, AcceptKeepsAccuracy DEF Introduction
  <2>2. CASE Submit(c) \/ Vanish(c)
    <3>1. UNCHANGED << fdt, pc, fdOf, loc, users, seen >>
      BY <2>2 DEF Submit, Vanish, tabVars, obsVars
    <3>2. \A d \in Conns : peer'[d] # peer[d] => peer'[d] \notin {"away", "here"}
      BY <2>2 DEF Submit, Vanish, IInv, TypeOK
    <3> QED BY <3>1, <3>2, BystanderKeepsAccuracy
  <2> QED BY <1>1, <2>1, <2>2 DEF ClientStep
<1>2. ASSUME NEW c \in Conns, Thread(c) PROVE Accuracy'
  BY <1>2, ThreadsKeepAccuracy
<1>3. CASE UNCHANGED vars
  <2>1. UNCHANGED << peer, fdt, pc, fdOf, loc, users, seen >>
    BY <1>3 DEF vars, sockVars, tabVars, obsVars
  <2> QED BY <2>1, BystanderKeepsAccuracy
<1> QED BY <1>1, <1>2, <1>3 DEF Next, Idling

\* The inductive invariant holds in every execution without INVITE in which only
\* forgotten descriptor numbers are handed out again and no broadcast evicts anybody.
THEOREM AccuracyHolds ==
  ASSUME ~Reuse, NobodyInvites
  PROVE  Spec /\ []NobodyIsEvicted => []Accuracy
<1>1. Init => Accuracy
  <2> SUFFICES ASSUME Init PROVE Accuracy
    OBVIOUS
  <2>1. /\ \A c \in Conns : pc[c] = "off" /\ \A n \in Names : seen[c][n] = "unheard"
        /\ Usernames(users) = {}
    BY DEF Init, EmptyTable, Usernames
  <2> QED BY <2>1 DEF Accuracy, KeepsToIdentify, SpeaksTheTruth, ComesIn, Announcing, TakingOut,
          Telling, HearsFromTheStart, KnowsTheTruth, Recorded, Serving, Identifying,
          ChangingStatus, Notifying, Disconnecting, CreatingRoom, EnteringRoom, Inviting
<1>2. Accuracy /\ Departure /\ Introduction /\ Registration /\ IInv /\ IInv' /\ NobodyIsEvicted
        /\ [Next]_vars => Accuracy'
  BY AccuracyKept
<1> QED BY <1>1, <1>2, Invariance, RegistrationHolds, IntroductionHolds, DepartureHolds, PTL
        DEF Spec

\* Once the server rests nothing is left to correct.
LEMMA QuietIsAccurate ==
  ASSUME IInv, Registration, Owned, Accuracy
  PROVE  NotificationsAccurate
<1>1. SUFFICES ASSUME Quiet, NEW u \in UsersOf(users), NEW v \in UsersOf(users), Listens(u),
                      u # v, seen[fdt[u.fd]][v.name] # "unheard"
               PROVE  seen[fdt[u.fd]][v.name] = v.status
  BY DEF NotificationsAccurate
<1>2. /\ u.name \in Usernames(users) /\ u = FindByName(users, u.name)
      /\ v.name \in Usernames(users) /\ v = FindByName(users, v.name)
  BY DEF UsersOf, FindByName
<1>3. u.fd = users.byName[u.name].fd /\ v.status = users.byName[v.name].status
  BY <1>2 DEF FindByName
<1>4. u.fd \in Fds /\ 0 \notin Fds
  BY <1>2, <1>3, ChatAssumption DEF IInv, TypeOK, Table, Fds
<1>5. PICK d \in Conns : d = fdt[u.fd]
  BY <1>1, <1>4 DEF Listens, IInv, TypeOK
<1>6. Hears(d) /\ Recorded(d, u.name)
  <2>1. fdOf[d] = u.fd
    BY <1>4, <1>5, ChatAssumption DEF Owned
  <2>2. peer[d] = "here"
    BY <1>1, <1>5 DEF Listens
  <2> QED BY <1>2, <1>3, <1>4, <1>5, <2>1, <2>2 DEF Hears, Recorded
<1>7. ~Recorded(d, v.name)
  BY <1>1, <1>2, <1>6, OneName
<1>8. \A c \in Conns : ~Corrects(c)
  BY <1>1 DEF Quiet, Corrects, ComesIn, Announcing, OnItsWayOut, TakingOut, Telling, Notifying
<1> QED BY <1>1, <1>2, <1>3, <1>5, <1>6, <1>7, <1>8 DEF Accuracy, KnowsTheTruth

(* Once the server rests, what a client was last told of a connected user is
   true: in every execution without INVITE in which only forgotten numbers are
   handed out again and no broadcast evicts anybody, NEW_USER, NEW_STATUS and
   DISCONNECTED reach every client in an order that ends with the truth.  The
   three are sent after the critical sections they report on (message_handler.c:
   100, 202, 259), by as many threads as there are clients.                 *)
THEOREM NotificationsAccurateHolds ==
  ASSUME ~Reuse, NobodyInvites
  PROVE  Spec /\ []NobodyIsEvicted => []NotificationsAccurate
<1>1. IInv /\ Registration /\ Introduction /\ Accuracy => NotificationsAccurate
  BY QuietIsAccurate DEF Introduction
<1> QED BY <1>1, AccuracyHolds, RegistrationHolds, IntroductionHolds, Invariance, PTL

=============================================================================
