------------------------- MODULE GoodClientsProofs --------------------------
(***************************************************************************)
(* What a client that keeps to the protocol can count on, for any number of  *)
(* clients, failed sends and interleavings, as long as only forgotten        *)
(* descriptor numbers are handed out again (Remembered in ChatConnections).  *)
(***************************************************************************)
EXTENDS PresenceProofs

-----------------------------------------------------------------------------
\* Whose request a thread serves, and who it has seen fail.

\* A handler keeps the line it serves, the failures of its broadcast and the
\* users it invites.
SameLine(m, l) ==
  m.req = l.req /\ m.from = l.from /\ m.failed = l.failed /\ m.invited = l.invited
KeepsLine(c) == loc'[c] = Fresh \/ SameLine(loc'[c], loc[c])

LEMMA FieldsAside ==
  ASSUME NEW l \in Locals, NEW x
  PROVE  /\ SameLine([l EXCEPT !.me = x], l)
         /\ SameLine([l EXCEPT !.to = x], l)
         /\ SameLine([l EXCEPT !.reply = x], l)
         /\ SameLine([l EXCEPT !.note = x], l)
         /\ SameLine([l EXCEPT !.mx = x], l)
         /\ SameLine([l EXCEPT !.victim = x], l)
         /\ SameLine([l EXCEPT !.gone = x], l)
         /\ SameLine([l EXCEPT !.list = x], l)
         /\ SameLine([l EXCEPT !.dfd = x], l)
         /\ SameLine([l EXCEPT !.isIn = x], l)
         /\ SameLine([l EXCEPT !.todo = x], l)
<1> USE DEF Locals, SameLine
<1>1. SameLine([l EXCEPT !.me = x], l)
  OBVIOUS
<1>2. SameLine([l EXCEPT !.to = x], l)
  OBVIOUS
<1>3. SameLine([l EXCEPT !.reply = x], l)
  OBVIOUS
<1>4. SameLine([l EXCEPT !.note = x], l)
  OBVIOUS
<1>5. SameLine([l EXCEPT !.mx = x], l)
  OBVIOUS
<1>6. SameLine([l EXCEPT !.victim = x], l)
  OBVIOUS
<1>7. SameLine([l EXCEPT !.gone = x], l)
  OBVIOUS
<1>8. SameLine([l EXCEPT !.list = x], l)
  OBVIOUS
<1>9. SameLine([l EXCEPT !.dfd = x], l)
  OBVIOUS
<1>10. SameLine([l EXCEPT !.isIn = x], l)
  OBVIOUS
<1>11. SameLine([l EXCEPT !.todo = x], l)
  OBVIOUS
<1> HIDE DEF Locals, SameLine
<1> QED BY <1>1, <1>2, <1>3, <1>4, <1>5, <1>6, <1>7, <1>8, <1>9, <1>10, <1>11

\* Each way a handler goes on keeps its line.
LEMMA WaysAside ==
  ASSUME IInv, NEW c \in Conns
  PROVE  /\ loc' = loc => KeepsLine(c)
         /\ Done(c) => KeepsLine(c)
         /\ \A x : Reply(c, x) => KeepsLine(c)
         /\ \A x : Broadcast(c, x) => KeepsLine(c)
         /\ \A x : Disconnect(c, x) => KeepsLine(c)
         /\ \A x : loc' = [loc EXCEPT ![c].me = x] => KeepsLine(c)
         /\ \A x : loc' = [loc EXCEPT ![c].to = x] => KeepsLine(c)
         /\ \A x : loc' = [loc EXCEPT ![c].mx = x] => KeepsLine(c)
         /\ \A x : loc' = [loc EXCEPT ![c].victim = x] => KeepsLine(c)
         /\ \A x : loc' = [loc EXCEPT ![c].isIn = x] => KeepsLine(c)
         /\ \A x : loc' = [loc EXCEPT ![c].todo = x] => KeepsLine(c)
<1>1. loc \in [Conns -> Locals] /\ loc[c] \in Locals
  BY DEF IInv, TypeOK
<1>2. (loc' = loc \/ Done(c)) => KeepsLine(c)
  BY <1>1 DEF KeepsLine, Done, SameLine
<1>3. ASSUME NEW x, Reply(c, x) PROVE KeepsLine(c)
  <2>1. loc'[c] = [loc[c] EXCEPT !.reply = x]
    BY <1>1, <1>3 DEF Reply
  <2> QED BY <1>1, <2>1, FieldsAside DEF KeepsLine
<1>4. ASSUME NEW x, Broadcast(c, x) PROVE KeepsLine(c)
  <2>1. loc'[c] = [loc[c] EXCEPT !.note = x]
    BY <1>1, <1>4 DEF Broadcast
  <2> QED BY <1>1, <2>1, FieldsAside DEF KeepsLine
<1>5. ASSUME NEW x, Disconnect(c, x) PROVE KeepsLine(c)
  <2>1. loc'[c] = [loc[c] EXCEPT !.dfd = x]
    BY <1>1, <1>5 DEF Disconnect
  <2> QED BY <1>1, <2>1, FieldsAside DEF KeepsLine
<1>6. ASSUME NEW x, loc' = [loc EXCEPT ![c].me = x] PROVE KeepsLine(c)
  <2>1. loc'[c] = [loc[c] EXCEPT !.me = x]
    BY <1>1, <1>6
  <2> QED BY <1>1, <2>1, FieldsAside DEF KeepsLine
<1>7. ASSUME NEW x, loc' = [loc EXCEPT ![c].to = x] PROVE KeepsLine(c)
  <2>1. loc'[c] = [loc[c] EXCEPT !.to = x]
    BY <1>1, <1>7
  <2> QED BY <1>1, <2>1, FieldsAside DEF KeepsLine
<1>8. ASSUME NEW x, loc' = [loc EXCEPT ![c].mx = x] PROVE KeepsLine(c)
  <2>1. loc'[c] = [loc[c] EXCEPT !.mx = x]
    BY <1>1, <1>8
  <2> QED BY <1>1, <2>1, FieldsAside DEF KeepsLine
<1>9. ASSUME NEW x, loc' = [loc EXCEPT ![c].victim = x] PROVE KeepsLine(c)
  <2>1. loc'[c] = [loc[c] EXCEPT !.victim = x]
    BY <1>1, <1>9
  <2> QED BY <1>1, <2>1, FieldsAside DEF KeepsLine
<1>10. ASSUME NEW x, loc' = [loc EXCEPT ![c].isIn = x] PROVE KeepsLine(c)
  <2>1. loc'[c] = [loc[c] EXCEPT !.isIn = x]
    BY <1>1, <1>10
  <2> QED BY <1>1, <2>1, FieldsAside DEF KeepsLine
<1>11. ASSUME NEW x, loc' = [loc EXCEPT ![c].todo = x] PROVE KeepsLine(c)
  <2>1. loc'[c] = [loc[c] EXCEPT !.todo = x]
    BY <1>1, <1>11
  <2> QED BY <1>1, <2>1, FieldsAside DEF KeepsLine
<1> QED
  BY <1>2, <1>3, <1>4, <1>5, <1>6, <1>7, <1>8, <1>9, <1>10, <1>11

\* Every step of a thread keeps the line it serves, but for a new line, and the
\* failures and the invited unless it is about them.
LEMMA StepsAside ==
  ASSUME IInv, NEW c \in Conns, Thread(c), ~Extract(c), ~NotifyEach(c), ~EvictNext(c),
         ~InviteResolve(c), ~InviteSend(c)
  PROVE  KeepsLine(c)
<1> DEFINE l == loc[c]
<1>1. l \in Locals /\ loc \in [Conns -> Locals]
  BY DEF IInv, TypeOK
<1>2. ASSUME NEW m \in Locals, SameLine(m, l),
             NEW x, \/ loc'[c] = [m EXCEPT !.note = x] \/ loc'[c] = [m EXCEPT !.list = x]
      PROVE  KeepsLine(c)
  <2> HIDE DEF l
  <2>1. SameLine(loc'[c], m)
    BY <1>2, FieldsAside
  <2> QED BY <1>2, <2>1 DEF SameLine, KeepsLine, l
<1>3. CASE DisconnectFind(c)
  <2>1. CASE ~ContainsFd(users, l.dfd)
    BY <1>3, <2>1, WaysAside DEF DisconnectFind
  <2>2. CASE ContainsFd(users, l.dfd)
    <3> DEFINE u == FindByFd(users, l.dfd)
               n == [type |-> "DISCONNECTED", name |-> u.name, status |-> "out"]
               m == [l EXCEPT !.gone = u]
    <3>1. loc'[c] = [m EXCEPT !.note = n]
      BY <1>1, <1>3, <2>2 DEF DisconnectFind
    <3>2. m \in Locals
      BY <1>1, <1>3, <2>2, ThreadFacts, LookupsYieldUsers, UpdateLocals DEF DisconnectFind
    <3>3. SameLine(m, l)
      BY <1>1, FieldsAside
    <3> HIDE DEF m, n, l
    <3> QED BY <1>2, <3>1, <3>2, <3>3
  <2> QED BY <2>1, <2>2
<1>4. CASE PublicTextFindSender(c)
  <2>1. CASE ~ContainsFd(users, fdOf[c])
    BY <1>4, <2>1, WaysAside DEF PublicTextFindSender
  <2>2. CASE ContainsFd(users, fdOf[c])
    <3> DEFINE u == FindByFd(users, fdOf[c])
               n == [type |-> "PUBLIC_TEXT_FROM", name |-> u.name, status |-> "unheard"]
               m == [l EXCEPT !.me = u]
    <3>1. loc'[c] = [m EXCEPT !.note = n]
      BY <1>1, <1>4, <2>2 DEF PublicTextFindSender
    <3>2. m \in Locals
      BY <1>1, <1>4, <2>2, ThreadFacts, LookupsYieldUsers, UpdateLocals
         DEF PublicTextFindSender
    <3>3. SameLine(m, l)
      BY <1>1, FieldsAside
    <3> HIDE DEF m, n, l
    <3> QED BY <1>2, <3>1, <3>2, <3>3
  <2> QED BY <2>1, <2>2
<1>5. CASE UsersList(c) \/ RoomUsersList(c)
  <2>0. PICK shown : \E x \in Replies : loc' = [loc EXCEPT ![c].reply = x, ![c].list = shown]
    BY <1>5 DEF UsersList, RoomUsersList, Replies
  <2>1. PICK x \in Replies : loc' = [loc EXCEPT ![c].reply = x, ![c].list = shown]
    BY <2>0
  <2> DEFINE m == [l EXCEPT !.reply = x]
  <2>2. loc'[c] = [m EXCEPT !.list = shown]
    BY <1>1, <2>1
  <2>3. m \in Locals /\ SameLine(m, l)
    BY <1>1, UpdateLocals, FieldsAside
  <2> HIDE DEF m, l
  <2> QED BY <1>2, <2>2, <2>3
<1>6. CASE GateOpens(c)
  BY <1>6, WaysAside DEF GateOpens
<1>7. CASE ReplySent(c)
  BY <1>7, WaysAside DEF ReplySent
<1>8. CASE ConnectionStep(c) /\ ~(DisconnectFind(c) \/ GateOpens(c) \/ ReplySent(c))
  <2>1. CASE DisconnectClose(c)
    BY <1>1, <2>1 DEF DisconnectClose, KeepsLine
  <2>2. CASE ~DisconnectClose(c)
    BY <1>8, <2>2, WaysAside DEF ConnectionStep, RecvCall, RecvReturns, RecvEnds, BadJson, GateCloses, ReplyFatal,
       ReplyFails, NotifySize, EvictFromRooms, EvictFromUsers, EvictDone,
       DisconnectFromRooms, DisconnectFromUsers
  <2> QED BY <2>1, <2>2
<1>9. CASE HandlerStep(c) /\ ~(UsersList(c) \/ PublicTextFindSender(c))
  BY <1>9, WaysAside DEF HandlerStep, IdentifyFindFd, IdentifyFindName, IdentifyAdd, StatusFind,
       StatusChange, StatusChangeInRooms, TextFindAddressee, TextCompare,
       TextFindSender, TextSend
<1>10. CASE RoomMember(c)
  <2>1. Req(c).type \in RoomRequests
    BY <1>10, ThreadFacts, HoldsAt DEF RoomMember, Req, EnteringRoom, Holds
  <2> QED BY <1>10, <2>1, WaysAside DEF RoomMember, RoomRequests
<1>11. CASE RoomStep(c) /\ ~(RoomMember(c) \/ RoomUsersList(c))
  BY <1>11, WaysAside DEF RoomStep, NewRoomContains, NewRoomAdd, NewRoomFindCreator, NewRoomAddCreator,
       RoomContains, RoomFindSender, JoinIsGuest, JoinMove, RoomNotify, LeaveRoom,
       LeaveDropRoom, InviteAdd, InviteIsGuest, InviteIsMember
<1> QED BY <1>3, <1>4, <1>5, <1>6, <1>7, <1>8, <1>9, <1>10, <1>11 DEF Thread

\* The broadcast records its failures, ...
LEMMA BroadcastKeepsLine ==
  ASSUME IInv, NEW c \in Conns, NotifyEach(c)
  PROVE  /\ loc'[c].req = loc[c].req /\ loc'[c].from = loc[c].from
         /\ loc'[c].invited = loc[c].invited
         /\ \A u \in loc'[c].failed :
              /\ u \in UsersOf(users)
              /\ FALSE \in SendResults(u.fd, loc[c].note.type = "PUBLIC_TEXT_FROM" /\ IsBig(Req(c)))
<1> DEFINE big == loc[c].note.type = "PUBLIC_TEXT_FROM" /\ IsBig(Req(c))
<1>1. loc[c] \in Locals /\ loc \in [Conns -> Locals]
  BY DEF IInv, TypeOK
<1>2. PICK F \in FailingSets(users, Skipped(c), big) : loc' = [loc EXCEPT ![c].failed = F]
  BY DEF NotifyEach
<1>3. loc'[c] = [loc[c] EXCEPT !.failed = F]
  BY <1>1, <1>2
<1>4. loc'[c].req = loc[c].req /\ loc'[c].from = loc[c].from /\ loc'[c].invited = loc[c].invited
      /\ loc'[c].failed = F
  BY <1>1, <1>3 DEF Locals
<1>5. \A u \in F : u \in UsersOf(users) /\ FALSE \in SendResults(u.fd, big)
  <2> HIDE DEF big
  <2> QED BY <1>2 DEF FailingSets
<1> QED BY <1>4, <1>5

\* ... the loop over them takes one out, ...
LEMMA EvictionKeepsLine ==
  ASSUME IInv, NEW c \in Conns, EvictNext(c)
  PROVE  /\ loc'[c].req = loc[c].req /\ loc'[c].from = loc[c].from
         /\ loc'[c].invited = loc[c].invited
         /\ \E u \in loc[c].failed :
              /\ loc'[c].failed = loc[c].failed \ {u}
              /\ pc'[c] = "evict_rooms" => ContainsFd(users, u.fd) /\ loc'[c].victim = FindByFd(users, u.fd)
<1> DEFINE l == loc[c]
<1>1. l \in Locals /\ loc \in [Conns -> Locals] /\ pc \in [Conns -> Places]
  BY DEF IInv, TypeOK
<1>2. PICK u \in l.failed :
        IF ContainsFd(users, u.fd)
        THEN loc' = [loc EXCEPT ![c].failed = @ \ {u}, ![c].victim = FindByFd(users, u.fd)]
        ELSE loc' = [loc EXCEPT ![c].failed = @ \ {u}] /\ UNCHANGED pc
  BY DEF EvictNext
<1> DEFINE m == [l EXCEPT !.failed = l.failed \ {u}]
<1>3. m.req = l.req /\ m.from = l.from /\ m.invited = l.invited /\ m.failed = l.failed \ {u}
  BY <1>1 DEF Locals
<1>4. CASE ContainsFd(users, u.fd)
  <2> DEFINE v == FindByFd(users, u.fd)
  <2>1. loc'[c] = [m EXCEPT !.victim = v]
    BY <1>1, <1>2, <1>4
  <2>2. l.failed \ {u} \in SUBSET UserCopy
    BY <1>1 DEF Locals
  <2>3. m \in Locals
    BY <1>1, <2>2, UpdateLocals
  <2> HIDE DEF m, l, v
  <2>4. SameLine(loc'[c], m)
    BY <2>1, <2>3, FieldsAside
  <2>5. loc'[c].victim = v
    BY <2>1, <2>3 DEF Locals
  <2> QED BY <1>3, <1>4, <2>4, <2>5 DEF SameLine, l, v
<1>5. CASE ~ContainsFd(users, u.fd)
  <2>1. loc'[c] = m /\ pc'[c] # "evict_rooms"
    BY <1>1, <1>2, <1>5 DEF EvictNext
  <2> HIDE DEF m
  <2> QED BY <1>3, <2>1
<1> QED BY <1>4, <1>5

\* ... and an invitation collects copies of users, and lets go of those it has
\* told.
LEMMA ResolvingKeepsLine ==
  ASSUME IInv, NEW c \in Conns, InviteResolve(c)
  PROVE  \/ KeepsLine(c)
         \/ /\ loc'[c].req = loc[c].req /\ loc'[c].from = loc[c].from
            /\ loc'[c].failed = loc[c].failed
            /\ \E n \in Usernames(users) :
                 loc'[c].invited = Append(loc[c].invited, FindByName(users, n))
<1> DEFINE l == loc[c]
<1>1. l \in Locals /\ loc \in [Conns -> Locals]
  BY DEF IInv, TypeOK
<1>2. CASE ~ContainsName(users, Head(l.todo))
  BY <1>2, WaysAside DEF InviteResolve
<1>3. CASE ContainsName(users, Head(l.todo))
  <2> DEFINE n == Head(l.todo)
             m == [l EXCEPT !.todo = Tail(l.todo)]
             s == Append(l.invited, FindByName(users, n))
  <2>1. loc' = [loc EXCEPT ![c].todo = Tail(@),
                     ![c].invited = Append(@, FindByName(users, Head(loc[c].todo)))]
    BY <1>3 DEF InviteResolve
  <2>2. loc'[c] = [m EXCEPT !.invited = s]
    BY <1>1, <2>1
  <2>3. Tail(l.todo) \in Seq(Names)
    <3>1. l.todo \in Seq(Names) /\ l.todo # << >>
      BY <1>1 DEF Locals, InviteResolve
    <3> QED BY <3>1, HeadTailProperties
  <2>4. m \in Locals /\ SameLine(m, l)
    BY <1>1, <2>3, UpdateLocals, FieldsAside
  <2> HIDE DEF m, s, l
  <2>5. loc'[c].req = m.req /\ loc'[c].from = m.from /\ loc'[c].failed = m.failed
        /\ loc'[c].invited = s
    BY <2>2, <2>4 DEF Locals
  <2> QED BY <1>3, <2>4, <2>5 DEF SameLine, s, l, ContainsName, Usernames
<1> QED BY <1>2, <1>3

LEMMA InvitingKeepsLine ==
  ASSUME IInv, NEW c \in Conns, InviteSend(c)
  PROVE  \/ KeepsLine(c)
         \/ /\ loc'[c].req = loc[c].req /\ loc'[c].from = loc[c].from
            /\ loc'[c].failed = loc[c].failed
            /\ loc[c].invited # << >> /\ loc'[c].invited = Tail(loc[c].invited)
<1> DEFINE l == loc[c]
<1>1. l \in Locals /\ loc \in [Conns -> Locals]
  BY DEF IInv, TypeOK
<1>2. \/ \E x : Disconnect(c, x) \/ Done(c)
      \/ loc' = [loc EXCEPT ![c].invited = Tail(@)]
  BY DEF InviteSend
<1>3. CASE loc' = [loc EXCEPT ![c].invited = Tail(@)]
  <2>1. loc'[c] = [l EXCEPT !.invited = Tail(l.invited)]
    BY <1>1, <1>3
  <2>2. l.invited # << >>
    BY ThreadFacts, HoldsAt DEF InviteSend
  <2> QED BY <1>1, <2>1, <2>2 DEF Locals
<1> QED BY <1>2, <1>3, WaysAside

\* What a thread starts a line with.
LEMMA ExtractStarts ==
  ASSUME IInv, NEW c \in Conns, Extract(c)
  PROVE  LET line == Head(buf[c]) IN
         /\ pc'[c] = Entry(line.req)
         /\ \/ loc'[c] = Fresh
            \/ loc'[c].req = line.req /\ loc'[c].from = line.from /\ loc'[c].dfd = fdOf[c]
         /\ loc'[c].failed = {} /\ loc'[c].invited = << >>
         /\ buf[c] \in Seq(Line) /\ buf[c] # << >> /\ line \in Line
         /\ buf' = [buf EXCEPT ![c] = Tail(buf[c])] /\ UNCHANGED << wire, bound >>
<1> DEFINE line == Head(buf[c])
           x == IF Entry(line.req) = "reply" THEN "INVALID" ELSE None
<1>1. pc \in [Conns -> Places] /\ loc \in [Conns -> Locals] /\ buf[c] \in Seq(Line)
  BY DEF IInv, TypeOK
<1>2. pc'[c] = Entry(line.req) /\ buf[c] # << >>
  BY <1>1 DEF Extract, Goto
<1>3. line \in Line
  BY <1>1, <1>2, HeadTailProperties
<1>4. loc'[c] = IF Entry(line.req) = "next" THEN Fresh
                ELSE [Fresh EXCEPT !.req = line.req, !.from = line.from, !.dfd = fdOf[c], !.reply = x]
  BY <1>1 DEF Extract
<1>5. buf' = [buf EXCEPT ![c] = Tail(buf[c])] /\ UNCHANGED << wire, bound >>
  BY DEF Extract, sockVars
<1> HIDE DEF x, line
<1>6. /\ loc'[c] = Fresh
         \/ (loc'[c].req = line.req /\ loc'[c].from = line.from /\ loc'[c].dfd = fdOf[c])
      /\ loc'[c].failed = {} /\ loc'[c].invited = << >>
  BY <1>4 DEF Fresh
<1> QED BY <1>1, <1>2, <1>3, <1>5, <1>6 DEF line

\* A thread goes on with the line it has, or is done with it.
LEMMA StepsKeepLine ==
  ASSUME IInv, NEW c \in Conns, Thread(c), ~Extract(c)
  PROVE  loc'[c] = Fresh \/ (loc'[c].req = loc[c].req /\ loc'[c].from = loc[c].from)
<1>1. CASE NotifyEach(c) \/ EvictNext(c)
  BY <1>1, BroadcastKeepsLine, EvictionKeepsLine
<1>2. CASE InviteResolve(c)
  BY <1>2, ResolvingKeepsLine DEF KeepsLine, SameLine
<1>3. CASE InviteSend(c)
  BY <1>3, InvitingKeepsLine DEF KeepsLine, SameLine
<1>4. CASE ~(NotifyEach(c) \/ EvictNext(c) \/ InviteResolve(c) \/ InviteSend(c))
  BY <1>4, StepsAside DEF KeepsLine, SameLine
<1> QED BY <1>1, <1>2, <1>3, <1>4

\* A socket is its own thread's.
LEMMA OwnSocket ==
  ASSUME IInv, Registration, Owned, NEW c \in Conns, pc[c] \notin {"off", "end"}
  PROVE  fdOf[c] \in Fds /\ fdt[fdOf[c]] \in {None, c}
<1>1. fdOf[c] \in Fds /\ fdOf[c] # 0
  BY ThreadFacts, ChatAssumption DEF Fds
<1>2. CASE fdt[fdOf[c]] # None
  <2>1. fdt[fdOf[c]] \in Conns /\ fdOf[fdt[fdOf[c]]] = fdOf[c]
    BY <1>1, <1>2 DEF IInv, TypeOK, Owned
  <2> QED BY <1>1, <2>1 DEF Registration, OwnDescriptors
<1> QED BY <1>1, <1>2

-----------------------------------------------------------------------------
\* The lines of a client.

\* The lines a thread has are its own client's.
OwnLines(c) ==
  /\ bound[c] \in {None, c} /\ loc[c].from \in {None, c}
  /\ buf[c] \in Seq([req : Request, from : {c}])
LinesAreOwn == \A c \in Conns : OwnLines(c)

LEMMA OwnLinesKept ==
  ASSUME IInv, Registration, Owned, NEW c \in Conns, OwnLines(c), Thread(c)
  PROVE  OwnLines(c)'
<1> DEFINE Own == [req : Request, from : {c}]
<1>1. /\ bound \in [Conns -> Conns \cup {None}] /\ buf \in [Conns -> Seq(Line)]
      /\ wire \in [Conns -> Seq(Request)] /\ pc[c] \notin {"off", "end"}
  BY ThreadsAreOn DEF IInv, TypeOK
<1>2. /\ bound[c] \in {None, c} /\ loc[c].from \in {None, c} /\ buf[c] \in Seq(Own)
  BY DEF OwnLines
<1>3. Fresh.from = None
  BY DEF Fresh
<1>4. CASE Extract(c)
  <2>1. /\ loc'[c] = Fresh \/ loc'[c].from = Head(buf[c]).from
        /\ buf'[c] = Tail(buf[c]) /\ buf[c] # << >> /\ bound' = bound
    BY <1>1, <1>4, ExtractStarts
  <2>2. Head(buf[c]) \in Own /\ Tail(buf[c]) \in Seq(Own)
    BY <1>2, <2>1, HeadTailProperties
  <2>3. Head(buf[c]).from = c
    BY <2>2
  <2> QED BY <1>2, <1>3, <2>1, <2>2, <2>3 DEF OwnLines
<1>5. loc'[c].from \in {None, c}
  BY <1>2, <1>3, <1>4, StepsKeepLine DEF OwnLines
<1>6. CASE RecvCall(c)
  <2>1. bound'[c] = fdt[fdOf[c]] /\ buf' = buf
    BY <1>1, <1>6 DEF RecvCall
  <2>2. bound'[c] \in {None, c}
    BY <1>1, <2>1, OwnSocket
  <2> QED BY <1>2, <1>5, <2>1, <2>2 DEF OwnLines
<1>7. CASE RecvEnds(c)
  <2>1. bound'[c] = None /\ buf' = buf
    BY <1>1, <1>7 DEF RecvEnds
  <2> QED BY <1>2, <1>5, <2>1 DEF OwnLines
<1>8. CASE RecvReturns(c)
  <2> DEFINE d == bound[c]
  <2>1. d = c
    BY <1>2, <1>8, ChatAssumption, Halves DEF RecvReturns, Threads, LocalsReady
  <2>2. PICK k \in 1..Len(wire[d]) :
          buf' = [buf EXCEPT ![c] = [i \in 1..k |-> [req |-> wire[d][i], from |-> d]]]
    BY <1>8 DEF RecvReturns
  <2>3. [i \in 1..k |-> [req |-> wire[d][i], from |-> d]] \in Seq(Own)
    <3>1. wire[d] \in Seq(Request)
      BY <1>1, <2>1
    <3>2. ASSUME NEW i \in 1..k PROVE [req |-> wire[d][i], from |-> d] \in Own
      BY <2>1, <2>2, <3>1, ElementOfSeq
    <3> QED BY <3>1, <3>2, <2>2, IsASeq, LenProperties
  <2>4. bound'[c] = None
    BY <1>1, <1>8 DEF RecvReturns
  <2> QED BY <1>1, <1>5, <2>2, <2>3, <2>4 DEF OwnLines
<1>9. CASE ~(RecvCall(c) \/ RecvReturns(c) \/ RecvEnds(c) \/ Extract(c))
  <2>1. buf' = buf /\ bound' = bound
    BY <1>9, OnlyLoopReceives
  <2> QED BY <1>2, <1>5, <2>1 DEF OwnLines
<1> QED BY <1>4, <1>6, <1>7, <1>8, <1>9

\* A thread takes only what its own client has sent.
LEMMA OthersLines ==
  ASSUME IInv, NEW c \in Conns, OwnLines(c), Thread(c), NEW d \in Conns, d # c
  PROVE  wire'[d] = wire[d] /\ buf'[d] = buf[d] /\ bound'[d] = bound[d]
<1>1. /\ bound \in [Conns -> Conns \cup {None}] /\ buf \in [Conns -> Seq(Line)]
      /\ wire \in [Conns -> Seq(Request)]
  BY DEF IInv, TypeOK
<1>2. CASE RecvCall(c) \/ RecvEnds(c)
  BY <1>1, <1>2 DEF RecvCall, RecvEnds, sockVars
<1>3. CASE RecvReturns(c)
  <2>1. bound[c] = c
    BY <1>3, ChatAssumption, Halves DEF OwnLines, RecvReturns, Threads, LocalsReady
  <2> QED BY <1>1, <1>3, <2>1 DEF RecvReturns
<1>4. CASE Extract(c)
  BY <1>1, <1>4 DEF Extract, sockVars
<1>5. CASE ~(RecvCall(c) \/ RecvReturns(c) \/ RecvEnds(c) \/ Extract(c))
  BY <1>5, OnlyLoopReceives
<1> QED BY <1>2, <1>3, <1>4, <1>5

\* A recv waits on its thread's own socket, or on none, as long as no number is
\* handed out while somebody remembers its former use.
LEMMA OwnLinesHold ==
  ASSUME ~Reuse
  PROVE  Spec => []LinesAreOwn
<1>1. Init => LinesAreOwn
  BY EmptySeq DEF Init, Fresh, LinesAreOwn, OwnLines
<1>2. LinesAreOwn /\ Introduction /\ Registration /\ IInv /\ [Next]_vars => LinesAreOwn'
  <2> SUFFICES ASSUME LinesAreOwn, Introduction, Registration, IInv, [Next]_vars
               PROVE  LinesAreOwn'
    OBVIOUS
  <2>1. CASE UNCHANGED << bound, buf, loc >>
    BY <2>1 DEF LinesAreOwn, OwnLines
  <2>2. ASSUME NEW c \in Conns, ClientStep(c) PROVE LinesAreOwn'
    BY <2>1, <2>2 DEF ClientStep, Accept, Submit, Vanish
  <2>3. ASSUME NEW c \in Conns, Thread(c) PROVE LinesAreOwn'
    <3>1. OwnLines(c)'
      BY <2>3, OwnLinesKept DEF LinesAreOwn, Introduction
    <3>2. ASSUME NEW d \in Conns, d # c PROVE OwnLines(d)'
      <4>1. loc'[d] = loc[d] /\ buf'[d] = buf[d] /\ bound'[d] = bound[d]
        BY <2>3, <3>2, OthersStandStill, OthersLines DEF LinesAreOwn
      <4> QED BY <4>1 DEF LinesAreOwn, OwnLines
    <3> QED BY <3>1, <3>2 DEF LinesAreOwn
  <2>4. UNCHANGED vars => UNCHANGED << bound, buf, loc >>
    BY DEF vars
  <2> QED BY <2>1, <2>2, <2>3, <2>4 DEF Next, Idling
<1> QED BY <1>1, <1>2, Invariance, RegistrationHolds, IntroductionHolds, PTL DEF Spec

\* A thread serves the line it served, but for the one it begins.
LEMMA LineServed ==
  ASSUME IInv, IInv', NEW c \in Conns, Thread(c), pc'[c] \in Serving
  PROVE  /\ loc'[c] # Fresh /\ fdOf' = fdOf
         /\ ~Extract(c) => /\ pc[c] \in Serving
                           /\ loc'[c].req = loc[c].req /\ loc'[c].from = loc[c].from
<1>1. loc'[c] # Fresh
  <2>1. loc'[c].from \in Conns
    BY DEF IInv, LocalsReady, Holds
  <2>2. Fresh.from \notin Conns
    BY ChatAssumption DEF Fresh
  <2> QED BY <2>1, <2>2
<1>2. fdOf' = fdOf
  BY ThreadsOnlyClose DEF SocketsStay
<1>3. ASSUME ~Extract(c)
      PROVE  pc[c] \in Serving /\ loc'[c].req = loc[c].req /\ loc'[c].from = loc[c].from
  BY <1>1, <1>3, StepsKeepLine, OnlyExtractStarts
<1> QED BY <1>1, <1>2, <1>3

\* All that client c has sent and its thread has not served is in S.
LinesIn(c, S) == wire[c] \in Seq(S) /\ buf[c] \in Seq([req : S, from : Conns])

LEMMA LinesInKept ==
  ASSUME IInv, NEW S, NEW c \in Conns, OwnLines(c), LinesIn(c, S), Thread(c)
  PROVE  LinesIn(c, S)'
<1> DEFINE Left == [req : S, from : Conns]
<1>1. wire \in [Conns -> Seq(Request)] /\ buf \in [Conns -> Seq(Line)]
  BY DEF IInv, TypeOK
<1>2. SUFFICES wire'[c] \in Seq(S) /\ buf'[c] \in Seq(Left)
  BY DEF LinesIn
<1>3. wire[c] \in Seq(S) /\ buf[c] \in Seq(Left)
  BY DEF LinesIn
<1>4. CASE RecvReturns(c)
  <2>1. bound[c] = c
    BY <1>4, ChatAssumption, Halves DEF OwnLines, RecvReturns, Threads, LocalsReady
  <2>2. PICK k \in 1..Len(wire[c]) :
          /\ buf' = [buf EXCEPT ![c] = [i \in 1..k |-> [req |-> wire[c][i], from |-> c]]]
          /\ wire' = [wire EXCEPT ![c] = SubSeq(@, k + 1, Len(@))]
    BY <1>4, <2>1 DEF RecvReturns
  <2>3. [i \in 1..k |-> [req |-> wire[c][i], from |-> c]] \in Seq(Left)
    <3>1. ASSUME NEW i \in 1..k PROVE [req |-> wire[c][i], from |-> c] \in Left
      BY <1>3, <2>2, ElementOfSeq
    <3> QED BY <1>3, <3>1, <2>2, IsASeq, LenProperties
  <2>4. SubSeq(wire[c], k + 1, Len(wire[c])) \in Seq(S)
    BY <1>3, SubSeqProperties, LenProperties
  <2> QED BY <1>1, <2>2, <2>3, <2>4
<1>5. CASE Extract(c)
  <2>1. buf'[c] = Tail(buf[c]) /\ buf[c] # << >> /\ wire' = wire
    BY <1>1, <1>5, ExtractStarts
  <2>2. Tail(buf[c]) \in Seq(Left)
    BY <1>3, <2>1, HeadTailProperties
  <2> QED BY <1>3, <2>1, <2>2
<1>6. CASE RecvCall(c) \/ RecvEnds(c)
  BY <1>3, <1>6 DEF RecvCall, RecvEnds, sockVars
<1>7. CASE ~(RecvCall(c) \/ RecvReturns(c) \/ RecvEnds(c) \/ Extract(c))
  BY <1>3, <1>7, OnlyLoopReceives
<1> QED BY <1>4, <1>5, <1>6, <1>7

-----------------------------------------------------------------------------
\* The good clients: who is given up, and for what reason.

\* The descriptor numbers handed out so far.
HandedOut == {f \in Fds : \E d \in Conns : fdOf[d] = f}

\* Nobody can be reached under number f any more: the socket is closed, or its
\* client has gone or is about to.
Unreachable(f) == fdt[f] = None \/ peer[fdt[f]] \in {"leaving", "gone"}
GivenUp(f) == f \in HandedOut /\ Unreachable(f)

\* A client's DISCONNECT is the last thing it does.
Staying == {req \in Request : req.type # "DISCONNECT"}
Farewell(c) == peer[c] \in {"away", "here"} => LinesIn(c, Staying)

\* A thread that sends somebody away: a client that is given up already, or its
\* own, which broke the protocol.
SendingAway(c) == TakingOut(c) \/ pc[c] \in {"bad_json", "dc_find"}
Guilty(c) == Req(c).type = "BAD_JSON" \/ loc[c].reply \in Fatal
Excused(c) == GivenUp(loc[c].dfd) \/ (loc[c].dfd = fdOf[c] /\ Guilty(c))

SendsAwayForAReason(c) ==
  /\ pc[c] \in Serving /\ Req(c).type = "BAD_JSON" => loc[c].dfd = fdOf[c]
  /\ pc[c] \in Inviting => Req(c).type = "INVITE"
  /\ SendingAway(c) => Excused(c)
  /\ TakingOut(c) => loc[c].gone.fd = loc[c].dfd
EvictsTheUnreachable(c) ==
  /\ \A u \in loc[c].failed : GivenUp(u.fd)
  /\ pc[c] \in {"evict_rooms", "evict_user"} => GivenUp(loc[c].victim.fd)
InvitesUsers(c) == \A i \in 1..Len(loc[c].invited) : loc[c].invited[i].fd \in HandedOut

Grounds ==
  \A c \in Conns : /\ Farewell(c)
                   /\ SendsAwayForAReason(c) /\ EvictsTheUnreachable(c) /\ InvitesUsers(c)

(* A text that is sent reaches the open socket it is meant for: it fits its line
   with the sender's name added, and a private one finds its addressee there.
   Otherwise process_text disconnects its sender, and process_public_text
   everybody else (message_handler.c:46-50, 335-339).                       *)
TextsArrive ==
  \A c \in Conns :
    /\ pc[c] = "tx_send" => FALSE \notin SendResults(loc[c].to.fd, IsBig(Req(c)))
    /\ pc[c] = "notify_each" /\ loc[c].note.type = "PUBLIC_TEXT_FROM" => ~IsBig(Req(c))

\* A name or a room that a reply echoes leaves room for the rest of its line.
\* Otherwise the handler disconnects its own client (message_handler.c:349, 577).
EchoesFit == \A c \in Conns : pc[c] = "reply" /\ loc[c].reply \notin Fatal => ~ReplyIsBig(c)

\* A send fails because of the line or because of the client.
LEMMA FailedSends ==
  ASSUME NEW f, FALSE \in SendResults(f, FALSE)
  PROVE  Unreachable(f)
BY DEF SendResults, Unreachable

\* Whom a thread is about to send away or to evict it remembers.
LEMMA ThreadsRemember ==
  ASSUME NEW d \in Conns
  PROVE  /\ Remembered(loc[d].dfd)
         /\ \A u \in loc[d].failed : Remembered(u.fd)
         /\ loc[d].victim \in UserCopy => Remembered(loc[d].victim.fd)
         /\ loc[d].gone \in UserCopy => Remembered(loc[d].gone.fd)
<1>1. Remembered(loc[d].dfd)
  BY DEF Remembered
<1>2. ASSUME NEW u \in Copies(loc[d]) PROVE Remembered(u.fd)
  BY <1>2 DEF Remembered
<1>3. loc[d].failed \subseteq Copies(loc[d])
  BY DEF Copies
<1>4. /\ loc[d].victim \in UserCopy => loc[d].victim \in Copies(loc[d])
      /\ loc[d].gone \in UserCopy => loc[d].gone \in Copies(loc[d])
  BY NoUserIsNone DEF Copies
<1> QED BY <1>1, <1>2, <1>3, <1>4

\* A new connection takes a number nobody remembers, from an ended thread at most.
LEMMA AcceptChangesNumbers ==
  ASSUME ~Reuse, IInv, Owned, NEW c \in Conns, Accept(c)
  PROVE  \E f \in Fds :
           /\ ~Remembered(f) /\ fdt' = [fdt EXCEPT ![f] = c] /\ fdOf[c] = 0 /\ fdOf'[c] = f
           /\ \A d \in Conns : d # c /\ fdOf[d] # f => fdOf'[d] = fdOf[d]
           /\ \A d \in Conns : fdOf[d] = f => pc[d] = "end"
<1>1. PICK f \in Fds :
        /\ fdt' = [fdt EXCEPT ![f] = c] /\ ~Remembered(f)
        /\ fdOf' = [d \in Conns |-> IF d = c THEN f
                                   ELSE IF fdOf[d] = f /\ pc[d] = "end" THEN 0 ELSE fdOf[d]]
  BY DEF Accept
<1>2. \A d \in Conns : fdOf[d] = f => pc[d] = "end"
  BY <1>1 DEF Remembered
<1>3. fdOf[c] = 0
  BY DEF Accept, Owned
<1> QED BY <1>1, <1>2, <1>3

\* A client that is given up stays so, unless its number is forgotten and handed
\* to a new connection.
LEMMA GivenUpStays ==
  ASSUME ~Reuse, IInv, Owned, [Next]_vars
  PROVE  /\ \A f : f \in HandedOut => f \in HandedOut'
         /\ \A f : GivenUp(f) /\ (Remembered(f) \/ fdOf' = fdOf) => GivenUp(f)'
<1>0. /\ fdt \in [Fds -> Conns \cup {None}] /\ fdOf \in [Conns -> Fds \cup {0}] /\ 0 \notin Fds
      /\ peer \in [Conns -> {"away", "here", "leaving", "gone"}]
      /\ peer' \in [Conns -> {"away", "here", "leaving", "gone"}]
  <2>1. peer' \in [Conns -> {"away", "here", "leaving", "gone"}]
    <3>1. IInv'
      BY StepKeeps
    <3> QED BY <3>1 DEF IInv, TypeOK
  <2> QED BY <2>1, ChatAssumption DEF IInv, TypeOK, Fds
<1>1. CASE SocketsStay
  <2>1. ASSUME NEW f \in Fds, Unreachable(f) PROVE Unreachable(f)'
    <3>1. CASE fdt'[f] = None
      BY <3>1 DEF Unreachable
    <3>2. CASE fdt'[f] = fdt[f] /\ fdt[f] # None
      BY <1>0, <1>1, <2>1, <3>2 DEF Unreachable, SocketsStay
    <3> QED BY <1>1, <3>1, <3>2 DEF SocketsStay
  <2> QED BY <1>1, <2>1 DEF SocketsStay, GivenUp, HandedOut
<1>2. ASSUME NEW c \in Conns, Accept(c)
      PROVE  /\ \A f : f \in HandedOut => f \in HandedOut'
             /\ \A f : GivenUp(f) /\ (Remembered(f) \/ fdOf' = fdOf) => GivenUp(f)'
  <2>1. PICK f \in Fds :
          /\ ~Remembered(f) /\ fdt' = [fdt EXCEPT ![f] = c] /\ fdOf[c] = 0 /\ fdOf'[c] = f
          /\ \A d \in Conns : d # c /\ fdOf[d] # f => fdOf'[d] = fdOf[d]
    BY <1>2, AcceptChangesNumbers
  <2>2. peer[c] = "away" /\ peer' = [peer EXCEPT ![c] = "here"] /\ fdOf' # fdOf
    BY <1>0, <1>2, <2>1 DEF Accept
  <2>3. ASSUME NEW g \in HandedOut PROVE g \in HandedOut'
    <3>1. PICK d \in Conns : fdOf[d] = g
      BY DEF HandedOut
    <3>2. g \in Fds /\ d # c
      BY <1>0, <2>1, <3>1 DEF HandedOut
    <3>3. fdOf'[d] = g \/ fdOf'[c] = g
      BY <2>1, <3>1, <3>2
    <3> QED BY <3>2, <3>3 DEF HandedOut
  <2>4. ASSUME NEW g, GivenUp(g), Remembered(g) PROVE GivenUp(g)'
    <3>1. g \in Fds /\ g \in HandedOut' /\ g # f
      BY <2>1, <2>3, <2>4 DEF GivenUp, HandedOut
    <3>2. fdt'[g] = fdt[g]
      BY <1>0, <2>1, <3>1
    <3>3. CASE fdt[g] = None
      BY <3>1, <3>2, <3>3 DEF GivenUp, Unreachable
    <3>4. CASE fdt[g] \in Conns /\ peer[fdt[g]] \in {"leaving", "gone"}
      <4>1. peer'[fdt[g]] = peer[fdt[g]]
        BY <1>0, <2>2, <3>4
      <4> QED BY <3>1, <3>2, <3>4, <4>1 DEF GivenUp, Unreachable
    <3> QED BY <1>0, <2>4, <3>1, <3>3, <3>4 DEF GivenUp, Unreachable
  <2> QED BY <2>2, <2>3, <2>4
<1>3. ASSUME NEW c \in Conns, Thread(c) PROVE SocketsStay
  BY <1>3, ThreadsOnlyClose
<1>4. ASSUME NEW c \in Conns, Submit(c) \/ Vanish(c) PROVE SocketsStay
  <2>1. fdOf' = fdOf /\ fdt' = fdt
    BY <1>4 DEF Submit, Vanish
  <2>2. CASE Submit(c)
    <3>1. PICK p \in {"leaving", "here"} : peer' = [peer EXCEPT ![c] = p]
      BY <2>2 DEF Submit
    <3>2. peer[c] = "here"
      BY <2>2 DEF Submit
    <3> QED BY <1>0, <2>1, <3>1, <3>2 DEF SocketsStay
  <2>3. CASE Vanish(c)
    BY <1>0, <2>1, <2>3 DEF Vanish, SocketsStay
  <2> QED BY <1>4, <2>2, <2>3
<1>5. ASSUME UNCHANGED vars PROVE SocketsStay
  BY <1>0, <1>5 DEF SocketsStay, vars, sockVars
<1> QED BY <1>1, <1>2, <1>3, <1>4, <1>5 DEF Next, ClientStep, Idling

\* Who sends somebody away.
LEMMA WhoSendsAway ==
  ASSUME IInv, NEW c \in Conns, Thread(c), pc'[c] \in {"bad_json", "dc_find"}
  PROVE  Extract(c) \/ BadJson(c) \/ ReplyFatal(c) \/ ReplyFails(c) \/ TextSend(c) \/ InviteSend(c)
<1>1. pc \in [Conns -> Places]
  BY DEF IInv, TypeOK
<1>2. \A q : Goto(c, q) => pc'[c] = q
  BY <1>1 DEF Goto
<1>3. \A req : HandlerOf(req) \notin {"bad_json", "dc_find"}
  BY DEF HandlerOf
<1> USE DEF Done, Reply, Broadcast
<1>4. CASE GateOpens(c)
  BY <1>2, <1>3, <1>4 DEF GateOpens
<1>5. CASE ConnectionStep(c) /\ ~GateOpens(c)
  BY <1>1, <1>2, <1>5 DEF ConnectionStep, RecvCall, RecvReturns, RecvEnds, GateCloses, ReplySent,
       NotifySize, NotifyEach, EvictNext, EvictFromRooms, EvictFromUsers, EvictDone,
       DisconnectFind, DisconnectFromRooms, DisconnectFromUsers, DisconnectClose
<1>6. CASE HandlerStep(c)
  BY <1>2, <1>6 DEF HandlerStep, IdentifyFindFd, IdentifyFindName, IdentifyAdd, StatusFind,
       StatusChange, StatusChangeInRooms, UsersList, TextFindAddressee, TextCompare,
       TextFindSender, PublicTextFindSender
<1>7. CASE RoomMember(c)
  <2>1. Req(c).type \in RoomRequests
    BY <1>7, ThreadFacts, HoldsAt DEF RoomMember, Req, EnteringRoom, Holds
  <2> QED BY <1>2, <1>7, <2>1 DEF RoomMember, RoomRequests
<1>8. CASE RoomStep(c) /\ ~RoomMember(c)
  BY <1>2, <1>8 DEF RoomStep, NewRoomContains, NewRoomAdd, NewRoomFindCreator, NewRoomAddCreator,
       RoomContains, RoomFindSender, InviteResolve, InviteIsMember, InviteIsGuest,
       InviteAdd, JoinIsGuest, JoinMove, RoomUsersList, RoomNotify, LeaveRoom, LeaveDropRoom
<1> QED BY <1>4, <1>5, <1>6, <1>7, <1>8 DEF Thread

\* While somebody is sent away, who and for what reason stays the same.
SameReason(m, l) == m.dfd = l.dfd /\ m.req = l.req /\ m.reply = l.reply

LEMMA ReasonFields ==
  ASSUME NEW l \in Locals, NEW x
  PROVE  /\ SameReason([l EXCEPT !.me = x], l)
         /\ SameReason([l EXCEPT !.to = x], l)
         /\ SameReason([l EXCEPT !.note = x], l)
         /\ SameReason([l EXCEPT !.mx = x], l)
         /\ SameReason([l EXCEPT !.failed = x], l)
         /\ SameReason([l EXCEPT !.victim = x], l)
         /\ SameReason([l EXCEPT !.gone = x], l)
BY DEF Locals, SameReason

LEMMA ReasonStays ==
  ASSUME IInv, NEW c \in Conns,
         \/ NotifySize(c) \/ NotifyEach(c) \/ EvictNext(c) \/ EvictFromRooms(c)
         \/ EvictFromUsers(c) \/ DisconnectFromRooms(c) \/ DisconnectFind(c) \/ BadJson(c)
         \/ EvictDone(c) /\ loc[c].note.type = "DISCONNECTED"
  PROVE  SameReason(loc'[c], loc[c])
<1> DEFINE l == loc[c]
<1>1. l \in Locals /\ loc \in [Conns -> Locals]
  BY DEF IInv, TypeOK
<1>2. CASE loc' = loc
  BY <1>2 DEF SameReason
<1>3. ASSUME NEW x, \/ loc'[c] = [l EXCEPT !.mx = x] \/ loc'[c] = [l EXCEPT !.failed = x]
                    \/ loc'[c] = [l EXCEPT !.victim = x]
      PROVE  SameReason(loc'[c], l)
  <2> HIDE DEF l
  <2> QED BY <1>1, <1>3, ReasonFields
<1>4. ASSUME NEW m \in Locals, SameReason(m, l),
             NEW x, \/ loc'[c] = [m EXCEPT !.victim = x] \/ loc'[c] = [m EXCEPT !.note = x]
      PROVE  SameReason(loc'[c], l)
  <2> HIDE DEF l
  <2>1. SameReason(loc'[c], m)
    BY <1>4, ReasonFields
  <2> QED BY <1>4, <2>1 DEF SameReason
<1>5. CASE NotifySize(c)
  BY <1>1, <1>3, <1>5 DEF NotifySize
<1>6. CASE NotifyEach(c)
  <2>1. PICK F : loc' = [loc EXCEPT ![c].failed = F]
    BY <1>6 DEF NotifyEach
  <2> QED BY <1>1, <1>3, <2>1
<1>7. CASE EvictNext(c)
  <2>1. PICK u \in l.failed :
          IF ContainsFd(users, u.fd)
          THEN loc' = [loc EXCEPT ![c].failed = @ \ {u}, ![c].victim = FindByFd(users, u.fd)]
          ELSE loc' = [loc EXCEPT ![c].failed = @ \ {u}]
    BY <1>7 DEF EvictNext
  <2> DEFINE m == [l EXCEPT !.failed = l.failed \ {u}]
  <2>2. CASE ContainsFd(users, u.fd)
    <3>1. loc'[c] = [m EXCEPT !.victim = FindByFd(users, u.fd)]
      BY <1>1, <2>1, <2>2
    <3>2. l.failed \ {u} \in SUBSET UserCopy
      BY <1>1 DEF Locals
    <3>3. m \in Locals
      BY <1>1, <3>2, UpdateLocals
    <3>4. SameReason(m, l)
      BY <1>1, ReasonFields
    <3> HIDE DEF m, l
    <3> QED BY <1>4, <3>1, <3>3, <3>4 DEF l
  <2>3. CASE ~ContainsFd(users, u.fd)
    <3>1. loc'[c] = m
      BY <1>1, <2>1, <2>3
    <3> QED BY <1>3, <3>1
  <2> QED BY <2>2, <2>3
<1>8. CASE EvictFromUsers(c)
  BY <1>1, <1>3, <1>8 DEF EvictFromUsers
<1>9. CASE EvictFromRooms(c) \/ DisconnectFromRooms(c) \/ BadJson(c)
  BY <1>2, <1>9 DEF EvictFromRooms, DisconnectFromRooms, BadJson
<1>10. CASE EvictDone(c) /\ loc[c].note.type = "DISCONNECTED"
  BY <1>2, <1>10 DEF EvictDone
<1>11. CASE DisconnectFind(c)
  <2>1. CASE ~ContainsFd(users, l.dfd)
    BY <1>2, <1>11, <2>1 DEF DisconnectFind
  <2>2. CASE ContainsFd(users, l.dfd)
    <3> DEFINE u == FindByFd(users, l.dfd)
               n == [type |-> "DISCONNECTED", name |-> u.name, status |-> "out"]
               m == [l EXCEPT !.gone = u]
    <3>1. loc'[c] = [m EXCEPT !.note = n]
      BY <1>1, <1>11, <2>2 DEF DisconnectFind
    <3>2. m \in Locals
      BY <1>1, <1>11, <2>2, ThreadFacts, LookupsYieldUsers, UpdateLocals DEF DisconnectFind
    <3>3. SameReason(m, l)
      BY <1>1, ReasonFields
    <3> HIDE DEF m, n, l
    <3> QED BY <1>4, <3>1, <3>2, <3>3 DEF l
  <2> QED BY <2>1, <2>2
<1> QED
  BY <1>5, <1>6, <1>7, <1>8, <1>9, <1>10, <1>11

LEMMA FarewellKept ==
  ASSUME IInv, NEW c \in Conns, OwnLines(c), Farewell(c), Thread(c)
  PROVE  Farewell(c)'
<1>1. peer' = peer
  BY ThreadsAreOn
<1> QED BY <1>1, LinesInKept DEF Farewell

LEMMA ExcusedBy ==
  ASSUME NEW c \in Conns, NEW f, f \in HandedOut', Unreachable(f)', loc'[c].dfd = f
  PROVE  Excused(c)'
BY DEF Excused, GivenUp, Unreachable, HandedOut

LEMMA ReasonHandedOn ==
  ASSUME ~Reuse, IInv, Owned, NEW c \in Conns, Thread(c), Excused(c), SameReason(loc'[c], loc[c])
  PROVE  Excused(c)'
<1>1. [Next]_vars /\ fdOf' = fdOf
  BY ThreadsOnlyClose DEF Next, SocketsStay
<1>2. CASE GivenUp(loc[c].dfd)
  <2>1. PICK f : f = loc[c].dfd
    OBVIOUS
  <2>2. GivenUp(f)'
    BY <1>1, <1>2, <2>1, GivenUpStays
  <2>3. f \in HandedOut' /\ Unreachable(f)'
    BY <2>2 DEF GivenUp
  <2> QED BY <2>1, <2>3, ExcusedBy DEF SameReason
<1>3. CASE loc[c].dfd = fdOf[c] /\ Guilty(c)
  BY <1>1, <1>3 DEF SameReason, Excused, Guilty, Req
<1> QED BY <1>2, <1>3 DEF Excused

LEMMA MalformedKept ==
  ASSUME IInv, IInv', NEW c \in Conns, SendsAwayForAReason(c), Thread(c),
         pc'[c] \in Serving, loc'[c].req.type = "BAD_JSON"
  PROVE  loc'[c].dfd = fdOf'[c]
<1>1. CASE Extract(c)
  BY <1>1, LineServed, ExtractStarts
<1>2. CASE ~Extract(c)
  <2>1. /\ loc[c].req.type = "BAD_JSON" /\ pc[c] \in Serving /\ fdOf' = fdOf /\ loc'[c] # Fresh
    BY <1>2, LineServed
  <2>2. loc[c].dfd = fdOf[c] /\ pc[c] \notin Inviting
    BY <2>1 DEF SendsAwayForAReason, Req
  <2>3. KeepsRequest(c)
    BY <1>2, <2>1, <2>2, StepsKeepRequest DEF Req
  <2> QED BY <2>1, <2>2, <2>3 DEF KeepsRequest
<1> QED BY <1>1, <1>2

LEMMA InvitersInviteKept ==
  ASSUME IInv, IInv', NEW c \in Conns, SendsAwayForAReason(c), Thread(c), pc'[c] \in Inviting
  PROVE  loc'[c].req.type = "INVITE"
<1>1. pc'[c] \in Serving
  BY DEF Serving
<1>2. ~Extract(c) /\ Req(c).type = "INVITE"
  <2>1. CASE pc[c] \in Inviting
    BY <2>1 DEF SendsAwayForAReason, Inviting, Extract
  <2>2. CASE pc[c] \notin Inviting
    BY <2>2, WhoInvites DEF RoomMember, Extract
  <2> QED BY <2>1, <2>2
<1> QED BY <1>1, <1>2, LineServed DEF Req

LEMMA TakingOutGoesOn ==
  ASSUME IInv, NEW c \in Conns, Thread(c), TakingOut(c), TakingOut(c)'
  PROVE  SameReason(loc'[c], loc[c])
<1>1. pc \in [Conns -> Places]
  BY DEF IInv, TypeOK
<1>2. pc[c] \in Leading
  BY DEF TakingOut, Leading
<1>3. ~DisconnectFromUsers(c)
  BY <1>1 DEF DisconnectFromUsers, Goto, TakingOut, Notifying
<1>4. EvictDone(c) => loc[c].note.type = "DISCONNECTED"
  BY DEF EvictDone, TakingOut, Notifying
<1> QED BY <1>2, <1>3, <1>4, DepartersDepart, ReasonStays

LEMMA TakesOutWhomItSends ==
  ASSUME IInv, NEW c \in Conns, SendsAwayForAReason(c), Thread(c), TakingOut(c)'
  PROVE  loc'[c].gone.fd = loc'[c].dfd
<1>1. loc \in [Conns -> Locals] /\ loc[c] \in Locals
  BY DEF IInv, TypeOK
<1>2. CASE DisconnectFind(c) /\ ContainsFd(users, loc[c].dfd)
  <2> DEFINE u == FindByFd(users, loc[c].dfd)
             n == [type |-> "DISCONNECTED", name |-> u.name, status |-> "out"]
             m == [loc[c] EXCEPT !.gone = u]
  <2>1. loc'[c] = [m EXCEPT !.note = n]
    BY <1>1, <1>2 DEF DisconnectFind
  <2>2. u.fd = loc[c].dfd
    BY <1>2 DEF IInv, TablesCoherent, UsersCoherent, Coherent, FindByFd, FindByName, ContainsFd
  <2>3. m.gone = u /\ m.dfd = loc[c].dfd
    BY <1>1 DEF Locals
  <2>4. m \in Locals
    BY <1>1, <1>2, ThreadFacts, LookupsYieldUsers, UpdateLocals DEF DisconnectFind
  <2> HIDE DEF u, n, m
  <2>5. loc'[c].gone = m.gone /\ loc'[c].dfd = m.dfd
    BY <2>1, <2>4 DEF Locals
  <2> QED BY <2>2, <2>3, <2>5
<1>3. CASE TakingOut(c) /\ loc'[c].gone = loc[c].gone
  BY <1>3, TakingOutGoesOn DEF SendsAwayForAReason, SameReason
<1> QED BY <1>2, <1>3, WhoTakesOut

LEMMA ExcusedKept ==
  ASSUME ~Reuse, IInv, IInv', Registration, Owned, TextsArrive, EchoesFit, NEW c \in Conns,
         Farewell(c), SendsAwayForAReason(c), InvitesUsers(c), Thread(c), SendingAway(c)'
  PROVE  Excused(c)'
<1>0. /\ loc \in [Conns -> Locals] /\ pc \in [Conns -> Places] /\ pc[c] \notin {"off", "end"}
      /\ [Next]_vars /\ fdOf' = fdOf /\ fdOf[c] \in Fds
      /\ peer \in [Conns -> {"away", "here", "leaving", "gone"}]
  BY ThreadsAreOn, ThreadsOnlyClose, ThreadFacts DEF IInv, TypeOK, Next, SocketsStay
<1>1. fdOf[c] \in HandedOut
  BY <1>0 DEF HandedOut
<1>2. ASSUME NEW f, GivenUp(f), loc'[c].dfd = f PROVE Excused(c)'
  <2>1. GivenUp(f)'
    BY <1>0, <1>2, GivenUpStays
  <2> QED BY <1>2, <2>1, ExcusedBy DEF GivenUp
<1>3. CASE TakingOut(c)'
  <2>1. CASE DisconnectFind(c)
    BY <2>1, ReasonStays, ReasonHandedOn DEF DisconnectFind, SendsAwayForAReason, SendingAway
  <2>2. CASE TakingOut(c)
    BY <1>3, <2>2, TakingOutGoesOn, ReasonHandedOn DEF SendsAwayForAReason, SendingAway
  <2> QED BY <1>3, <2>1, <2>2, WhoTakesOut
<1>4. CASE pc'[c] \in {"bad_json", "dc_find"} /\ Extract(c)
  <2> DEFINE line == Head(buf[c])
  <2>1. pc'[c] \in Serving
    BY <1>4 DEF Serving, Disconnecting
  <2>2. /\ pc'[c] = Entry(line.req) /\ loc'[c].dfd = fdOf[c]
        /\ buf[c] \in Seq(Line) /\ buf[c] # << >>
    BY <1>4, <2>1, ExtractStarts, LineServed
  <2>3. line.req.type = "DISCONNECT"
    BY <1>4, <2>2 DEF Entry
  <2>4. peer[c] \notin {"away", "here"}
    <3> SUFFICES ASSUME peer[c] \in {"away", "here"} PROVE FALSE
      OBVIOUS
    <3>1. line \in [req : Staying, from : Conns]
      BY <2>2, HeadTailProperties DEF Farewell, LinesIn
    <3> QED BY <2>3, <3>1 DEF Staying
  <2>5. Unreachable(fdOf[c])
    BY <1>0, <2>4, OwnSocket DEF Unreachable
  <2> QED BY <1>1, <1>2, <2>2, <2>5 DEF GivenUp
<1>5. CASE pc'[c] \in {"bad_json", "dc_find"} /\ BadJson(c)
  BY <1>5, ReasonStays, ReasonHandedOn DEF BadJson, SendsAwayForAReason, SendingAway
<1>6. CASE pc'[c] \in {"bad_json", "dc_find"} /\ ReplyFatal(c)
  <2>1. CASE Req(c).type = "BAD_JSON"
    <3>1. loc' = loc /\ loc[c].dfd = fdOf[c]
      BY <1>6, <2>1 DEF ReplyFatal, SendsAwayForAReason, Serving
    <3> QED BY <1>0, <2>1, <3>1 DEF Excused, Guilty, Req
  <2>2. CASE Req(c).type # "BAD_JSON"
    <3>1. loc' = [loc EXCEPT ![c].dfd = fdOf[c]] /\ loc[c].reply \in Fatal
      BY <1>6, <2>2 DEF ReplyFatal, Disconnect
    <3>2. loc'[c].dfd = fdOf[c] /\ loc'[c].reply = loc[c].reply
      BY <1>0, <3>1 DEF Locals
    <3> QED BY <1>0, <3>1, <3>2 DEF Excused, Guilty
  <2> QED BY <2>1, <2>2
<1>7. CASE pc'[c] \in {"bad_json", "dc_find"} /\ ReplyFails(c)
  <2>1. loc' = [loc EXCEPT ![c].dfd = fdOf[c]] /\ FALSE \in SendResults(fdOf[c], FALSE)
    BY <1>7 DEF ReplyFails, Disconnect, EchoesFit, SendResults
  <2>2. loc'[c].dfd = fdOf[c]
    BY <1>0, <2>1 DEF Locals
  <2> QED BY <1>1, <1>2, <2>1, <2>2, FailedSends DEF GivenUp
<1>8. CASE pc'[c] \in {"bad_json", "dc_find"} /\ TextSend(c)
  <2>1. Done(c)
    BY <1>8 DEF TextSend, TextsArrive, SendResults
  <2> QED BY <1>0, <1>8, <2>1 DEF Done, Goto
<1>9. CASE pc'[c] \in {"bad_json", "dc_find"} /\ InviteSend(c)
  <2> DEFINE f == Head(loc[c].invited).fd
  <2>1. Disconnect(c, f) /\ FALSE \in SendResults(f, FALSE)
    <3>1. PICK delivered \in SendResults(f, FALSE) :
            IF ~delivered THEN Disconnect(c, f) ELSE pc'[c] \in {"next", "iv_member"}
      BY <1>0, <1>9 DEF InviteSend, Done, Goto
    <3>2. delivered \in BOOLEAN
      BY <3>1 DEF SendResults
    <3> HIDE DEF f
    <3> QED BY <1>9, <3>1, <3>2
  <2>2. loc[c].invited # << >> /\ loc[c].invited \in Seq(UserCopy)
    BY <1>0, <1>9, ThreadFacts, HoldsAt DEF InviteSend, Locals
  <2>3. f \in HandedOut
    <3>1. 1 \in 1..Len(loc[c].invited) /\ Head(loc[c].invited) = loc[c].invited[1]
      BY <2>2, HeadTailProperties, LenProperties, EmptySeq
    <3> QED BY <3>1 DEF InvitesUsers
  <2>4. loc'[c].dfd = f
    BY <1>0, <2>1 DEF Disconnect, Locals
  <2> HIDE DEF f
  <2> QED BY <1>2, <2>1, <2>3, <2>4, FailedSends DEF GivenUp
<1> QED
  BY <1>3, <1>4, <1>5, <1>6, <1>7, <1>8, <1>9, WhoSendsAway DEF SendingAway

\* An eviction begins with a failure found in the users table.
LEMMA WhoEvicts ==
  ASSUME IInv, NEW c \in Conns, Thread(c), pc'[c] \in {"evict_rooms", "evict_user"}
  PROVE  EvictNext(c) \/ EvictFromRooms(c)
<1>1. pc \in [Conns -> Places]
  BY DEF IInv, TypeOK
<1>2. \A q : Goto(c, q) => pc'[c] = q
  BY <1>1 DEF Goto
<1>3. pc'[c] \in Leading
  BY DEF Leading, Notifying
<1> USE DEF Done, Broadcast
<1>4. CASE ReplySent(c) \/ StatusChangeInRooms(c) \/ PublicTextFindSender(c) \/ DisconnectFind(c)
  BY <1>2, <1>4 DEF ReplySent, StatusChangeInRooms, PublicTextFindSender, DisconnectFind
<1>5. CASE NotifySize(c) \/ NotifyEach(c) \/ EvictFromUsers(c) \/ EvictDone(c)
           \/ DisconnectFromRooms(c)
  BY <1>2, <1>5 DEF NotifySize, NotifyEach, EvictFromUsers, EvictDone, DisconnectFromRooms
<1> QED BY <1>3, <1>4, <1>5, WhoLeads

\* A broadcast fails for those it cannot reach, and they are evicted.
LEMMA EvictsKept ==
  ASSUME ~Reuse, IInv, Owned, TextsArrive, NEW c \in Conns, EvictsTheUnreachable(c), Thread(c)
  PROVE  EvictsTheUnreachable(c)'
<1>0. /\ loc \in [Conns -> Locals] /\ pc \in [Conns -> Places] /\ [Next]_vars
      /\ Table(users) /\ Coherent(users)
  BY DEF IInv, TypeOK, TablesCoherent, UsersCoherent, Next
<1>1. \A f : GivenUp(f) => GivenUp(f)'
  BY <1>0, GivenUpStays, ThreadsOnlyClose DEF SocketsStay
<1>2. \A u \in loc[c].failed : GivenUp(u.fd)
  BY DEF EvictsTheUnreachable
<1>3. ASSUME NEW u \in loc'[c].failed PROVE GivenUp(u.fd)'
  <2>1. CASE Extract(c)
    BY <1>3, <2>1, ExtractStarts
  <2>2. CASE NotifyEach(c)
    <3>1. /\ u \in UsersOf(users)
          /\ FALSE \in SendResults(u.fd, loc[c].note.type = "PUBLIC_TEXT_FROM" /\ IsBig(Req(c)))
      BY <1>3, <2>2, BroadcastKeepsLine
    <3>2. ~(loc[c].note.type = "PUBLIC_TEXT_FROM" /\ IsBig(Req(c)))
      BY <2>2 DEF TextsArrive, NotifyEach
    <3>3. Unreachable(u.fd)
      BY <3>1, <3>2 DEF SendResults, Unreachable
    <3>4. PICK n \in Usernames(users) : u.fd = users.byName[n].fd
      BY <3>1 DEF UsersOf, FindByName
    <3>5. u.fd \in HandedOut
      BY <1>0, <3>4 DEF HandedOut, Owned, Table
    <3>6. GivenUp(u.fd)
      BY <3>3, <3>5 DEF GivenUp
    <3> QED BY <1>1, <3>6
  <2>3. CASE ~Extract(c) /\ ~NotifyEach(c)
    <3>1. u \in loc[c].failed
      <4>1. CASE EvictNext(c)
        BY <1>3, <4>1, EvictionKeepsLine
      <4>2. CASE InviteResolve(c)
        BY <1>3, <4>2, ResolvingKeepsLine DEF KeepsLine, SameLine, Fresh
      <4>3. CASE InviteSend(c)
        BY <1>3, <4>3, InvitingKeepsLine DEF KeepsLine, SameLine, Fresh
      <4>4. CASE ~EvictNext(c) /\ ~InviteResolve(c) /\ ~InviteSend(c)
        BY <1>3, <2>3, <4>4, StepsAside DEF KeepsLine, SameLine, Fresh
      <4> QED BY <4>1, <4>2, <4>3, <4>4
    <3> QED BY <1>1, <1>2, <3>1
  <2> QED BY <2>1, <2>2, <2>3
<1>4. ASSUME pc'[c] \in {"evict_rooms", "evict_user"} PROVE GivenUp(loc[c].victim.fd)'
  <2>1. EvictNext(c) \/ EvictFromRooms(c)
    BY <1>4, WhoEvicts
  <2>2. PICK f : GivenUp(f) /\ loc'[c].victim.fd = f
    <3>1. CASE EvictNext(c)
      <4>1. PICK u \in loc[c].failed :
              pc'[c] = "evict_rooms" => ContainsFd(users, u.fd) /\ loc'[c].victim = FindByFd(users, u.fd)
        BY <3>1, EvictionKeepsLine
      <4>2. pc'[c] = "evict_rooms"
        BY <1>0, <1>4, <3>1 DEF EvictNext, Goto
      <4>3. loc'[c].victim.fd = u.fd
        BY <1>0, <4>1, <4>2 DEF Coherent, FindByFd, FindByName, ContainsFd
      <4> QED BY <1>2, <4>3
    <3>2. CASE EvictFromRooms(c)
      BY <3>2 DEF EvictFromRooms, EvictsTheUnreachable
    <3> QED BY <2>1, <3>1, <3>2
  <2>3. GivenUp(f)'
    BY <1>1, <2>2
  <2> QED BY <2>2, <2>3 DEF GivenUp, Unreachable, HandedOut
<1> QED BY <1>3, <1>4 DEF EvictsTheUnreachable

\* An invitation is for users, who have had a descriptor.
LEMMA InvitesKept ==
  ASSUME ~Reuse, IInv, Owned, NEW c \in Conns, InvitesUsers(c), Thread(c)
  PROVE  InvitesUsers(c)'
<1>0. /\ loc[c].invited \in Seq(UserCopy) /\ [Next]_vars /\ Table(users)
  BY DEF IInv, TypeOK, Locals, Next
<1>1. \A f : f \in HandedOut => f \in HandedOut'
  BY <1>0, GivenUpStays
<1>2. \A i \in 1..Len(loc[c].invited) : loc[c].invited[i].fd \in HandedOut
  BY DEF InvitesUsers
<1>3. CASE loc'[c].invited = << >>
  BY <1>3 DEF InvitesUsers
<1>4. CASE loc'[c].invited = loc[c].invited
  BY <1>1, <1>2, <1>4 DEF InvitesUsers
<1>5. KeepsLine(c) => loc'[c].invited \in {<< >>, loc[c].invited}
  BY DEF KeepsLine, SameLine, Fresh
<1>6. CASE Extract(c)
  BY <1>3, <1>6, ExtractStarts
<1>7. CASE NotifyEach(c) \/ EvictNext(c)
  BY <1>4, <1>7, BroadcastKeepsLine, EvictionKeepsLine
<1>8. CASE InviteResolve(c) /\ ~KeepsLine(c)
  <2>1. PICK n \in Usernames(users) :
          loc'[c].invited = Append(loc[c].invited, FindByName(users, n))
    BY <1>8, ResolvingKeepsLine
  <2>2. FindByName(users, n).fd \in HandedOut
    BY <1>0 DEF FindByName, HandedOut, Owned, Table
  <2> DEFINE s == loc[c].invited
             u == FindByName(users, n)
  <2>3. Len(Append(s, u)) = Len(s) + 1
        /\ \A i \in 1..Len(s) + 1 : Append(s, u)[i] = IF i <= Len(s) THEN s[i] ELSE u
    <3>1. s \in Seq(UserCopy \cup {u})
      BY <1>0
    <3> HIDE DEF s, u
    <3> QED BY <3>1, AppendProperties
  <2> HIDE DEF s, u
  <2>4. ASSUME NEW i \in 1..Len(s) + 1 PROVE Append(s, u)[i].fd \in HandedOut'
    <3>1. Len(s) \in Nat
      BY <1>0, LenProperties DEF s
    <3> QED BY <1>1, <1>2, <2>2, <2>3, <3>1 DEF s, u
  <2> QED BY <2>1, <2>3, <2>4 DEF InvitesUsers, s, u
<1>9. CASE InviteSend(c) /\ ~KeepsLine(c)
  <2> DEFINE s == loc[c].invited
  <2>1. s # << >> /\ loc'[c].invited = Tail(s)
    BY <1>9, InvitingKeepsLine
  <2>2. Len(s) \in Nat /\ Len(Tail(s)) = Len(s) - 1 /\ \A i \in 1..Len(Tail(s)) : Tail(s)[i] = s[i + 1]
    BY <1>0, <2>1, HeadTailProperties, LenProperties
  <2> HIDE DEF s
  <2>3. ASSUME NEW i \in 1..Len(Tail(s)) PROVE Tail(s)[i].fd \in HandedOut'
    <3>1. i + 1 \in 1..Len(s) /\ Tail(s)[i] = s[i + 1]
      BY <2>2
    <3> QED BY <1>1, <1>2, <3>1 DEF s
  <2> QED BY <2>1, <2>3 DEF InvitesUsers, s
<1>10. CASE ~(Extract(c) \/ NotifyEach(c) \/ EvictNext(c) \/ InviteResolve(c) \/ InviteSend(c))
  BY <1>3, <1>4, <1>5, <1>10, StepsAside
<1> QED BY <1>3, <1>4, <1>5, <1>6, <1>7, <1>8, <1>9, <1>10

-----------------------------------------------------------------------------
\* Every step.

\* Reasons outlive what others do.
LEMMA ReasonsStay ==
  ASSUME ~Reuse, IInv, Owned, [Next]_vars, NEW d \in Conns, loc'[d] = loc[d],
         \/ pc'[d] = pc[d] /\ fdOf'[d] = fdOf[d]
         \/ pc'[d] \in {"next", "end"},
         SendsAwayForAReason(d), EvictsTheUnreachable(d), InvitesUsers(d)
  PROVE  SendsAwayForAReason(d)' /\ EvictsTheUnreachable(d)' /\ InvitesUsers(d)'
<1>1. /\ \A f : f \in HandedOut => f \in HandedOut'
      /\ \A f : GivenUp(f) /\ Remembered(f) => GivenUp(f)'
  BY GivenUpStays
<1>2. InvitesUsers(d)'
  BY <1>1 DEF InvitesUsers
<1>3. \A u \in loc'[d].failed : GivenUp(u.fd)'
  <2> SUFFICES ASSUME NEW u \in loc'[d].failed PROVE GivenUp(u.fd)'
    OBVIOUS
  <2>1. Remembered(u.fd)
    BY ThreadsRemember
  <2> QED BY <1>1, <2>1 DEF EvictsTheUnreachable
<1>4. CASE pc'[d] \in {"next", "end"}
  BY <1>2, <1>3, <1>4 DEF SendsAwayForAReason, EvictsTheUnreachable, SendingAway, TakingOut, Serving,
     Identifying, ChangingStatus, Notifying, Disconnecting, CreatingRoom, EnteringRoom, Inviting
<1>5. CASE pc'[d] = pc[d] /\ fdOf'[d] = fdOf[d]
  <2>1. ASSUME pc[d] \in {"evict_rooms", "evict_user"} PROVE GivenUp(loc[d].victim.fd)'
    <3>1. PICK f : f = loc[d].victim.fd
      OBVIOUS
    <3>2. Remembered(f) /\ GivenUp(f)
      BY <2>1, <3>1, ThreadFacts, HoldsAt, ThreadsRemember DEF EvictsTheUnreachable
    <3>3. GivenUp(f)'
      BY <1>1, <3>2
    <3> QED BY <3>1, <3>3 DEF GivenUp, Unreachable, HandedOut
  <2>2. EvictsTheUnreachable(d)'
    BY <1>3, <1>5, <2>1 DEF EvictsTheUnreachable
  <2>3. ASSUME Excused(d) PROVE Excused(d)'
    <3>1. CASE GivenUp(loc[d].dfd)
      <4>1. PICK f : f = loc[d].dfd
        OBVIOUS
      <4>2. GivenUp(f)'
        BY <1>1, <3>1, <4>1, ThreadsRemember
      <4> QED BY <4>1, <4>2, ExcusedBy DEF GivenUp
    <3>2. CASE loc[d].dfd = fdOf[d] /\ Guilty(d)
      BY <1>5, <3>2 DEF Excused, Guilty, Req
    <3> QED BY <2>3, <3>1, <3>2 DEF Excused
  <2>4. SendingAway(d)' => SendingAway(d)
    BY <1>5 DEF SendingAway, TakingOut
  <2>5. TakingOut(d)' => TakingOut(d)
    BY <1>5 DEF TakingOut
  <2> QED BY <1>2, <1>5, <2>2, <2>3, <2>4, <2>5 DEF SendsAwayForAReason, Req
<1> QED BY <1>4, <1>5

LEMMA ThreadsKeepGrounds ==
  ASSUME ~Reuse, IInv, IInv', Registration, Owned, LinesAreOwn, TextsArrive, EchoesFit,
         Grounds, NEW c \in Conns, Thread(c)
  PROVE  Grounds'
<1>1. /\ OwnLines(c) /\ Farewell(c)
      /\ SendsAwayForAReason(c) /\ EvictsTheUnreachable(c) /\ InvitesUsers(c)
  BY DEF Grounds, LinesAreOwn
<1>2. Farewell(c)'
  BY <1>1, FarewellKept
<1>3. SendsAwayForAReason(c)'
  BY <1>1, MalformedKept, InvitersInviteKept, ExcusedKept, TakesOutWhomItSends
     DEF SendsAwayForAReason, Req
<1>4. EvictsTheUnreachable(c)' /\ InvitesUsers(c)'
  BY <1>1, EvictsKept, InvitesKept
<1>5. ASSUME NEW d \in Conns, d # c
      PROVE  /\ Farewell(d)'
             /\ SendsAwayForAReason(d)' /\ EvictsTheUnreachable(d)' /\ InvitesUsers(d)'
  <2>1. /\ pc'[d] = pc[d] /\ loc'[d] = loc[d] /\ fdOf' = fdOf /\ peer' = peer
        /\ wire'[d] = wire[d] /\ buf'[d] = buf[d]
    BY <1>1, <1>5, OthersStandStill, OthersLines, ThreadsOnlyClose, ThreadsAreOn DEF SocketsStay
  <2>2. Farewell(d)'
    BY <2>1 DEF Grounds, Farewell, LinesIn
  <2>3. SendsAwayForAReason(d)' /\ EvictsTheUnreachable(d)' /\ InvitesUsers(d)'
    BY <2>1, ReasonsStay DEF Grounds, Next
  <2> QED BY <2>2, <2>3
<1> QED BY <1>2, <1>3, <1>4, <1>5 DEF Grounds

LEMMA ClientsKeepGrounds ==
  ASSUME ~Reuse, IInv, Owned, Grounds, NEW c \in Conns, ClientStep(c)
  PROVE  Grounds'
<1>0. /\ loc' = loc /\ buf' = buf /\ [Next]_vars
      /\ peer \in [Conns -> {"away", "here", "leaving", "gone"}]
      /\ pc \in [Conns -> Places] /\ fdOf \in [Conns -> Fds \cup {0}]
      /\ wire \in [Conns -> Seq(Request)]
  BY DEF ClientStep, Accept, Submit, Vanish, Next, IInv, TypeOK
<1>2. ASSUME NEW d \in Conns PROVE Farewell(d)'
  <2>1. Farewell(d)
    BY DEF Grounds
  <2>2. CASE Accept(c)
    <3>1. peer[c] = "away" /\ peer' = [peer EXCEPT ![c] = "here"] /\ wire' = wire
      BY <2>2 DEF Accept
    <3> QED BY <1>0, <2>1, <3>1 DEF Farewell, LinesIn
  <2>3. CASE Vanish(c)
    <3>1. peer' = [peer EXCEPT ![c] = "gone"] /\ wire' = wire
      BY <2>3 DEF Vanish
    <3> QED BY <1>0, <2>1, <3>1 DEF Farewell, LinesIn
  <2>4. CASE Submit(c)
    <3>1. PICK req \in Menu[c][sent[c] + 1] :
            /\ wire' = [wire EXCEPT ![c] = Append(@, req)]
            /\ peer' = [peer EXCEPT ![c] = IF req.type = "DISCONNECT" THEN "leaving" ELSE "here"]
      BY <2>4 DEF Submit
    <3>2. peer[c] = "here" /\ req \in Request
      <4>1. wire' \in [Conns -> Seq(Request)]
        BY StepKeeps, <1>0 DEF IInv, TypeOK
      <4>2. Append(wire[c], req) \in Seq(Request)
        BY <1>0, <3>1, <4>1
      <4>3. req = Append(wire[c], req)[Len(wire[c]) + 1] /\ Len(Append(wire[c], req)) = Len(wire[c]) + 1
        <5>1. wire[c] \in Seq(Request \cup {req})
          BY <1>0
        <5> QED BY <5>1, AppendProperties, LenProperties
      <4>4. Len(wire[c]) \in Nat
        BY <1>0, LenProperties
      <4> QED BY <2>4, <4>2, <4>3, <4>4, ElementOfSeq DEF Submit
    <3>3. CASE d # c
      BY <1>0, <2>1, <3>1, <3>3 DEF Farewell, LinesIn
    <3>4. CASE d = c /\ req.type = "DISCONNECT"
      BY <1>0, <3>1, <3>4 DEF Farewell, LinesIn
    <3>5. CASE d = c /\ req.type # "DISCONNECT"
      <4>1. wire[c] \in Seq(Staying) /\ req \in Staying
        BY <2>1, <3>2, <3>5 DEF Farewell, LinesIn, Staying
      <4>2. Append(wire[c], req) \in Seq(Staying)
        BY <4>1, AppendProperties
      <4> QED BY <1>0, <2>1, <3>1, <3>2, <3>5, <4>2 DEF Farewell, LinesIn
    <3> QED BY <3>3, <3>4, <3>5
  <2> QED BY <2>2, <2>3, <2>4 DEF ClientStep
<1>3. ASSUME NEW d \in Conns
      PROVE  SendsAwayForAReason(d)' /\ EvictsTheUnreachable(d)' /\ InvitesUsers(d)'
  <2>1. \/ pc'[d] = pc[d] /\ fdOf'[d] = fdOf[d]
        \/ pc'[d] \in {"next", "end"}
    <3>1. CASE Accept(c)
      <4>1. pc' = [pc EXCEPT ![c] = "next"]
        BY <3>1 DEF Accept, Goto
      <4> QED BY <1>0, <3>1, <4>1, AcceptChangesNumbers
    <3> QED BY <1>0, <3>1 DEF ClientStep, Submit, Vanish
  <2> QED BY <1>0, <2>1, ReasonsStay DEF Grounds
<1> QED BY <1>2, <1>3 DEF Grounds

LEMMA GroundsKept ==
  ASSUME ~Reuse, IInv, IInv', Registration, Introduction, LinesAreOwn, TextsArrive, EchoesFit,
         Grounds, [Next]_vars
  PROVE  Grounds'
<1>1. CASE UNCHANGED vars
  <2>1. UNCHANGED << peer, wire, pc, fdOf, buf, loc >>
    BY <1>1 DEF vars, sockVars
  <2>2. ASSUME NEW d \in Conns
        PROVE  SendsAwayForAReason(d)' /\ EvictsTheUnreachable(d)' /\ InvitesUsers(d)'
    BY <2>1, ReasonsStay DEF Grounds, Introduction
  <2> QED BY <2>1, <2>2 DEF Grounds, Farewell, LinesIn
<1> QED BY <1>1, ThreadsKeepGrounds, ClientsKeepGrounds DEF Next, Idling, Introduction

(* Whoever is sent away has gone, or broke the protocol, in every execution in
   which texts arrive, replies fit their lines and no number is handed out while
   somebody remembers its former use: failed sends, evictions and invitations
   to the dead included.                                                    *)
THEOREM GroundsHold ==
  ASSUME ~Reuse
  PROVE  Spec /\ []TextsArrive /\ []EchoesFit => []Grounds
<1>1. Init => Grounds
  <2> SUFFICES ASSUME Init PROVE Grounds
    OBVIOUS
  <2> SUFFICES ASSUME NEW c \in Conns
               PROVE  /\ Farewell(c)
                      /\ SendsAwayForAReason(c) /\ EvictsTheUnreachable(c) /\ InvitesUsers(c)
    BY DEF Grounds
  <2>1. /\ pc[c] = "off" /\ loc[c].failed = {} /\ loc[c].invited = << >>
        /\ wire[c] = << >> /\ buf[c] = << >>
    BY DEF Init, Fresh
  <2>2. Farewell(c)
    BY <2>1, EmptySeq DEF Farewell, LinesIn
  <2>3. SendsAwayForAReason(c)
    BY <2>1 DEF SendsAwayForAReason, SendingAway, TakingOut, Serving, Identifying, ChangingStatus,
       Notifying, Disconnecting, CreatingRoom, EnteringRoom, Inviting
  <2>4. EvictsTheUnreachable(c) /\ InvitesUsers(c)
    BY <2>1 DEF EvictsTheUnreachable, InvitesUsers
  <2> QED BY <2>2, <2>3, <2>4
<1>2. Grounds /\ TextsArrive /\ EchoesFit /\ LinesAreOwn /\ Introduction /\ Registration /\ IInv /\ IInv'
        /\ [Next]_vars => Grounds'
  BY GroundsKept
<1> QED BY <1>1, <1>2, Invariance, RegistrationHolds, IntroductionHolds, OwnLinesHold, PTL
        DEF Spec

-----------------------------------------------------------------------------
\* Who loses its name.

(* A name that is about to be removed still belongs to the client it was read
   for.  Between the two a client may have been taken out by another thread and
   somebody else come in under its name (message_handler.c:77-87, 93-105).  *)
StillUnder(u) == ContainsName(users, u.name) => FindByName(users, u.name).fd = u.fd
NobodyInherits ==
  \A c \in Conns : /\ pc[c] = "evict_user" => StillUnder(loc[c].victim)
                   /\ pc[c] = "dc_users" => StillUnder(loc[c].gone)

LEMMA WhoRemoves ==
  ASSUME NEW c \in Conns, Thread(c), NEW n \in Usernames(users), n \notin Usernames(users')
  PROVE  \/ EvictFromUsers(c) /\ n = loc[c].victim.name
         \/ DisconnectFromUsers(c) /\ n = loc[c].gone.name
<1>1. \A m : m # n => n \in Usernames(RemoveUser(users, m))
  BY DEF RemoveUser, Usernames
<1>2. CASE EvictFromUsers(c) \/ DisconnectFromUsers(c)
  BY <1>1, <1>2 DEF EvictFromUsers, DisconnectFromUsers
<1>3. CASE ~EvictFromUsers(c) /\ ~DisconnectFromUsers(c)
  BY <1>3, EntriesStay
<1> QED BY <1>2, <1>3

LEMMA RemovedForAReason ==
  ASSUME IInv, Registration, Owned, LinesAreOwn, Grounds, NobodyInherits,
         NEW c \in Conns, Thread(c), NEW u \in UsersOf(users), ~ContainsName(users', u.name), fdt[u.fd] # None
  PROVE  peer[fdt[u.fd]] # "here" \/ BrokeProtocol(fdt[u.fd])
<1>1. /\ u.name \in Usernames(users) /\ u.name \notin Usernames(users')
      /\ ContainsName(users, u.name) /\ FindByName(users, u.name) = u
  BY DEF UsersOf, FindByName, ContainsName, Usernames
<1>2. ASSUME GivenUp(u.fd) PROVE peer[fdt[u.fd]] # "here"
  BY <1>2 DEF GivenUp, Unreachable
<1>3. CASE EvictFromUsers(c) /\ u.name = loc[c].victim.name
  <2>1. u.fd = loc[c].victim.fd
    BY <1>1, <1>3 DEF EvictFromUsers, NobodyInherits, StillUnder
  <2>2. GivenUp(loc[c].victim.fd)
    BY <1>3 DEF Grounds, EvictsTheUnreachable, EvictFromUsers
  <2> QED BY <1>2, <2>1, <2>2
<1>4. CASE DisconnectFromUsers(c) /\ u.name = loc[c].gone.name
  <2>1. pc[c] = "dc_users" /\ TakingOut(c)
    BY <1>4 DEF DisconnectFromUsers, TakingOut
  <2>2. u.fd = loc[c].dfd /\ Excused(c) /\ OwnLines(c)
    BY <1>1, <1>4, <2>1 DEF LinesAreOwn, NobodyInherits, StillUnder, Grounds, SendsAwayForAReason, SendingAway
  <2>3. CASE loc[c].dfd = fdOf[c] /\ Guilty(c)
    <3>1. fdt[u.fd] = c
      BY <2>1, <2>2, <2>3, OwnSocket
    <3>2. loc[c].from = c
      <4>1. loc[c].from \in Conns
        BY <2>1, ThreadFacts DEF Holds, Serving, Disconnecting
      <4> QED BY <2>2, <4>1, ChatAssumption DEF OwnLines
    <3> QED BY <2>3, <3>1, <3>2 DEF BrokeProtocol, Guilty
  <2> QED BY <1>2, <2>2, <2>3 DEF Excused
<1> QED BY <1>1, <1>3, <1>4, WhoRemoves

(* Only a client that left, or broke the protocol, loses its name, whatever
   fails elsewhere, with any number of clients, INVITEs and evictions: unless a
   text does not arrive, a reply does not fit its line, or a name passes on
   while it is being removed.                                               *)
THEOREM GoodClientsStayHolds ==
  ASSUME ~Reuse
  PROVE  Spec /\ []TextsArrive /\ []EchoesFit /\ []NobodyInherits => GoodClientsStay
<1> DEFINE Stays == \A u \in UsersOf(users) :
                      ~ContainsName(users', u.name) /\ fdt[u.fd] # None
                        => peer[fdt[u.fd]] # "here" \/ BrokeProtocol(fdt[u.fd])
<1>1. IInv /\ Registration /\ Introduction /\ LinesAreOwn /\ Grounds /\ NobodyInherits
        /\ [Next]_vars => [Stays]_vars
  <2> SUFFICES ASSUME IInv, Registration, Introduction, LinesAreOwn, Grounds, NobodyInherits,
                      [Next]_vars, vars' # vars
               PROVE  Stays
    OBVIOUS
  <2>1. ASSUME NEW c \in Conns, ClientStep(c) PROVE Stays
    <3>1. users' = users
      BY <2>1 DEF ClientStep, Accept, Submit, Vanish, tabVars
    <3> QED BY <3>1 DEF UsersOf, FindByName, ContainsName, Usernames
  <2>2. ASSUME NEW c \in Conns, Thread(c) PROVE Stays
    BY <2>2, RemovedForAReason DEF Introduction
  <2> QED BY <2>1, <2>2 DEF Next, Idling
<1> QED BY <1>1, GroundsHold, Invariance, RegistrationHolds, IntroductionHolds, OwnLinesHold, PTL
        DEF Spec, GoodClientsStay

-----------------------------------------------------------------------------
\* The same of a menu: what clients may ask is all that has to be known.

Asks(c) == UNION {Menu[c][i] : i \in 1..Len(Menu[c])}
NamesOf(c) == {Clip8[req.username] : req \in {q \in Asks(c) : q.type = "IDENTIFY"}}

\* No two clients ask for the same name, nobody writes a name or a room too long
\* to be echoed, and nobody sends a private text or one that does not fit its line.
NamesApart == \A c, d \in Conns : c # d => NamesOf(c) \cap NamesOf(d) = {}
LinesFit == (Names \cup Rooms) \cap Oversized = {}
TextsFit == \A c \in Conns : \A req \in Asks(c) : req.type # "TEXT" /\ ~IsBig(req)

Writing == {"tx_find_to", "tx_compare", "tx_find_from", "tx_send"}

(* Every name stays with the descriptor of a client that asks for it; a thread
   serves what its client asks, and does not write in private.              *)
Belongs(n, f) == \E d \in Conns : fdOf[d] = f /\ f \in Fds /\ n \in NamesOf(d)
TakesOutOwners(c) ==
  /\ pc[c] \in {"evict_rooms", "evict_user"} => Belongs(loc[c].victim.name, loc[c].victim.fd)
  /\ TakingOut(c) => Belongs(loc[c].gone.name, loc[c].gone.fd)
Asking(c) ==
  /\ LinesIn(c, Asks(c))
  /\ pc[c] \in Serving => Req(c) \in Asks(c)
AsAsked(c) ==
  /\ Asking(c) /\ pc[c] \notin Writing
  /\ pc[c] = "reply" /\ loc[c].reply = "NO_SUCH_USER" => loc[c].todo # << >>
ByTheMenu ==
  /\ \A n \in Usernames(users) : Belongs(n, users.byName[n].fd)
  /\ \A c \in Conns : AsAsked(c) /\ TakesOutOwners(c)

\* Only a request of that type writes.
LEMMA WhoWrites ==
  ASSUME IInv, NEW c \in Conns, Thread(c), pc'[c] \in Writing
  PROVE  pc[c] \in Writing \/ (pc[c] = "gate" /\ Req(c).type = "TEXT")
<1>1. pc \in [Conns -> Places]
  BY DEF IInv, TypeOK
<1>2. \A q : Goto(c, q) => pc'[c] = q
  BY <1>1 DEF Goto
<1>3. \A req : HandlerOf(req) \in Writing => req.type = "TEXT"
  BY DEF HandlerOf, Writing
<1>4. \A req : Entry(req) \notin Writing
  BY DEF Entry, Writing
<1> USE DEF Done, Reply, Broadcast, Disconnect, Writing
<1>5. CASE GateOpens(c)
  BY <1>2, <1>3, <1>5 DEF GateOpens
<1>6. CASE ConnectionStep(c) /\ ~GateOpens(c)
  BY <1>1, <1>2, <1>4, <1>6 DEF ConnectionStep, RecvCall, RecvReturns, RecvEnds, Extract, BadJson,
       GateCloses, ReplyFatal, ReplyFails, ReplySent, NotifySize, NotifyEach, EvictNext,
       EvictFromRooms, EvictFromUsers, EvictDone, DisconnectFind, DisconnectFromRooms,
       DisconnectFromUsers, DisconnectClose
<1>7. CASE TextFindAddressee(c) \/ TextCompare(c) \/ TextFindSender(c) \/ TextSend(c)
  BY <1>7 DEF TextFindAddressee, TextCompare, TextFindSender, TextSend
<1>8. CASE HandlerStep(c) /\ ~(TextFindAddressee(c) \/ TextCompare(c) \/ TextFindSender(c) \/ TextSend(c))
  BY <1>2, <1>8 DEF HandlerStep, IdentifyFindFd, IdentifyFindName, IdentifyAdd, StatusFind,
       StatusChange, StatusChangeInRooms, UsersList, PublicTextFindSender
<1>9. CASE RoomMember(c)
  <2>1. Req(c).type \in RoomRequests
    BY <1>9, ThreadFacts, HoldsAt DEF RoomMember, Req, EnteringRoom, Holds
  <2> QED BY <1>2, <1>9, <2>1 DEF RoomMember, RoomRequests
<1>10. CASE RoomStep(c) /\ ~RoomMember(c)
  BY <1>2, <1>10 DEF RoomStep, NewRoomContains, NewRoomAdd, NewRoomFindCreator, NewRoomAddCreator,
       RoomContains, RoomFindSender, InviteResolve, InviteIsMember, InviteIsGuest, InviteAdd,
       InviteSend, JoinIsGuest, JoinMove, RoomUsersList, RoomNotify, LeaveRoom, LeaveDropRoom
<1> QED BY <1>5, <1>6, <1>7, <1>8, <1>9, <1>10 DEF Thread

\* Only a private text or an invitation looks for a user by name.
LEMMA WhoMissesAUser ==
  ASSUME IInv, NEW c \in Conns, Thread(c), pc'[c] = "reply", loc'[c].reply = "NO_SUCH_USER"
  PROVE  \/ pc[c] \in Writing
         \/ loc[c].todo # << >> /\ loc'[c].todo = loc[c].todo
<1>1. pc \in [Conns -> Places] /\ loc \in [Conns -> Locals] /\ loc[c] \in Locals
  BY DEF IInv, TypeOK
<1>2. \A q : Goto(c, q) => pc'[c] = q
  BY <1>1 DEF Goto
<1>3. ASSUME NEW x, Reply(c, x)
      PROVE  loc'[c].reply = x /\ loc'[c].todo = loc[c].todo
  <2>1. loc'[c] = [loc[c] EXCEPT !.reply = x]
    BY <1>1, <1>3 DEF Reply
  <2> QED BY <1>1, <2>1 DEF Locals
<1>4. \A x : Reply(c, x) => x = "NO_SUCH_USER"
  BY <1>3
<1>5. CASE Extract(c)
  <2>1. Entry(Head(buf[c]).req) = "reply"
    BY <1>2, <1>5 DEF Extract
  <2> DEFINE line == Head(buf[c])
             m == [Fresh EXCEPT !.req = line.req, !.from = line.from, !.dfd = fdOf[c],
                                !.reply = "INVALID"]
  <2>2. loc' = [loc EXCEPT ![c] = m]
    BY <1>5, <2>1 DEF Extract
  <2>3. m.reply = "INVALID"
    BY DEF Fresh
  <2> HIDE DEF m
  <2>4. loc'[c].reply = "INVALID"
    BY <1>1, <2>2, <2>3
  <2> QED BY <2>4
<1>6. CASE GateOpens(c)
  <2>1. HandlerOf(Req(c)) # "reply"
    BY <1>4, <1>6 DEF GateOpens
  <2> QED BY <1>2, <1>6, <2>1 DEF GateOpens, Done
<1>7. CASE GateCloses(c)
  BY <1>4, <1>7 DEF GateCloses
<1>8. CASE ConnectionStep(c) /\ ~(Extract(c) \/ GateOpens(c) \/ GateCloses(c))
  BY <1>1, <1>2, <1>8 DEF ConnectionStep, RecvCall, RecvReturns, RecvEnds, BadJson,
       ReplyFatal, ReplyFails, ReplySent, NotifySize, NotifyEach, EvictNext, EvictFromRooms,
       EvictFromUsers, EvictDone, DisconnectFind, DisconnectFromRooms, DisconnectFromUsers,
       DisconnectClose, Done, Broadcast, Disconnect
<1>9. CASE TextFindAddressee(c) \/ TextCompare(c) \/ TextFindSender(c) \/ TextSend(c)
  BY <1>9 DEF TextFindAddressee, TextCompare, TextFindSender, TextSend, Writing
<1>10. CASE UsersList(c) \/ RoomUsersList(c)
  <2>1. PICK x \in {"USER_LIST", "ROOM_USER_LIST"} :
          \E y : loc' = [loc EXCEPT ![c].reply = x, ![c].list = y]
    BY <1>10 DEF UsersList, RoomUsersList
  <2>2. PICK y : loc' = [loc EXCEPT ![c].reply = x, ![c].list = y]
    BY <2>1
  <2> DEFINE m == [loc[c] EXCEPT !.reply = x]
  <2>3. loc'[c] = [m EXCEPT !.list = y]
    BY <1>1, <2>2
  <2>4. m.reply = x /\ "reply" \in DOMAIN m
    BY <1>1 DEF Locals
  <2> HIDE DEF m
  <2>5. loc'[c].reply = x
    BY <2>3, <2>4
  <2> QED BY <2>5
<1>11. CASE HandlerStep(c) /\ ~(UsersList(c) \/ TextFindAddressee(c) \/ TextCompare(c)
                               \/ TextFindSender(c) \/ TextSend(c))
  BY <1>2, <1>4, <1>11 DEF HandlerStep, IdentifyFindFd, IdentifyFindName, IdentifyAdd,
       StatusFind, StatusChange, StatusChangeInRooms, PublicTextFindSender, Done, Broadcast
<1>12. CASE InviteResolve(c)
  BY <1>2, <1>3, <1>12 DEF InviteResolve
<1>13. CASE RoomStep(c) /\ ~(RoomUsersList(c) \/ InviteResolve(c))
  <2>1. CASE RoomMember(c)
    <3>1. Req(c).type \in RoomRequests
      <4>1. pc[c] = "rm_member"
        BY <2>1 DEF RoomMember
      <4> QED BY <4>1, ThreadFacts DEF Req, EnteringRoom, Holds
    <3>2. ~Reply(c, "INVALID") /\ ~Reply(c, "NOT_JOINED")
      BY <1>4
    <3>3. CASE IsMember(Room(c), loc[c].me.fd)
      BY <1>2, <2>1, <3>1, <3>3 DEF RoomMember, RoomRequests, Done
    <3>4. CASE ~IsMember(Room(c), loc[c].me.fd)
      BY <1>2, <2>1, <3>1, <3>2, <3>4 DEF RoomMember, RoomRequests
    <3> QED BY <3>3, <3>4
  <2> QED
    BY <1>2, <1>4, <1>13, <2>1 DEF RoomStep, NewRoomContains, NewRoomAdd, NewRoomFindCreator,
       NewRoomAddCreator, RoomContains, RoomFindSender, InviteIsMember, InviteIsGuest, InviteAdd,
       InviteSend, JoinIsGuest, JoinMove, RoomNotify, LeaveRoom, LeaveDropRoom, Done, Broadcast,
       Disconnect
<1> QED BY <1>5, <1>6, <1>7, <1>8, <1>9, <1>10, <1>11, <1>12, <1>13 DEF Thread

\* A thread goes on with what its client asked.
LEMMA AskingKept ==
  ASSUME IInv, IInv', NEW c \in Conns, OwnLines(c), Asking(c), Thread(c)
  PROVE  Asking(c)'
<1>1. LinesIn(c, Asks(c))'
  BY LinesInKept DEF Asking
<1>2. ASSUME pc'[c] \in Serving PROVE loc'[c].req \in Asks(c)
  <2>1. CASE Extract(c)
    <3> DEFINE line == Head(buf[c])
    <3>1. loc'[c].req = line.req /\ buf[c] # << >>
      BY <1>2, <2>1, ExtractStarts, LineServed
    <3>2. line \in [req : Asks(c), from : Conns]
      BY <3>1, HeadTailProperties DEF Asking, LinesIn
    <3> QED BY <3>1, <3>2
  <2>2. CASE ~Extract(c)
    BY <1>2, <2>2, LineServed DEF Asking, Req
  <2> QED BY <2>1, <2>2
<1> QED BY <1>1, <1>2 DEF Asking, Req, Asks, LinesIn

LEMMA AsAskedKept ==
  ASSUME TextsFit, IInv, IInv', NEW c \in Conns, OwnLines(c), AsAsked(c), Thread(c)
  PROVE  AsAsked(c)'
<1>1. Asking(c)'
  BY AskingKept DEF AsAsked
<1>2. pc[c] = "gate" => Req(c) \in Asks(c)
  BY DEF AsAsked, Asking, Serving
<1>3. pc'[c] \notin Writing
  BY <1>2, WhoWrites DEF AsAsked, TextsFit
<1>4. ASSUME pc'[c] = "reply", loc'[c].reply = "NO_SUCH_USER" PROVE loc'[c].todo # << >>
  BY <1>4, WhoMissesAUser DEF AsAsked
<1> QED BY <1>1, <1>3, <1>4 DEF AsAsked

\* A client sends what it may ask.
LEMMA SubmitsAsAsked ==
  ASSUME IInv, NEW c \in Conns, Submit(c), Asking(c)
  PROVE  Asking(c)'
<1>1. /\ wire \in [Conns -> Seq(Request)] /\ Menu[c] \in Seq(SUBSET Request) /\ sent[c] \in Nat
      /\ UNCHANGED << pc, buf, loc >>
  BY ChatAssumption DEF IInv, TypeOK, Submit
<1>2. PICK req \in Menu[c][sent[c] + 1] : wire' = [wire EXCEPT ![c] = Append(@, req)]
  BY DEF Submit
<1>3. req \in Asks(c)
  <2>1. sent[c] + 1 \in 1..Len(Menu[c])
    BY <1>1, LenProperties DEF Submit
  <2> QED BY <1>2, <2>1 DEF Asks
<1>4. wire'[c] \in Seq(Asks(c))
  BY <1>1, <1>2, <1>3, AppendProperties DEF Asking, LinesIn
<1> QED BY <1>1, <1>4 DEF Asking, LinesIn, Req, Asks

\* Whom a thread takes out it has found in the table.
LEMMA FoundBelongs ==
  ASSUME IInv, ByTheMenu, NEW f, ContainsFd(users, f)
  PROVE  Belongs(FindByFd(users, f).name, FindByFd(users, f).fd)
BY DEF IInv, TablesCoherent, UsersCoherent, Coherent, ByTheMenu, FindByFd, FindByName, ContainsFd

LEMMA TakesOutOwnersKept ==
  ASSUME IInv, ByTheMenu, NEW c \in Conns, Thread(c)
  PROVE  TakesOutOwners(c)'
<1>1. fdOf' = fdOf /\ loc \in [Conns -> Locals] /\ pc \in [Conns -> Places]
  BY ThreadsOnlyClose DEF SocketsStay, IInv, TypeOK
<1>2. ASSUME NEW n, NEW f, Belongs(n, f) PROVE Belongs(n, f)'
  BY <1>1, <1>2 DEF Belongs, NamesOf, Asks
<1>3. TakesOutOwners(c)
  BY DEF ByTheMenu
<1>4. ASSUME pc'[c] \in {"evict_rooms", "evict_user"}
      PROVE  Belongs(loc[c].victim.name, loc[c].victim.fd)'
  <2> DEFINE v == loc'[c].victim
  <2>1. CASE EvictNext(c)
    <3>1. PICK u \in loc[c].failed :
            pc'[c] = "evict_rooms" => ContainsFd(users, u.fd) /\ v = FindByFd(users, u.fd)
      BY <2>1, EvictionKeepsLine
    <3>2. pc'[c] = "evict_rooms"
      BY <1>1, <1>4, <2>1 DEF EvictNext, Goto
    <3>3. Belongs(v.name, v.fd)
      BY <3>1, <3>2, FoundBelongs
    <3> HIDE DEF v
    <3>4. PICK d \in Conns : fdOf[d] = v.fd /\ v.fd \in Fds /\ v.name \in NamesOf(d)
      BY <3>3 DEF Belongs
    <3> QED BY <1>1, <3>4 DEF Belongs, v, NamesOf, Asks
  <2>2. CASE EvictFromRooms(c)
    <3>1. loc' = loc /\ pc[c] = "evict_rooms"
      BY <2>2 DEF EvictFromRooms
    <3> QED BY <1>1, <1>3, <3>1 DEF TakesOutOwners, Belongs, NamesOf, Asks
  <2> QED BY <1>4, <2>1, <2>2, WhoEvicts
<1>5. ASSUME TakingOut(c)' PROVE Belongs(loc[c].gone.name, loc[c].gone.fd)'
  <2> DEFINE g == loc'[c].gone
  <2>1. Belongs(g.name, g.fd)
    <3>1. CASE DisconnectFind(c) /\ ContainsFd(users, loc[c].dfd)
      <4> DEFINE u == FindByFd(users, loc[c].dfd)
                 m == [loc[c] EXCEPT !.gone = u]
      <4>1. u \in UserCopy /\ loc[c] \in Locals
        BY <1>1, <3>1, ThreadsAreOn, ThreadFacts, LookupsYieldUsers
      <4>2. loc'[c] = [m EXCEPT !.note = [type |-> "DISCONNECTED", name |-> u.name, status |-> "out"]]
        BY <1>1, <3>1 DEF DisconnectFind
      <4>3. Belongs(u.name, u.fd)
        BY <3>1, FoundBelongs
      <4> HIDE DEF u
      <4>4. m \in Locals
        BY <4>1, UpdateLocals
      <4>6. m.gone = u
        BY <4>1 DEF Locals
      <4> HIDE DEF m
      <4>5. loc'[c].gone = u
        BY <4>2, <4>4, <4>6 DEF Locals
      <4> QED BY <4>3, <4>5
    <3>2. CASE TakingOut(c) /\ loc'[c].gone = loc[c].gone
      BY <1>3, <3>2 DEF TakesOutOwners
    <3> QED BY <1>5, <3>1, <3>2, WhoTakesOut
  <2> HIDE DEF g
  <2>2. PICK d \in Conns : fdOf[d] = g.fd /\ g.fd \in Fds /\ g.name \in NamesOf(d)
    BY <2>1 DEF Belongs
  <2> QED BY <1>1, <2>2 DEF Belongs, g, NamesOf, Asks
<1> QED BY <1>4, <1>5 DEF TakesOutOwners

\* IDENTIFY registers a name the client asks for.
LEMMA UsersBelongKept ==
  ASSUME IInv, ByTheMenu, NEW c \in Conns, Thread(c), NEW n \in Usernames(users')
  PROVE  Belongs(n, users.byName[n].fd)'
<1>1. fdOf' = fdOf
  BY ThreadsOnlyClose DEF SocketsStay
<1>2. CASE n \in Usernames(users) /\ users'.byName[n].fd = users.byName[n].fd
  BY <1>1, <1>2 DEF ByTheMenu, Belongs, NamesOf, Asks
<1>3. CASE IdentifyAdd(c) /\ ~(n \in Usernames(users) /\ users'.byName[n].fd = users.byName[n].fd)
  <2>1. n = Wanted(c) /\ users'.byName[n].fd = fdOf[c]
    BY <1>3 DEF IdentifyAdd, AddUser, Usernames, ContainsName
  <2>2. Wanted(c) \in NamesOf(c)
    <3>1. pc[c] = "id_add" /\ pc[c] \in Serving
      BY <1>3 DEF IdentifyAdd, Serving, Identifying
    <3>2. Req(c) \in Asks(c) /\ Req(c).type = "IDENTIFY"
      BY <3>1, ThreadFacts, HoldsAt DEF ByTheMenu, AsAsked, Asking, Req, Identifying
    <3> QED BY <3>2 DEF Wanted, NamesOf
  <2>3. fdOf[c] \in Fds
    BY <1>3, ThreadFacts DEF IdentifyAdd
  <2> QED BY <1>1, <2>1, <2>2, <2>3 DEF Belongs, NamesOf, Asks
<1> QED BY <1>2, <1>3, OnlyAddLetsIn DEF UsersStay

LEMMA ByTheMenuKept ==
  ASSUME ~Reuse, TextsFit, IInv, IInv', LinesAreOwn, Owned, ByTheMenu, [Next]_vars
  PROVE  ByTheMenu'
<1>1. ASSUME NEW c \in Conns, Thread(c) PROVE ByTheMenu'
  <2>1. OwnLines(c)
    BY DEF LinesAreOwn
  <2>2. AsAsked(c)' /\ TakesOutOwners(c)'
    BY <1>1, <2>1, AsAskedKept, TakesOutOwnersKept DEF ByTheMenu
  <2>3. fdOf' = fdOf
    BY <1>1, ThreadsOnlyClose DEF SocketsStay
  <2>4. ASSUME NEW d \in Conns, d # c PROVE AsAsked(d)' /\ TakesOutOwners(d)'
    <3>1. pc'[d] = pc[d] /\ loc'[d] = loc[d] /\ wire'[d] = wire[d] /\ buf'[d] = buf[d]
      BY <1>1, <2>1, <2>4, OthersStandStill, OthersLines
    <3>2. AsAsked(d)'
      BY <3>1 DEF ByTheMenu, AsAsked, Asking, LinesIn, Req, Asks
    <3>3. TakesOutOwners(d)'
      <4>1. TakesOutOwners(d) /\ (TakingOut(d)' => TakingOut(d))
        BY <3>1 DEF ByTheMenu, TakingOut
      <4>2. ASSUME pc'[d] \in {"evict_rooms", "evict_user"}
            PROVE  Belongs(loc[d].victim.name, loc[d].victim.fd)'
        BY <2>3, <3>1, <4>1, <4>2 DEF TakesOutOwners, Belongs, NamesOf, Asks
      <4>3. ASSUME TakingOut(d)' PROVE Belongs(loc[d].gone.name, loc[d].gone.fd)'
        BY <2>3, <3>1, <4>1, <4>3 DEF TakesOutOwners, Belongs, NamesOf, Asks
      <4> QED BY <4>2, <4>3 DEF TakesOutOwners
    <3> QED BY <3>2, <3>3
  <2>5. ASSUME NEW n \in Usernames(users') PROVE Belongs(n, users.byName[n].fd)'
    BY <1>1, <2>5, UsersBelongKept
  <2> QED BY <2>2, <2>4, <2>5 DEF ByTheMenu, Usernames
<1>2. ASSUME UNCHANGED << loc, users >>,
             \A n, f : Belongs(n, f) /\ Remembered(f) => Belongs(n, f)',
             \A d \in Conns : AsAsked(d)',
             \A d \in Conns : pc'[d] = pc[d] \/ pc'[d] \in {"next", "end"}
      PROVE  ByTheMenu'
  <2>1. ASSUME NEW d \in Conns PROVE TakesOutOwners(d)'
    <3>1. TakesOutOwners(d)
      BY DEF ByTheMenu
    <3>2. ASSUME pc[d] \in {"evict_rooms", "evict_user"} PROVE Remembered(loc[d].victim.fd)
      BY <3>2, ThreadFacts, HoldsAt, ThreadsRemember
    <3>3. ASSUME TakingOut(d) PROVE Remembered(loc[d].gone.fd)
      <4>1. pc[d] \notin {"off", "end"}
        BY <3>3 DEF TakingOut, Notifying
      <4> QED BY <3>3, <4>1, ThreadFacts, ThreadsRemember DEF Holds, TakingOut, Disconnecting
    <3>4. ASSUME pc'[d] \in {"evict_rooms", "evict_user"}
          PROVE  Belongs(loc[d].victim.name, loc[d].victim.fd)'
      <4>1. PICK n, f : n = loc[d].victim.name /\ f = loc[d].victim.fd
        OBVIOUS
      <4>2. Belongs(n, f)'
        BY <1>2, <3>1, <3>2, <3>4, <4>1 DEF TakesOutOwners
      <4> QED BY <1>2, <4>1, <4>2 DEF Belongs, NamesOf, Asks
    <3>5. ASSUME TakingOut(d)' PROVE Belongs(loc[d].gone.name, loc[d].gone.fd)'
      <4>1. PICK n, f : n = loc[d].gone.name /\ f = loc[d].gone.fd
        OBVIOUS
      <4>2. TakingOut(d)
        BY <1>2, <3>5 DEF TakingOut, Notifying
      <4>3. Belongs(n, f)'
        BY <1>2, <3>1, <3>3, <4>1, <4>2 DEF TakesOutOwners
      <4> QED BY <1>2, <4>1, <4>3 DEF Belongs, NamesOf, Asks
    <3> QED BY <3>4, <3>5 DEF TakesOutOwners
  <2>2. ASSUME NEW n \in Usernames(users) PROVE Belongs(n, users.byName[n].fd)'
    <3>1. PICK f : f = users.byName[n].fd
      OBVIOUS
    <3>2. Remembered(f)
      <4>1. FindByName(users, n) \in UsersOf(users) /\ FindByName(users, n).fd = f
        BY <3>1 DEF UsersOf, FindByName
      <4> QED BY <4>1 DEF Remembered
    <3>3. Belongs(n, f)'
      BY <1>2, <3>1, <3>2 DEF ByTheMenu
    <3> QED BY <1>2, <3>1, <3>3 DEF Belongs, NamesOf, Asks
  <2> QED BY <1>2, <2>1, <2>2 DEF ByTheMenu, Usernames
<1>3. ASSUME NEW c \in Conns, Accept(c) PROVE ByTheMenu'
  <2>1. /\ UNCHANGED << loc, users, wire, buf >> /\ peer[c] = "away"
        /\ pc' = [pc EXCEPT ![c] = "next"] /\ pc \in [Conns -> Places]
    BY <1>3 DEF Accept, Goto, tabVars, IInv, TypeOK
  <2>2. PICK g \in Fds :
          /\ ~Remembered(g) /\ fdOf[c] = 0
          /\ \A d \in Conns : d # c /\ fdOf[d] # g => fdOf'[d] = fdOf[d]
    BY <1>3, AcceptChangesNumbers
  <2>3. ASSUME NEW d \in Conns PROVE AsAsked(d)'
    BY <2>1 DEF ByTheMenu, AsAsked, Asking, Writing, LinesIn, Serving, Identifying, ChangingStatus, Notifying,
       Disconnecting, CreatingRoom, EnteringRoom, Inviting, Req, Asks
  <2>4. ASSUME NEW n, NEW f, Belongs(n, f), Remembered(f) PROVE Belongs(n, f)'
    <3>1. PICK d \in Conns : fdOf[d] = f /\ f \in Fds /\ n \in NamesOf(d)
      BY <2>4 DEF Belongs
    <3>2. d # c /\ f # g
      BY <2>2, <2>4, <3>1, ChatAssumption DEF Fds
    <3> QED BY <2>2, <3>1, <3>2 DEF Belongs, NamesOf, Asks
  <2> QED BY <1>2, <2>1, <2>3, <2>4
<1>4. ASSUME NEW c \in Conns, Submit(c) \/ Vanish(c) PROVE ByTheMenu'
  <2>1. UNCHANGED << loc, users, fdOf, pc, buf >> /\ wire \in [Conns -> Seq(Request)]
    BY <1>4 DEF Submit, Vanish, tabVars, IInv, TypeOK
  <2>2. ASSUME NEW d \in Conns PROVE AsAsked(d)'
    <3>1. CASE Submit(c) /\ d = c
      BY <2>1, <3>1, SubmitsAsAsked DEF ByTheMenu, AsAsked
    <3>2. CASE wire'[d] = wire[d]
      BY <2>1, <3>2 DEF ByTheMenu, AsAsked, Asking, LinesIn, Req, Asks
    <3> QED BY <1>4, <2>1, <3>1, <3>2 DEF Submit, Vanish
  <2>3. ASSUME NEW n, NEW f, Belongs(n, f) PROVE Belongs(n, f)'
    BY <2>1, <2>3 DEF Belongs, NamesOf, Asks
  <2> QED BY <1>2, <2>1, <2>2, <2>3
<1>5. CASE UNCHANGED vars
  <2>1. UNCHANGED << loc, users, fdOf, pc, buf, wire >>
    BY <1>5 DEF vars, tabVars, sockVars
  <2>2. ASSUME NEW d \in Conns PROVE AsAsked(d)'
    BY <2>1 DEF ByTheMenu, AsAsked, Asking, LinesIn, Req, Asks
  <2>3. ASSUME NEW n, NEW f, Belongs(n, f) PROVE Belongs(n, f)'
    BY <2>1, <2>3 DEF Belongs, NamesOf, Asks
  <2> QED BY <1>2, <2>1, <2>2, <2>3
<1> QED BY <1>1, <1>3, <1>4, <1>5 DEF Next, ClientStep, Idling

(* Where clients do not compete for names, write to everybody and not in private,
   and write nothing that does not fit a line, a client that is there and keeps
   to the protocol keeps its name, whoever else vanishes, is evicted, says
   goodbye or writes nonsense.                                              *)
THEOREM GoodClientsStayByTheMenu ==
  ASSUME ~Reuse, NamesApart, LinesFit, TextsFit
  PROVE  Spec => GoodClientsStay
<1>1. Init => ByTheMenu
  <2> SUFFICES ASSUME Init PROVE ByTheMenu
    OBVIOUS
  <2>1. Usernames(users) = {}
    BY EmptyTableCoherent DEF Init
  <2>2. ASSUME NEW c \in Conns PROVE AsAsked(c) /\ TakesOutOwners(c)
    <3>1. pc[c] = "off" /\ wire[c] = << >> /\ buf[c] = << >>
      BY DEF Init
    <3>2. AsAsked(c)
      BY <3>1, EmptySeq DEF AsAsked, Asking, Writing, LinesIn, Serving, Identifying, ChangingStatus, Notifying,
         Disconnecting, CreatingRoom, EnteringRoom, Inviting
    <3>3. TakesOutOwners(c)
      BY <3>1 DEF TakesOutOwners, TakingOut, Notifying
    <3> QED BY <3>2, <3>3
  <2> QED BY <2>1, <2>2 DEF ByTheMenu
<1>2. ByTheMenu /\ LinesAreOwn /\ Introduction /\ IInv /\ IInv' /\ [Next]_vars => ByTheMenu'
  BY ByTheMenuKept DEF Introduction
<1>3. ByTheMenu => TextsArrive
  <2> SUFFICES ASSUME ByTheMenu, NEW c \in Conns
               PROVE  /\ pc[c] # "tx_send"
                      /\ pc[c] = "notify_each" => ~IsBig(Req(c))
    BY DEF TextsArrive
  <2>1. AsAsked(c)
    BY DEF ByTheMenu
  <2>2. pc[c] # "tx_send"
    BY <2>1 DEF AsAsked, Writing
  <2>3. pc[c] = "notify_each" => ~IsBig(Req(c))
    BY <2>1 DEF AsAsked, Asking, Serving, Notifying, TextsFit
  <2> QED BY <2>2, <2>3
<1>6. ByTheMenu /\ IInv => EchoesFit
  <2> SUFFICES ASSUME ByTheMenu, IInv, NEW c \in Conns, pc[c] = "reply" PROVE Echo(c) \cap Oversized = {}
    BY DEF EchoesFit, ReplyIsBig
  <2>1. Req(c) \in Asks(c) /\ AsAsked(c)
    BY DEF ByTheMenu, AsAsked, Asking, Serving
  <2>2. Req(c) \in Request /\ loc[c].todo \in Seq(Names)
    BY ThreadFacts DEF Holds, Req, Serving, Locals
  <2>3. Echo(c) \subseteq Names \cup Rooms
    <3>1. CASE Req(c).type \in RoomRequests /\ loc[c].reply = "NO_SUCH_USER"
      <4>1. Head(loc[c].todo) \in Names
        BY <2>1, <2>2, <3>1, HeadTailProperties DEF AsAsked
      <4> QED BY <3>1, <4>1 DEF Echo, RoomRequests
    <3>2. CASE Req(c).type \in RoomRequests /\ loc[c].reply # "NO_SUCH_USER"
      <4>1. Req(c).roomname \in Rooms
        BY <2>2, <3>2 DEF Request, RoomRequests
      <4> QED BY <3>2, <4>1 DEF Echo, RoomRequests
    <3>3. CASE Req(c).type \notin RoomRequests
      BY <2>1, <3>3 DEF Echo, TextsFit
    <3> QED BY <3>1, <3>2, <3>3
  <2> QED BY <2>3 DEF LinesFit
<1>4. ByTheMenu => NobodyInherits
  <2> SUFFICES ASSUME ByTheMenu, NEW c \in Conns
               PROVE  /\ pc[c] = "evict_user" => StillUnder(loc[c].victim)
                      /\ pc[c] = "dc_users" => StillUnder(loc[c].gone)
    BY DEF NobodyInherits
  <2>1. ASSUME NEW u, Belongs(u.name, u.fd) PROVE StillUnder(u)
    <3> SUFFICES ASSUME ContainsName(users, u.name) PROVE users.byName[u.name].fd = u.fd
      BY DEF StillUnder, FindByName
    <3>1. PICK d \in Conns : fdOf[d] = u.fd /\ u.name \in NamesOf(d)
      BY <2>1 DEF Belongs
    <3>2. PICK x \in Conns : fdOf[x] = users.byName[u.name].fd /\ u.name \in NamesOf(x)
      BY DEF ByTheMenu, Belongs, ContainsName, Usernames
    <3>3. x = d
      BY <3>1, <3>2 DEF NamesApart
    <3> QED BY <3>1, <3>2, <3>3
  <2>2. TakesOutOwners(c)
    BY DEF ByTheMenu
  <2> QED BY <2>1, <2>2 DEF TakesOutOwners, TakingOut
<1>5. Spec /\ []TextsArrive /\ []EchoesFit /\ []NobodyInherits => GoodClientsStay
  BY GoodClientsStayHolds
<1> QED BY <1>1, <1>2, <1>3, <1>4, <1>5, <1>6, Invariance, IntroductionHolds, OwnLinesHold, PTL DEF Spec
=============================================================================
