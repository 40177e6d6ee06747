---------------------------- MODULE MCChatServer ----------------------------
(***************************************************************************)
(* Small instances of ChatServer: the values the .cfg files give to its      *)
(* constants.                                                                *)
(***************************************************************************)
EXTENDS ChatServer

CONSTANTS a, b, e    \* connections

ConnsAB == {a, b}
ConnsABE == {a, b, e}

\* Names and rooms; the long ones are more than 8 and 16 bytes, where Oversized
\* has one it stands for one of nearly 1 MiB.
TwoNames == {"ana", "luz"}
ThreeNames == {"ana", "luz", "eva"}
MCClip8 == [n \in Names |-> IF n = "maximiliano" THEN "maximili" ELSE n]
MCClip16 == [r \in Rooms |-> IF r = "sala de proyectos 7" THEN "sala de proyecto" ELSE r]

\* Requests.
Identify(n) == [type |-> "IDENTIFY", username |-> n]
SetStatus(s) == [type |-> "STATUS", status |-> s]
Text(n) == [type |-> "TEXT", username |-> n, text |-> "hola"]
Public == [type |-> "PUBLIC_TEXT", text |-> "hola"]
Plain(t) == [type |-> t]

\* Which steps of the clients wait for the server to rest: none, or all.
Never == [c \in Conns |-> {}]
Always == [c \in Conns |-> 0..9]

-----------------------------------------------------------------------------
(* Users: two clients may want one name; one of them vanishes at any time, or
   sends nonsense, in the middle of what the other tells everybody.         *)
UsersMenu == [c \in Conns |->
  IF c = a THEN << {Identify("ana")}, {SetStatus("AWAY"), Plain("USERS")} >>
  ELSE << {Identify("luz"), Identify("ana")}, {Public, Plain("BAD_JSON"), Identify("luz")} >>]

(* A name changes hands: a leaves while b asks for its name, and a third
   client, who identified at leisure, watches and writes to whoever has it.  *)
HandoverMenu == [c \in Conns |->
  IF c = a THEN << {Identify("ana")}, {SetStatus("AWAY"), Plain("DISCONNECT")} >>
  ELSE IF c = b THEN << {Identify("ana")} >>
  ELSE << {Identify("eva")}, {Text("ana")} >>]
ObserverCalm == [c \in Conns |-> IF c = e THEN {0, 1} ELSE {}]

-----------------------------------------------------------------------------
(* Rooms, one request at a time: every operation on a room by its creator, a
   guest and a stranger, in any order.                                      *)
OnRoom(t) == [type |-> t, roomname |-> "sala"]
Invite(ns) == [type |-> "INVITE", roomname |-> "sala", usernames |-> ns]
RoomText == [type |-> "ROOM_TEXT", roomname |-> "sala", text |-> "hola"]

RoomsMenu == [c \in Conns |->
  IF c = a THEN
    << {Identify("ana")}, {OnRoom("NEW_ROOM")}, {Invite(<< "eva", "luz" >>)},
       {OnRoom("LEAVE_ROOM"), SetStatus("AWAY"), Plain("DISCONNECT")} >>
  ELSE IF c = b THEN
    << {Identify("luz")}, {OnRoom("JOIN_ROOM"), OnRoom("NEW_ROOM")},
       {OnRoom("LEAVE_ROOM"), Invite(<< "eva" >>), RoomText, Plain("DISCONNECT")} >>
  ELSE
    << {Identify("eva")}, {OnRoom("JOIN_ROOM")}, {SetStatus("BUSY"), OnRoom("ROOM_USERS")} >>]

-----------------------------------------------------------------------------
(* Everything that can go wrong with a connection: clients that vanish, lines
   that make no sense, texts too long to forward, a name too long to repeat, a
   number handed out again while an earlier thread still uses it.           *)
LongPublic == [type |-> "PUBLIC_TEXT", text |-> "larguisimo"]
LongRoomText == [type |-> "ROOM_TEXT", roomname |-> "sala", text |-> "larguisimo"]
FaultsMenu == [c \in Conns |->
  IF c = a THEN
    << {Identify("ana")}, {OnRoom("NEW_ROOM")},
       {Invite(<< "luz" >>), LongPublic, Plain("UNKNOWN")}, {LongRoomText, Plain("BAD_JSON")} >>
  ELSE
    << {Identify("luz"), Identify("")}, {OnRoom("JOIN_ROOM"), Plain("TOO_LONG")},
       {Plain("BAD_JSON"), Plain("SERVER_SIDE"), SetStatus("INVALID"), Text("maximiliano")} >>]
FaultsCalm == [c \in Conns |-> IF c = a THEN 0..3 ELSE 0..2]

(* A number handed out again: a is disconnected for writing before it has a
   name, yet its thread goes on, on a number that may be the next client's. *)
ReuseMenu == [c \in Conns |->
  IF c = a THEN << {Text("luz")}, {Identify("ana"), Public} >>
  ELSE IF c = b THEN << {Identify("luz")}, {Text("eva"), SetStatus("BUSY")} >>
  ELSE << {Identify("eva")} >>]
ReuseCalm == [c \in Conns |-> IF c = b THEN {2} ELSE IF c = e THEN {0, 1} ELSE {}]

-----------------------------------------------------------------------------
(* Two requests that overlap, after everything they need was set up calmly.
   LostMember, Overrun and LongText have a run of their own; the others are
   scenes for the properties the README calls relatives of the findings.    *)

\* a invites b, who says goodbye or changes status meanwhile.
InviteRaceMenu == [c \in Conns |->
  IF c = a THEN << {Identify("ana")}, {OnRoom("NEW_ROOM")}, {Invite(<< "luz" >>)} >>
  ELSE << {Identify("luz")}, {Plain("DISCONNECT"), SetStatus("AWAY")} >>]
InviteRaceCalm == [c \in Conns |-> IF c = a THEN 0..2 ELSE 0..1]

\* a leaves its room, which ends with it, and b opens another of the same name
\* while e joins the one it was invited to.
NamesakeMenu == [c \in Conns |->
  IF c = a THEN << {Identify("ana")}, {OnRoom("NEW_ROOM")}, {Invite(<< "eva" >>)}, {OnRoom("LEAVE_ROOM")} >>
  ELSE IF c = b THEN << {Identify("luz")}, {OnRoom("NEW_ROOM")} >>
  ELSE << {Identify("eva")}, {OnRoom("JOIN_ROOM")} >>]
NamesakeCalm == [c \in Conns |-> IF c = a THEN 0..3 ELSE {0, 1}]

\* a founds a room and vanishes, and what b tells everybody evicts it meanwhile.
FounderGoneMenu == [c \in Conns |->
  IF c = a THEN << {Identify("ana")}, {OnRoom("NEW_ROOM")} >> ELSE << {Identify("luz")} >>]
FounderGoneCalm == [c \in Conns |-> IF c = a THEN {0} ELSE {}]

\* a invites b, who asks for its name twice and vanishes.
GhostMenu == [c \in Conns |->
  IF c = a THEN << {Identify("ana")}, {OnRoom("NEW_ROOM")}, {Invite(<< "luz" >>)} >>
  ELSE << {Identify("luz")}, {Identify("luz")} >>]

\* A room name of more than 16 bytes, used as it was typed.
LongRoomMenu == [c \in Conns |->
  LET Long(t) == [type |-> t, roomname |-> "sala de proyectos 7"] IN
  << {Identify(IF c = a THEN "ana" ELSE "luz")}, {Long("NEW_ROOM")}, {Long("ROOM_USERS")} >>]

\* a writes to b, who vanishes.
LostAddresseeMenu == [c \in Conns |->
  IF c = a THEN << {Identify("ana")}, {Text("luz")} >> ELSE << {Identify("luz")} >>]

\* a writes in a room to b, who vanishes.
LostMemberMenu == [c \in Conns |->
  IF c = a THEN << {Identify("ana")}, {OnRoom("NEW_ROOM")}, {Invite(<< "luz" >>)}, {RoomText} >>
  ELSE << {Identify("luz")}, {OnRoom("JOIN_ROOM")} >>]

\* a writes to b while b leaves and e connects and takes b's number.
WrongAddresseeMenu == [c \in Conns |->
  IF c = a THEN << {Identify("ana")}, {Text("luz")} >>
  ELSE IF c = b THEN << {Identify("luz")}, {Plain("DISCONNECT")} >>
  ELSE << {Identify("eva")} >>]
WrongAddresseeCalm == [c \in Conns |-> IF c = e THEN {} ELSE 0..1]

\* a is announced while b and e connect, identify and vanish.
OverrunMenu == [c \in Conns |->
  IF c = a THEN << {Identify("ana")} >>
  ELSE IF c = b THEN << {Identify("luz")} >> ELSE << {Identify("eva")} >>]

\* a writes to everybody, b included, a text that no longer fits its line once
\* a's name is in it.
LongTextMenu == [c \in Conns |->
  IF c = a THEN << {Identify("ana")}, {LongPublic} >> ELSE << {Identify("luz")} >>]

\* a writes to somebody nobody knows, by a name that the answer has no room for.
EchoMenu == [c \in Conns |->
  IF c = a THEN << {Identify("ana")}, {Text("maximiliano")} >> ELSE << {Identify("luz")} >>]
=============================================================================
