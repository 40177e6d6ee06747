-------------------------------- MODULE Chat --------------------------------
(***************************************************************************)
(* The chat as its users know it: who is in it (Lobby) and who is in which    *)
(* room, by name.  Rooms are entered by founding them or by accepting an      *)
(* invitation, nobody is guest and member at once, and whoever leaves the     *)
(* chat has left its rooms.                                                  *)
(***************************************************************************)
EXTENDS Lobby

CONSTANT Rooms

VARIABLE room    \* the rooms, each with the names of its members and guests

chatVars == << online, room >>

ChatInit == LobbyInit /\ room = << >>

With(r, members, guests) == room' = [room EXCEPT ![r] = [members |-> members, guests |-> guests]]
In(n, r) == n \in room[r].members \cup room[r].guests

Opens(r) ==
  /\ r \notin DOMAIN room
  /\ room' = [q \in DOMAIN room \cup {r} |->
                IF q = r THEN [members |-> {}, guests |-> {}] ELSE room[q]]
  /\ UNCHANGED online

Founds(n, r) ==
  /\ r \in DOMAIN room /\ room[r] = [members |-> {}, guests |-> {}]
  /\ n \in DOMAIN online
  /\ With(r, {n}, {})
  /\ UNCHANGED online

IsInvited(n, r) ==
  /\ r \in DOMAIN room /\ room[r].members # {} /\ n \in DOMAIN online /\ ~In(n, r)
  /\ With(r, room[r].members, room[r].guests \cup {n})
  /\ UNCHANGED online

Joins(n, r) ==
  /\ r \in DOMAIN room /\ n \in room[r].guests
  /\ With(r, room[r].members \cup {n}, room[r].guests \ {n})
  /\ UNCHANGED online

LeavesRoom(n, r) ==
  /\ r \in DOMAIN room /\ n \in room[r].members
  /\ With(r, room[r].members \ {n}, room[r].guests)
  /\ UNCHANGED online

Closes(r) ==
  /\ r \in DOMAIN room /\ room[r].members = {}
  /\ room' = [q \in DOMAIN room \ {r} |-> room[q]]
  /\ UNCHANGED online

LeavesAllRooms(n) ==
  /\ room' = [r \in DOMAIN room |-> [members |-> room[r].members \ {n},
                                     guests  |-> room[r].guests \ {n}]]
  /\ UNCHANGED online

LeavesChat(n) ==
  /\ \A r \in DOMAIN room : ~In(n, r)
  /\ Leaves(n) /\ UNCHANGED room

ChatNext ==
  \/ \E n \in Names :
       \/ \E fd \in Fds : ComesIn(n, fd) /\ UNCHANGED room
       \/ \E s \in Status : ChangesStatus(n, s) /\ UNCHANGED room
       \/ LeavesAllRooms(n) \/ LeavesChat(n)
       \/ \E r \in Rooms : Founds(n, r) \/ IsInvited(n, r) \/ Joins(n, r) \/ LeavesRoom(n, r)
  \/ \E r \in Rooms : Opens(r) \/ Closes(r)

ChatSpec == ChatInit /\ [][ChatNext]_chatVars
=============================================================================
