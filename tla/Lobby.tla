-------------------------------- MODULE Lobby --------------------------------
(***************************************************************************)
(* What the server promises about who is in the chat: a name belongs to one   *)
(* connection at a time and a connection has one name at most; a client comes *)
(* in ACTIVE, changes its own status and leaves.  Each of these happens at    *)
(* one instant, although IDENTIFY takes three critical sections.             *)
(***************************************************************************)
CONSTANTS Names, Fds, Status

VARIABLE online    \* the names in the chat, each with its descriptor and status

LobbyInit == online = << >>

ComesIn(n, fd) ==
  /\ n \notin DOMAIN online /\ \A m \in DOMAIN online : online[m].fd # fd
  /\ online' = [m \in DOMAIN online \cup {n} |->
                  IF m = n THEN [fd |-> fd, status |-> "ACTIVE"] ELSE online[m]]

ChangesStatus(n, s) ==
  /\ n \in DOMAIN online
  /\ online' = [online EXCEPT ![n] = [fd |-> @.fd, status |-> s]]

Leaves(n) ==
  /\ n \in DOMAIN online
  /\ online' = [m \in DOMAIN online \ {n} |-> online[m]]

LobbyNext ==
  \E n \in Names : \/ \E fd \in Fds : ComesIn(n, fd)
                   \/ \E s \in Status : ChangesStatus(n, s)
                   \/ Leaves(n)

LobbySpec == LobbyInit /\ [][LobbyNext]_online
=============================================================================
