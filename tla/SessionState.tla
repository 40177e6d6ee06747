---------------------------- MODULE SessionState ----------------------------
(***************************************************************************)
(* From one end of a connection to the other: what ServerMain (the accept    *)
(* loop and the life of its threads) and ChatClient (the console client)      *)
(* share, which is the kernel's view of each connection.                     *)
(***************************************************************************)
EXTENDS Naturals, FiniteSets, Sequences

CONSTANTS
  Clients,     \* client processes; each opens one connection
  MaxOpen,     \* how many descriptor numbers the server process has for clients
  Types,       \* what each client's user may type: a set of Lines
  MaxLines,    \* bound: how many requests a user types, besides disconnect
  MaxWaiting,  \* bound: lines on their way to a client
  MaxSignals   \* bound: SIGINTs sent to the server

\* A request, one longer than the server's buffer, and the goodbye.
Lines == {"request", "TOO_LONG", "DISCONNECT"}

ASSUME SessionAssumption ==
  /\ "none" \notin Clients
  /\ {MaxOpen, MaxLines, MaxWaiting, MaxSignals} \subseteq Nat \ {0}
  /\ Types \in [Clients -> SUBSET Lines]

VARIABLES
  link,       \* "none", "queued" (not accepted yet), "open", "closed" (by the server)
  up,         \* lines a client has sent and no recv has returned
  down,       \* how many lines wait for a client
  reset,      \* whether the client's end has been told that there is nobody
  \* The server process.
  srv,        \* where main is: "loop", "accept", "starting", "failed", "exited"
  errno,      \* what a failed accept left there
  flag,       \* g_shutdown_requested
  signals,    \* how many SIGINTs it got
  newcomer,   \* the connection accept returned last
  fds,        \* the connection behind a descriptor number, or "none"
  thread,     \* the thread started for a connection: "none", "next" (between two
              \* recvs), "recv", "ended" or "overflowed"
  fdOf,       \* its client_fd; 0 before there is one
  waits,      \* the connection its recv waits on, or "none"
  buf,        \* the lines in its Message_Buffer
  \* The client processes.
  main,       \* "off", "running" or "ended"
  recvLoop,   \* ReceiveLoopAsync: "off", "reading", "done" or "failed"
  sendLoop,   \* SendLoopAsync: "off", "top", "prompt", "write", "done" or "failed"
  typed,      \* the line about to be written, or the goodbye that was
  lines,      \* how many lines the user has typed
  cancelled,  \* cts
  outcome     \* how the client ended: "goodbye", "crash" or "unreachable"

linkVars == << link, up, down, reset >>
threadVars == << fds, thread, fdOf, waits, buf >>
mainVars == << srv, errno, flag, signals, newcomer >>
serverVars == << mainVars, threadVars >>
clientVars == << main, recvLoop, sendLoop, typed, lines, cancelled, outcome >>
vars == << linkVars, serverVars, clientVars >>

Numbers == 1..MaxOpen
All(v) == [c \in Clients |-> v]

Init ==
  /\ link = All("none") /\ up = All(<< >>) /\ down = All(0) /\ reset = All(FALSE)
  /\ srv = "loop" /\ errno = "none" /\ flag = FALSE /\ signals = 0
  /\ newcomer = "none" /\ fds = [n \in Numbers |-> "none"]
  /\ thread = All("none") /\ fdOf = All(0) /\ waits = All("none") /\ buf = All(<< >>)
  /\ main = All("off") /\ recvLoop = All("off") /\ sendLoop = All("off")
  /\ typed = All("none") /\ lines = All(0) /\ cancelled = All(FALSE)
  /\ outcome = All("none")

\* The connections that have a descriptor number.
Open == {fds[n] : n \in Numbers} \ {"none"}

(* The kernel closes a connection: a client with lines nobody has received is
   reset at once, the others read to the end.                               *)
ServerCloses(C) ==
  /\ link' = [c \in Clients |-> IF c \in C THEN "closed" ELSE link[c]]
  /\ reset' = [c \in Clients |-> reset[c] \/ (c \in C /\ up'[c] # << >>)]

\* It does so once the connection has no number and no recv waits on it.
Releases ==
  ServerCloses({c \in Clients : /\ link[c] = "open"
                                /\ \A n \in Numbers : fds'[n] # c
                                /\ \A t \in Clients : waits'[t] # c})
=============================================================================
