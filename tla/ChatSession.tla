----------------------------- MODULE ChatSession -----------------------------
(***************************************************************************)
(* The server process and its clients, from the first connection to the last *)
(* goodbye.                                                                  *)
(***************************************************************************)
EXTENDS ServerMain, ChatClient

Client(c) ==
  \/ Connect(c) \/ CtrlC(c) \/ ReceiveStep(c) \/ SendStep(c) \/ Goodbye(c) \/ Crash(c)

Next == MainStep \/ Sigint \/ \E c \in Clients : ThreadStep(c) \/ Client(c)

(* main and the threads run when they can; a client's tasks do as well, and its
   user answers a prompt sooner or later, with whatever command.  Nobody owes a
   connection, a Ctrl-C or a SIGINT.                                        *)
Spec == Init /\ [][Next]_vars /\ ServerFairness /\ ClientFairness

-----------------------------------------------------------------------------
(* A client ends once anything has cancelled it (Ctrl-C, disconnect, an error in
   either loop) or the server has closed its connection, be it because it
   exits.  Its user answers at most the prompts of one more command, which
   console input makes impossible to cancel (Controller.cs:88-90).          *)
ClientsEnd ==
  \A c \in Clients :
    main[c] = "running" /\ (cancelled[c] \/ link[c] = "closed") ~> main[c] = "ended"

\* Who left after DISCONNECT left no descriptor behind, once the server has
\* read that far; a line that overflows a buffer keeps it from doing so.
GoodbyesFreeDescriptors ==
  \A c \in {k \in Clients : "DISCONNECT" \in Types[k]} :
    typed[c] = "DISCONNECT" /\ main[c] = "ended" ~> c \notin Open \/ thread[c] = "overflowed"

\* A client is not thrown out by an exception while the server still holds its
\* connection.
CrashMeansClosed ==
  \A c \in Clients : outcome[c] = "crash" => link[c] = "closed"

(* Every number the server holds is served by a thread, is the one main has just
   accepted, or was left behind: by a client that ended without a goodbye, or
   because a line overflowed the buffer of the thread that was there for it. *)
DescriptorsAccountedFor ==
  \A n \in Numbers : fds[n] # "none" =>
    LET c == fds[n] IN
    \/ \E t \in Clients : thread[t] \in {"next", "recv"} /\ fdOf[t] = n
    \/ srv = "starting" /\ newcomer = c
    \/ thread[c] = "overflowed"
    \/ thread[c] = "ended" /\ main[c] = "ended" /\ typed[c] # "DISCONNECT"

\* SIGINT shuts the server down.
SigintStops == flag ~> srv = "exited"
=============================================================================
