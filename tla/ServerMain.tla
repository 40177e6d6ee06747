----------------------------- MODULE ServerMain -----------------------------
(***************************************************************************)
(* The server process as a whole: main's accept loop, SIGINT, the start and   *)
(* the end of the threads (main.c, server_accept_client, handle_client).      *)
(* What a thread does with a line is ChatServer's subject; here it answers,   *)
(* or it disconnects its client.                                             *)
(***************************************************************************)
EXTENDS SessionState

SameClients == UNCHANGED clientVars
OnlyMain == UNCHANGED << linkVars, flag, signals, threadVars, clientVars >>

\* close(number), which ends nothing while a recv waits.
Closes(n) ==
  /\ fds' = [fds EXCEPT ![n] = "none"]
  /\ Releases

(* accept() needs a descriptor number before it waits for a connection: with
   none left it fails at once.                                              *)
AcceptCalled ==
  /\ srv = "loop"
  /\ IF \E n \in Numbers : fds[n] = "none"
     THEN srv' = "accept" /\ UNCHANGED errno
     ELSE srv' = "failed" /\ errno' = "EMFILE"
  /\ UNCHANGED newcomer /\ OnlyMain

\* The lowest free number stands for the connection from now on.
AcceptReturns(c) ==
  /\ srv = "accept" /\ link[c] = "queued"
  /\ srv' = "starting" /\ newcomer' = c
  /\ link' = [link EXCEPT ![c] = "open"]
  /\ \E n \in Numbers :
       /\ fds[n] = "none" /\ \A m \in Numbers : m < n => fds[m] # "none"
       /\ fds' = [fds EXCEPT ![n] = c]
       /\ fdOf' = [fdOf EXCEPT ![c] = n]
  /\ UNCHANGED << up, down, reset, errno, flag, signals, thread, waits, buf >> /\ SameClients

\* pthread_create and pthread_detach
ThreadStarts ==
  /\ srv = "starting"
  /\ srv' = "loop"
  /\ thread' = [thread EXCEPT ![newcomer] = "next"]
  /\ newcomer' = "none"
  /\ UNCHANGED << linkVars, errno, flag, signals, fds, fdOf, waits, buf >> /\ SameClients

\* A mistake: the connection stays open when its thread cannot be started.
ThreadFailsForgotten ==
  /\ srv = "starting"
  /\ srv' = "loop" /\ newcomer' = "none"
  /\ UNCHANGED errno /\ OnlyMain

\* main's malloc, pthread_create or the thread's own first malloc fails: the
\* connection is closed, the loop goes on.
ThreadFails ==
  /\ srv = "starting"
  /\ srv' = "loop" /\ newcomer' = "none"
  /\ UNCHANGED << up, down, errno, flag, signals, thread, fdOf, waits, buf >> /\ SameClients
  /\ Closes(fdOf[newcomer])

(* handle_sigint.  A main that waits in accept is woken, unless a connection
   comes first.                                                             *)
Sigint ==
  /\ srv # "exited" /\ signals < MaxSignals
  /\ signals' = signals + 1 /\ flag' = TRUE
  /\ \/ srv = "accept" /\ srv' = "failed" /\ errno' = "EINTR"
     \/ /\ srv # "accept" \/ \E c \in Clients : link[c] = "queued"
        /\ UNCHANGED << srv, errno >>
  /\ UNCHANGED << linkVars, newcomer, threadVars >> /\ SameClients

\* server_close and the end of main: the process is gone with its threads and all
\* they knew, every socket is closed.
Exit ==
  /\ srv' = "exited" /\ errno' = "none" /\ flag' = FALSE /\ signals' = 0 /\ newcomer' = "none"
  /\ fds' = [n \in Numbers |-> "none"] /\ thread' = All("none") /\ fdOf' = All(0)
  /\ waits' = All("none") /\ buf' = All(<< >>)
  /\ UNCHANGED << up, down >> /\ SameClients
  /\ ServerCloses({c \in Clients : link[c] \in {"queued", "open"}})

\* The failing accept decides: try again, or leave.
AcceptFailed ==
  /\ srv = "failed"
  /\ IF ~flag /\ errno = "EINTR"
     THEN srv' = "loop" /\ UNCHANGED << errno, newcomer >> /\ OnlyMain
     ELSE Exit

MainStep == AcceptCalled \/ (\E c \in Clients : AcceptReturns(c))
              \/ ThreadStarts \/ ThreadFails \/ AcceptFailed

-----------------------------------------------------------------------------
\* A thread: handle_client.  All it knows of its client is a number.

ThreadGoes(c, place) == thread' = [thread EXCEPT ![c] = place]
OnlyThread == UNCHANGED << down, mainVars, fdOf >> /\ SameClients

\* recv resolves the number when it is called; a closed one ends the thread.
ThreadCallsRecv(c) ==
  /\ thread[c] = "next" /\ buf[c] = << >>
  /\ ThreadGoes(c, IF fds[fdOf[c]] = "none" THEN "ended" ELSE "recv")
  /\ waits' = [waits EXCEPT ![c] = fds[fdOf[c]]]
  /\ UNCHANGED << link, up, reset, fds, buf >> /\ OnlyThread

\* recv is over, with or without lines.
Returns(c, place) ==
  /\ ThreadGoes(c, place)
  /\ waits' = [waits EXCEPT ![c] = "none"]
  /\ UNCHANGED fds /\ OnlyThread
  /\ Releases

\* Some of the lines that have arrived; none that fills the buffer.
ThreadReceives(c) ==
  LET w == waits[c] IN
  /\ thread[c] = "recv"
  /\ \E k \in 1..Len(up[w]) :
       /\ \A i \in 1..k : up[w][i] # "TOO_LONG"
       /\ buf' = [buf EXCEPT ![c] = SubSeq(up[w], 1, k)]
       /\ up' = [up EXCEPT ![w] = SubSeq(@, k + 1, Len(@))]
  /\ Returns(c, "next")

\* The client is gone: recv returns 0 or fails, the thread ends, the descriptor
\* stays open.
ThreadEnds(c) ==
  /\ thread[c] = "recv" /\ up[waits[c]] = << >> /\ main[waits[c]] = "ended"
  /\ UNCHANGED << up, buf >>
  /\ Returns(c, "ended")

\* message_buffer_append fails, with the line taken whole or in part: the thread
\* ends, the descriptor stays open and the client is told nothing.
ThreadOverflows(c) ==
  LET w == waits[c] IN
  /\ thread[c] = "recv" /\ up[w] # << >> /\ Head(up[w]) = "TOO_LONG"
  /\ up' = [up EXCEPT ![w] = Tail(@)] \/ UNCHANGED up
  /\ UNCHANGED buf
  /\ Returns(c, "overflowed")

(* Lines to clients D.  A send blocks while the client's socket is full; to a
   client that has ended it fails or vanishes.                              *)
Tell(D) ==
  LET listening == {d \in D : main[d] = "running"} IN
  /\ \A d \in listening : down[d] < MaxWaiting
  /\ down' = [d \in Clients |-> IF d \in listening THEN down[d] + 1 ELSE down[d]]

\* Whom the thread's replies reach.
Holder(c) == {fds[fdOf[c]]} \ {"none"}

Serves(c, line) ==
  /\ thread[c] = "next" /\ buf[c] # << >> /\ Head(buf[c]) = line
  /\ buf' = [buf EXCEPT ![c] = Tail(@)]
  /\ UNCHANGED << up, thread, fdOf, waits, mainVars >> /\ SameClients

\* A request that is answered, or told to everybody.
ThreadAnswers(c) ==
  /\ Serves(c, "request")
  /\ Tell(Holder(c)) \/ Tell(Open)
  /\ UNCHANGED << link, reset, fds >>

\* A mistake: the descriptor of a client that said DISCONNECT stays open.
ThreadDisconnectsHalfway(c) ==
  /\ Serves(c, "DISCONNECT")
  /\ UNCHANGED << link, down, reset, fds >>

(* process_disconnect: DISCONNECT, a request against the protocol, which is told
   so, or a reply that failed.  The number is closed, whatever it stands for by
   now, and the thread goes on with the lines it has.                       *)
ThreadDisconnects(c) ==
  /\ \/ Serves(c, "DISCONNECT") /\ (Tell({}) \/ Tell(Open \ Holder(c)))
     \/ Serves(c, "request") /\ (Tell(Holder(c)) \/ Tell(Open))
  /\ Closes(fdOf[c])

\* INVITE disconnects the invited whom it cannot reach.
ThreadDropsInvited(c) ==
  /\ Serves(c, "request")
  /\ UNCHANGED down
  /\ \E n \in Numbers : fds[n] # "none" /\ main[fds[n]] = "ended" /\ Closes(n)

ThreadStep(c) ==
  \/ ThreadCallsRecv(c) \/ ThreadReceives(c) \/ ThreadEnds(c) \/ ThreadOverflows(c)
  \/ ThreadAnswers(c) \/ ThreadDisconnects(c) \/ ThreadDropsInvited(c)

ServerFairness == WF_vars(MainStep) /\ \A c \in Clients : WF_vars(ThreadStep(c))
=============================================================================
