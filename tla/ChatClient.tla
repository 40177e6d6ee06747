----------------------------- MODULE ChatClient -----------------------------
(***************************************************************************)
(* The console client (Controller.cs): one task displays what arrives, the    *)
(* other asks the user and sends.  They share a cancellation source, which    *)
(* cancels a pending read from the server and not a pending prompt.           *)
(***************************************************************************)
EXTENDS SessionState

OnlyClient == UNCHANGED << linkVars, serverVars >>
Cancel(c) == cancelled' = [cancelled EXCEPT ![c] = TRUE]
SameMain == UNCHANGED << main, outcome >>
SameSending == UNCHANGED << sendLoop, typed, lines >>
EndsReceiving(c, how) ==
  /\ recvLoop' = [recvLoop EXCEPT ![c] = how]
  /\ Cancel(c)
  /\ SameMain /\ SameSending /\ OnlyClient

\* RunAsync: a connection is established before anybody accepts it.
Connect(c) ==
  /\ main[c] = "off"
  /\ IF srv = "exited"
     THEN /\ main' = [main EXCEPT ![c] = "ended"]
          /\ outcome' = [outcome EXCEPT ![c] = "unreachable"]
          /\ UNCHANGED << link, recvLoop, sendLoop >>
     ELSE /\ main' = [main EXCEPT ![c] = "running"]
          /\ link' = [link EXCEPT ![c] = "queued"]
          /\ recvLoop' = [recvLoop EXCEPT ![c] = "reading"]
          /\ sendLoop' = [sendLoop EXCEPT ![c] = "top"]
          /\ UNCHANGED outcome
  /\ UNCHANGED << up, down, reset, serverVars, typed, lines, cancelled >>

\* Console.CancelKeyPress
CtrlC(c) ==
  /\ main[c] = "running" /\ ~cancelled[c]
  /\ Cancel(c)
  /\ UNCHANGED recvLoop /\ SameMain /\ SameSending /\ OnlyClient

-----------------------------------------------------------------------------
\* ReceiveLoopAsync.  Its finally block cancels, however it ends.

Display(c) ==
  /\ recvLoop[c] = "reading" /\ down[c] > 0
  /\ down' = [down EXCEPT ![c] = @ - 1]
  /\ UNCHANGED << link, up, reset, serverVars, clientVars >>

ServerClosed(c) ==
  /\ recvLoop[c] = "reading" /\ down[c] = 0 /\ link[c] = "closed" /\ ~reset[c]
  /\ EndsReceiving(c, "done")

\* A reset discards what was still to be read.
ReadFails(c) ==
  /\ recvLoop[c] = "reading" /\ reset[c]
  /\ EndsReceiving(c, "failed")

\* A mistake: the exception of a cancelled read is not caught.
ReadCancelledUncaught(c) ==
  /\ recvLoop[c] = "reading" /\ cancelled[c]
  /\ EndsReceiving(c, "failed")

ReadCancelled(c) ==
  /\ recvLoop[c] = "reading" /\ cancelled[c]
  /\ EndsReceiving(c, "done")

ReceiveStep(c) == Display(c) \/ ServerClosed(c) \/ ReadFails(c) \/ ReadCancelled(c)

-----------------------------------------------------------------------------
\* SendLoopAsync.  Its finally block cancels as well.

SendGoes(c, place) == sendLoop' = [sendLoop EXCEPT ![c] = place]

\* A mistake: the loop asks again whatever the other loop found.
AsksAlways(c) == TRUE

Asks(c) == ~cancelled[c]

LoopTop(c) ==
  /\ sendLoop[c] = "top"
  /\ SendGoes(c, IF Asks(c) THEN "prompt" ELSE "done")
  /\ UNCHANGED << recvLoop, typed, lines, cancelled >> /\ SameMain /\ OnlyClient

\* The user, or the file console input comes from, answers: help or nonsense,
\* which sends nothing, a request, perhaps longer than the server's buffer, or
\* disconnect.
Answer(c) ==
  /\ sendLoop[c] = "prompt"
  /\ \/ SendGoes(c, "top") /\ UNCHANGED << typed, lines >>
     \/ \E line \in Types[c] :
          /\ typed' = [typed EXCEPT ![c] = line]
          /\ IF line = "DISCONNECT" THEN UNCHANGED lines
             ELSE lines[c] < MaxLines /\ lines' = [lines EXCEPT ![c] = @ + 1]
          /\ SendGoes(c, "write")
  /\ UNCHANGED << recvLoop, cancelled >> /\ SameMain /\ OnlyClient

\* WriteLineAsync to a connection that is there, ...
Write(c) ==
  /\ sendLoop[c] = "write" /\ link[c] \in {"queued", "open"}
  /\ up' = [up EXCEPT ![c] = Append(@, typed[c])]
  /\ UNCHANGED << link, down, reset >>

\* ... or to one the server has closed, which answers with a reset.
WriteUnheard(c) ==
  /\ sendLoop[c] = "write" /\ link[c] = "closed" /\ ~reset[c]
  /\ reset' = [reset EXCEPT ![c] = TRUE]
  /\ UNCHANGED << link, up, down >>

Written(c) ==
  /\ Write(c) \/ WriteUnheard(c)
  /\ IF typed[c] = "DISCONNECT"
     THEN SendGoes(c, "done") /\ Cancel(c) /\ UNCHANGED typed
     ELSE SendGoes(c, "top") /\ typed' = [typed EXCEPT ![c] = "none"] /\ UNCHANGED cancelled
  /\ UNCHANGED << serverVars, recvLoop, lines >> /\ SameMain

\* The exception leaves the loop and, at the await, RunAsync.
WriteFails(c) ==
  /\ sendLoop[c] = "write" /\ reset[c]
  /\ SendGoes(c, "failed") /\ Cancel(c)
  /\ UNCHANGED << recvLoop, typed, lines >> /\ SameMain /\ OnlyClient

SendStep(c) == LoopTop(c) \/ Answer(c) \/ Written(c) \/ WriteFails(c)

-----------------------------------------------------------------------------
(* The end of RunAsync and of the process: it awaits the send loop, then the
   receive loop; an exception of either one ends it without a goodbye.  What
   was still to be read is gone.                                            *)
Ends(c, how) ==
  /\ main' = [main EXCEPT ![c] = "ended"]
  /\ outcome' = [outcome EXCEPT ![c] = how]
  /\ recvLoop' = [recvLoop EXCEPT ![c] = "off"] /\ sendLoop' = [sendLoop EXCEPT ![c] = "off"]
  /\ down' = [down EXCEPT ![c] = 0]
  /\ UNCHANGED << link, up, reset, serverVars, typed, lines, cancelled >>

Goodbye(c) ==
  /\ main[c] = "running" /\ sendLoop[c] = "done" /\ recvLoop[c] = "done"
  /\ Ends(c, "goodbye")

Crash(c) ==
  /\ main[c] = "running"
  /\ sendLoop[c] = "failed" \/ (sendLoop[c] = "done" /\ recvLoop[c] = "failed")
  /\ Ends(c, "crash")

\* The main task runs the send loop and, once that is over, ends.
ClientFairness ==
  \A c \in Clients : /\ WF_vars(ReceiveStep(c))
                     /\ WF_vars(SendStep(c) \/ Goodbye(c) \/ Crash(c))
=============================================================================
