---------------------------- MODULE SessionProofs ----------------------------
(***************************************************************************)
(* Who may crash and which descriptors stay behind, for any number of        *)
(* clients, descriptors, lines and signals.                                  *)
(***************************************************************************)
EXTENDS ChatSession, SequenceTheorems, TLAPS

Typed ==
  /\ link \in [Clients -> {"none", "queued", "open", "closed"}]
  /\ up \in [Clients -> Seq(Lines)]
  /\ reset \in [Clients -> BOOLEAN]
  /\ fds \in [Numbers -> Clients \cup {"none"}]
  /\ thread \in [Clients -> {"none", "next", "recv", "ended", "overflowed"}]
  /\ fdOf \in [Clients -> {0} \cup Numbers]
  /\ waits \in [Clients -> Clients \cup {"none"}]
  /\ buf \in [Clients -> Seq(Lines)]
  /\ main \in [Clients -> {"off", "running", "ended"}]
  /\ recvLoop \in [Clients -> {"off", "reading", "done", "failed"}]
  /\ sendLoop \in [Clients -> {"off", "top", "prompt", "write", "done", "failed"}]
  /\ typed \in [Clients -> {"none"} \cup Lines]
  /\ outcome \in [Clients -> {"none", "goodbye", "crash", "unreachable"}]

\* A connection that was reset, or that a loop failed on, has been closed.
FailuresMeanClosed ==
  \A c \in Clients :
    reset[c] \/ recvLoop[c] = "failed" \/ sendLoop[c] = "failed" \/ outcome[c] = "crash"
      => link[c] = "closed"

\* Who has not started has no connection; only a running client sends; and what
\* is about to be written was typed.
Lives ==
  \A c \in Clients :
    /\ main[c] = "off" => link[c] = "none" /\ typed[c] = "none"
    /\ main[c] # "running" => sendLoop[c] = "off"
    /\ sendLoop[c] = "write" => typed[c] \in Lines

\* A number never returns to a connection that lost it: it is the one the
\* connection was accepted with, and what its thread calls client_fd.
Numbering ==
  /\ \A n \in Numbers : fds[n] # "none" => fdOf[fds[n]] = n /\ link[fds[n]] = "open"
  /\ \A c \in Clients : link[c] \in {"none", "queued"} => thread[c] = "none" /\ fdOf[c] = 0
  /\ \A c \in Clients : thread[c] \in {"next", "recv"} => fdOf[c] \in Numbers
  /\ srv = "starting"
       => newcomer \in Clients /\ thread[newcomer] = "none" /\ fdOf[newcomer] \in Numbers

\* A recv waits on a connection accepted with the thread's number, on the
\* thread's own as long as that has the number; and no line is left to serve.
Waiting ==
  \A c \in Clients :
    /\ thread[c] = "recv" => waits[c] \in Clients
    /\ waits[c] # "none" => thread[c] = "recv" /\ link[waits[c]] = "open" /\ fdOf[waits[c]] = fdOf[c]
    /\ thread[c] = "recv" /\ c \in Open => waits[c] = c
    /\ thread[c] # "next" => buf[c] = << >>

\* While a connection has its number its thread is there, is about to be, or
\* found nothing more to come.
Served ==
  \A c \in Open :
    \/ thread[c] \in {"next", "recv", "overflowed"}
    \/ srv = "starting" /\ newcomer = c
    \/ thread[c] = "ended" /\ main[c] = "ended" /\ up[c] = << >>

Has(s) == \E i \in DOMAIN s : s[i] = "DISCONNECT"
InBuffer(c) == \E t \in Clients : thread[t] = "next" /\ fdOf[t] = fdOf[c] /\ Has(buf[t])

\* DISCONNECT is the last line a client sends.  Until it is served it is in the
\* connection or in the buffer of a thread that knows the client's number.
GoodbyeOnItsWay ==
  \A c \in Clients : typed[c] = "DISCONNECT" =>
    /\ sendLoop[c] \notin {"top", "prompt"}
    /\ sendLoop[c] # "write" /\ (link[c] = "queued" \/ c \in Open) => Has(up[c]) \/ InBuffer(c)

(* The inductive invariant: a thread that finds its client gone and nothing to
   read leaves a number behind.  If the client had said DISCONNECT, some thread
   has the line in its buffer and will close that number.                   *)
SInv ==
  /\ Typed /\ FailuresMeanClosed /\ Lives
  /\ Numbering /\ Waiting /\ Served /\ GoodbyeOnItsWay

-----------------------------------------------------------------------------
\* Lines.

LEMMA OneMoreLine ==
  ASSUME NEW s \in Seq(Lines), NEW x \in Lines
  PROVE  /\ Append(s, x) \in Seq(Lines) /\ Append(s, x) # << >>
         /\ Has(s) => Has(Append(s, x))
         /\ x = "DISCONNECT" => Has(Append(s, x))
<1>1. /\ Append(s, x) \in Seq(Lines) /\ Len(Append(s, x)) = Len(s) + 1
      /\ \A i \in 1..Len(s) : Append(s, x)[i] = s[i]
      /\ Append(s, x)[Len(s) + 1] = x
      /\ Len(s) \in Nat
      /\ DOMAIN s = 1..Len(s) /\ DOMAIN Append(s, x) = 1..(Len(s) + 1)
  OBVIOUS
<1>2. Has(s) => Has(Append(s, x))
  BY <1>1 DEF Has
<1>3. x = "DISCONNECT" => Has(Append(s, x))
  BY <1>1 DEF Has
<1>4. Append(s, x) # << >>
  BY <1>1
<1> QED BY <1>1, <1>2, <1>3, <1>4

\* A line cut out of a sequence of lines is in one part or in the other.
LEMMA CutInTwo ==
  ASSUME NEW s \in Seq(Lines), NEW k \in 1..Len(s)
  PROVE  /\ SubSeq(s, 1, k) \in Seq(Lines) /\ SubSeq(s, k + 1, Len(s)) \in Seq(Lines)
         /\ Has(s) => Has(SubSeq(s, 1, k)) \/ Has(SubSeq(s, k + 1, Len(s)))
<1> DEFINE l == SubSeq(s, 1, k)
           r == SubSeq(s, k + 1, Len(s))
<1>1. Len(s) \in Nat /\ k \in Nat /\ DOMAIN s = 1..Len(s) /\ \A i \in 1..Len(s) : s[i] \in Lines
  OBVIOUS
<1>2. l \in Seq(Lines) /\ DOMAIN l = 1..k /\ \A i \in 1..k : l[i] = s[i]
  BY <1>1
<1>3. r \in Seq(Lines) /\ DOMAIN r = 1..(Len(s) - k) /\ \A i \in 1..(Len(s) - k) : r[i] = s[k + i]
  BY <1>1
<1>4. ASSUME NEW i \in DOMAIN s, s[i] = "DISCONNECT"
      PROVE  Has(l) \/ Has(r)
  <2>1. CASE i <= k
    BY <1>1, <1>2, <1>4, <2>1 DEF Has
  <2>2. CASE i > k
    <3>1. i - k \in 1..(Len(s) - k) /\ k + (i - k) = i
      BY <1>1, <2>2
    <3> QED BY <1>3, <1>4, <3>1 DEF Has
  <2> QED BY <1>1, <2>1, <2>2
<1> QED BY <1>2, <1>3, <1>4 DEF Has

\* Any other line may go first.
LEMMA OneLineLess ==
  ASSUME NEW s \in Seq(Lines), s # << >>
  PROVE  /\ Tail(s) \in Seq(Lines)
         /\ Has(s) /\ Head(s) # "DISCONNECT" => Has(Tail(s))
<1>1. Len(s) \in Nat \ {0} /\ DOMAIN s = 1..Len(s) /\ Head(s) = s[1]
  OBVIOUS
<1>2. /\ Tail(s) \in Seq(Lines) /\ Len(Tail(s)) = Len(s) - 1
      /\ \A i \in 1..Len(Tail(s)) : Tail(s)[i] = s[i + 1]
  BY <1>1, HeadTailProperties
<1>3. DOMAIN Tail(s) = 1..(Len(s) - 1)
  BY <1>2
<1>4. ASSUME NEW i \in DOMAIN s, s[i] = "DISCONNECT", Head(s) # "DISCONNECT"
      PROVE  Has(Tail(s))
  <2>1. i \in 2..Len(s)
    BY <1>1, <1>4
  <2>2. i - 1 \in 1..(Len(s) - 1) /\ (i - 1) + 1 = i
    BY <1>1, <2>1
  <2> QED BY <1>2, <1>3, <1>4, <2>2 DEF Has
<1> QED BY <1>2, <1>4 DEF Has

LEMMA NothingInAnEmptyBuffer == ~Has(<< >>)
  BY DEF Has

-----------------------------------------------------------------------------
\* What the kernel does when numbers and waits go.
LEMMA WhatIsReleased ==
  ASSUME SInv, Releases
  PROVE  /\ link' \in [Clients -> {"none", "queued", "open", "closed"}]
         /\ reset' \in [Clients -> BOOLEAN]
         /\ \A c \in Clients :
              \/ link'[c] = link[c]
              \/ /\ link[c] = "open" /\ link'[c] = "closed"
                 /\ \A n \in Numbers : fds'[n] # c
                 /\ \A t \in Clients : waits'[t] # c
         /\ \A c \in Clients : reset'[c] => reset[c] \/ link'[c] = "closed"
  BY DEF SInv, Typed, Releases, ServerCloses

\* Losing connections is no client's failure.
LEMMA ClosingKeeps ==
  ASSUME SInv,
         \A c \in Clients : link'[c] = link[c] \/ (link[c] # "none" /\ link'[c] = "closed"),
         \A c \in Clients : reset'[c] => reset[c] \/ link'[c] = "closed",
         UNCHANGED << main, recvLoop, sendLoop, typed, outcome >>
  PROVE  FailuresMeanClosed' /\ Lives'
  BY DEF SInv, Typed, FailuresMeanClosed, Lives

\* A step keeps the parts of the invariant whose variables it leaves alone.
LEMMA Bystanders ==
  ASSUME SInv
  PROVE  /\ UNCHANGED << link, up, reset, fds, thread, fdOf, waits, buf, main, recvLoop, sendLoop,
                         typed, outcome >> => Typed'
         /\ UNCHANGED << link, reset, recvLoop, sendLoop, outcome >> => FailuresMeanClosed'
         /\ UNCHANGED << link, main, sendLoop, typed >> => Lives'
         /\ UNCHANGED << link, fds, thread, fdOf, srv, newcomer >> => Numbering'
         /\ UNCHANGED << link, fds, thread, fdOf, waits, buf >> => Waiting'
         /\ UNCHANGED << up, fds, thread, srv, newcomer, main >> => Served'
         /\ UNCHANGED << link, up, fds, thread, fdOf, buf, sendLoop, typed >> => GoodbyeOnItsWay'
<1>1. UNCHANGED fds => Open' = Open
  BY DEF Open
<1>2. UNCHANGED << link, up, reset, fds, thread, fdOf, waits, buf, main, recvLoop, sendLoop,
                   typed, outcome >> => Typed'
  BY DEF SInv, Typed
<1>3. UNCHANGED << link, reset, recvLoop, sendLoop, outcome >> => FailuresMeanClosed'
  BY DEF SInv, FailuresMeanClosed
<1>4. UNCHANGED << link, main, sendLoop, typed >> => Lives'
  BY DEF SInv, Lives
<1>5. UNCHANGED << link, fds, thread, fdOf, srv, newcomer >> => Numbering'
  BY DEF SInv, Numbering
<1>6. UNCHANGED << link, fds, thread, fdOf, waits, buf >> => Waiting'
  BY <1>1 DEF SInv, Waiting
<1>7. UNCHANGED << up, fds, thread, srv, newcomer, main >> => Served'
  BY <1>1 DEF SInv, Served
<1>8. UNCHANGED << link, up, fds, thread, fdOf, buf, sendLoop, typed >> => GoodbyeOnItsWay'
  BY <1>1 DEF SInv, GoodbyeOnItsWay, InBuffer, Has
<1> QED BY <1>2, <1>3, <1>4, <1>5, <1>6, <1>7, <1>8

\* Who is open has one number.
LEMMA OpenMeansNumbered ==
  ASSUME SInv
  PROVE  /\ Open \subseteq Clients
         /\ \A c \in Clients : c \in Open <=> \E n \in Numbers : fds[n] = c
         /\ \A c \in Open : fdOf[c] \in Numbers /\ fds[fdOf[c]] = c /\ link[c] = "open"
  BY SessionAssumption DEF SInv, Typed, Numbering, Open

LEMMA OpenAfterwards ==
  ASSUME Typed'
  PROVE  /\ Open' \subseteq Clients
         /\ \A c \in Clients : c \in Open' <=> \E n \in Numbers : fds'[n] = c
  BY SessionAssumption DEF Typed, Open

-----------------------------------------------------------------------------
\* The main thread.

\* Calling accept, and SIGINT, do not touch a connection.
LEMMA WaitingKeeps ==
  ASSUME SInv, AcceptCalled \/ Sigint
  PROVE  SInv'
<1>1. UNCHANGED << linkVars, threadVars, newcomer, clientVars >>
  BY DEF AcceptCalled, Sigint, OnlyMain, SameClients
<1>2. srv' = srv \/ (srv # "starting" /\ srv' # "starting")
  BY DEF AcceptCalled, Sigint
<1>3. Numbering'
  BY <1>1, <1>2 DEF SInv, Numbering, linkVars, threadVars
<1>4. Served'
  BY <1>1, <1>2 DEF SInv, Served, Open, linkVars, threadVars, clientVars
<1> QED BY <1>1, <1>3, <1>4, Bystanders DEF SInv, linkVars, threadVars, clientVars

\* The new connection has a number and no thread, and main is about to start one.
LEMMA AcceptReturnsKeeps ==
  ASSUME SInv, NEW c \in Clients, AcceptReturns(c)
  PROVE  SInv'
<1>1. /\ link[c] = "queued" /\ link' = [link EXCEPT ![c] = "open"]
      /\ srv' = "starting" /\ newcomer' = c /\ srv = "accept"
      /\ UNCHANGED << up, reset, thread, waits, buf, clientVars >>
  BY DEF AcceptReturns, SameClients
<1>2. PICK n \in Numbers : /\ fds[n] = "none"
                           /\ fds' = [fds EXCEPT ![n] = c] /\ fdOf' = [fdOf EXCEPT ![c] = n]
  BY DEF AcceptReturns
<1>3. thread[c] = "none" /\ fdOf[c] = 0 /\ c \notin Open /\ 0 \notin Numbers
  BY <1>1, OpenMeansNumbered DEF SInv, Numbering, Numbers
<1>4. Typed'
  BY <1>1, <1>2 DEF SInv, Typed, clientVars
<1>5. FailuresMeanClosed' /\ Lives'
  BY <1>1 DEF SInv, Typed, FailuresMeanClosed, Lives, clientVars
<1>6. \A d \in Clients : d \in Open' <=> d \in Open \/ d = c
  <2>1. \A d \in Clients : d # "none"
    BY SessionAssumption
  <2>2. fds'[n] = c /\ \A m \in Numbers \ {n} : fds'[m] = fds[m]
    BY <1>2 DEF SInv, Typed
  <2>3. \A d \in Clients : (\E m \in Numbers : fds'[m] = d) <=> (\E m \in Numbers : fds[m] = d) \/ d = c
    BY <1>2, <2>1, <2>2
  <2> QED BY <1>4, <2>3, OpenAfterwards, OpenMeansNumbered
<1>7. Numbering'
  BY <1>1, <1>2, <1>3, OpenMeansNumbered, SessionAssumption DEF SInv, Typed, Numbering
<1>8. \A t \in Clients : waits[t] # c
  BY <1>1, SessionAssumption DEF SInv, Waiting
<1>9. Waiting'
  <2>1. \A t \in Clients : thread[t] = "recv" => t # c
    BY <1>3
  <2> QED BY <1>1, <1>2, <1>3, <1>6, <1>8, <2>1 DEF SInv, Typed, Waiting
<1>10. Served'
  BY <1>1, <1>4, <1>6, OpenAfterwards, OpenMeansNumbered DEF SInv, Served, clientVars
<1>11. GoodbyeOnItsWay'
  <2>1. SUFFICES ASSUME NEW d \in Clients, typed'[d] = "DISCONNECT"
        PROVE  /\ sendLoop'[d] \notin {"top", "prompt"}
               /\ sendLoop'[d] # "write" /\ (link'[d] = "queued" \/ d \in Open')
                     => Has(up'[d]) \/ InBuffer(d)'
    BY DEF GoodbyeOnItsWay, Has
  <2>2. /\ sendLoop[d] \notin {"top", "prompt"}
        /\ sendLoop[d] # "write" /\ (link[d] = "queued" \/ d \in Open) => Has(up[d]) \/ InBuffer(d)
    BY <1>1, <2>1 DEF SInv, GoodbyeOnItsWay, clientVars
  <2>3. CASE d = c
    <3>1. ~InBuffer(c)
      BY <1>3 DEF SInv, InBuffer, Numbering
    <3> QED BY <1>1, <2>2, <2>3, <3>1 DEF clientVars
  <2>4. CASE d # c
    <3>1. InBuffer(d) => InBuffer(d)'
      <4>1. ASSUME NEW t \in Clients, thread[t] = "next", fdOf[t] = fdOf[d], Has(buf[t])
            PROVE  thread'[t] = "next" /\ fdOf'[t] = fdOf'[d] /\ Has(buf'[t])
        BY <1>1, <1>2, <1>3, <2>4, <4>1 DEF SInv, Typed
      <4> QED BY <4>1 DEF InBuffer, Has
    <3>2. link'[d] = link[d] /\ (d \in Open' <=> d \in Open)
      BY <1>1, <1>6, <2>4 DEF SInv, Typed
    <3> QED BY <1>1, <2>2, <3>1, <3>2 DEF clientVars
  <2> QED BY <2>3, <2>4
<1> QED BY <1>4, <1>5, <1>7, <1>9, <1>10, <1>11 DEF SInv

\* The newcomer gets its thread.
LEMMA ThreadStartsKeeps ==
  ASSUME SInv, ThreadStarts
  PROVE  SInv'
<1>1. /\ srv = "starting" /\ srv' = "loop"
      /\ thread' = [thread EXCEPT ![newcomer] = "next"]
      /\ UNCHANGED << linkVars, fds, fdOf, waits, buf, clientVars >>
  BY DEF ThreadStarts, SameClients
<1>2. newcomer \in Clients /\ thread[newcomer] = "none" /\ fdOf[newcomer] \in Numbers
  BY <1>1 DEF SInv, Numbering
<1>3. link[newcomer] \notin {"none", "queued"}
  BY <1>2 DEF SInv, Numbering, Numbers
<1>4. Typed'
  BY <1>1, <1>2 DEF SInv, Typed, linkVars, clientVars
<1>5. Numbering'
  BY <1>1, <1>2, <1>3 DEF SInv, Typed, Numbering, linkVars
<1>6. Waiting'
  BY <1>1, <1>2 DEF SInv, Typed, Waiting, Open, linkVars
<1>7. Served'
  <2>1. Open' = Open
    BY <1>1 DEF Open
  <2> QED BY <1>1, <1>2, <2>1, OpenMeansNumbered DEF SInv, Typed, Served, linkVars, clientVars
<1>8. GoodbyeOnItsWay'
  <2>1. Open' = Open
    BY <1>1 DEF Open
  <2>2. ASSUME NEW c \in Clients PROVE InBuffer(c) => InBuffer(c)'
    BY <1>1, <1>2 DEF SInv, Typed, InBuffer, Has
  <2> QED BY <1>1, <2>1, <2>2 DEF SInv, GoodbyeOnItsWay, Has, linkVars, clientVars
<1> QED BY <1>1, <1>4, <1>5, <1>6, <1>7, <1>8, Bystanders DEF SInv, linkVars, clientVars

\* Nothing is left of a process that has ended.
LEMMA ExitKeeps ==
  ASSUME SInv, Exit
  PROVE  SInv'
<1>1. /\ srv' = "exited" /\ fds' = [n \in Numbers |-> "none"] /\ thread' = All("none")
      /\ fdOf' = All(0) /\ waits' = All("none") /\ buf' = All(<< >>)
      /\ UNCHANGED << up, main, recvLoop, sendLoop, typed, outcome >>
  BY DEF Exit, SameClients, clientVars
<1>2. /\ link' = [c \in Clients |-> IF link[c] \in {"queued", "open"} THEN "closed" ELSE link[c]]
      /\ reset' \in [Clients -> BOOLEAN]
      /\ \A c \in Clients : reset'[c] => reset[c] \/ link'[c] = "closed"
  BY DEF Exit, ServerCloses, SInv, Typed
<1>3. Typed'
  BY <1>1, <1>2 DEF SInv, Typed, All
<1>4. FailuresMeanClosed' /\ Lives'
  BY <1>1, <1>2, ClosingKeeps DEF SInv, Typed
<1>5. Open' = {}
  BY <1>1 DEF Open
<1>6. Numbering' /\ Served'
  BY <1>1, <1>5 DEF Numbering, Served, All
<1>7. Waiting'
  BY <1>1, <1>5 DEF Waiting, All
<1>8. GoodbyeOnItsWay'
  <2>1. \A c \in Clients : link'[c] # "queued"
    BY <1>2
  <2> QED BY <1>1, <1>5, <2>1 DEF SInv, GoodbyeOnItsWay
<1> QED BY <1>3, <1>4, <1>6, <1>7, <1>8 DEF SInv

-----------------------------------------------------------------------------
\* Closing a number.

\* The connection behind it loses it, and nobody else loses anything.
LEMMA NumberCloses ==
  ASSUME SInv, NEW n \in Numbers, Closes(n),
         UNCHANGED << fdOf, waits, main, recvLoop, sendLoop, typed, outcome >>
  PROVE  /\ link' \in [Clients -> {"none", "queued", "open", "closed"}]
         /\ reset' \in [Clients -> BOOLEAN]
         /\ fds' \in [Numbers -> Clients \cup {"none"}]
         /\ FailuresMeanClosed' /\ Lives'
         /\ Open' \subseteq {c \in Open : fdOf[c] # n}
         /\ \A m \in Numbers : fds'[m] # "none" => fdOf'[fds'[m]] = m /\ link'[fds'[m]] = "open"
         /\ \A c \in Clients : link'[c] \in {"none", "queued"} => link[c] = link'[c]
         /\ \A t \in Clients : waits[t] # "none" => link'[waits[t]] = "open"
<1>1. fds' = [fds EXCEPT ![n] = "none"] /\ Releases
  BY DEF Closes
<1>2. /\ link' \in [Clients -> {"none", "queued", "open", "closed"}]
      /\ reset' \in [Clients -> BOOLEAN]
      /\ \A c \in Clients :
           \/ link'[c] = link[c]
           \/ /\ link[c] = "open" /\ link'[c] = "closed"
              /\ \A m \in Numbers : fds'[m] # c
              /\ \A t \in Clients : waits'[t] # c
      /\ \A c \in Clients : reset'[c] => reset[c] \/ link'[c] = "closed"
  BY <1>1, WhatIsReleased
<1>3. FailuresMeanClosed' /\ Lives'
  BY <1>2, ClosingKeeps
<1>4. fds' \in [Numbers -> Clients \cup {"none"}] /\ fds'[n] = "none"
      /\ \A m \in Numbers \ {n} : fds'[m] = fds[m]
  BY <1>1 DEF SInv, Typed
<1>5. \A m \in Numbers : fds'[m] # "none" => fds'[m] \in Clients /\ fdOf[fds'[m]] = m /\ m # n
                                               /\ link[fds'[m]] = "open"
  BY <1>4 DEF SInv, Typed, Numbering
<1>6. \A m \in Numbers : fds'[m] # "none" => fdOf'[fds'[m]] = m /\ link'[fds'[m]] = "open"
  BY <1>2, <1>5
<1>7. Open' \subseteq {c \in Open : fdOf[c] # n}
  BY <1>4, <1>5 DEF Open
<1>8. ASSUME NEW t \in Clients, waits[t] # "none"
      PROVE  link'[waits[t]] = "open"
  BY <1>2, <1>8 DEF SInv, Typed, Waiting
<1> QED BY <1>2, <1>3, <1>4, <1>6, <1>7, <1>8

\* A newcomer without a thread has lost its number, or has just been given up.
LEMMA ThreadFailsKeeps ==
  ASSUME SInv, ThreadFails
  PROVE  SInv'
<1>1. /\ srv = "starting" /\ srv' = "loop" /\ Closes(fdOf[newcomer])
      /\ UNCHANGED << up, thread, fdOf, waits, buf, clientVars >>
  BY DEF ThreadFails, SameClients
<1>2. newcomer \in Clients /\ fdOf[newcomer] \in Numbers
  BY <1>1 DEF SInv, Numbering
<1> DEFINE n == fdOf[newcomer]
<1>3. /\ link' \in [Clients -> {"none", "queued", "open", "closed"}]
      /\ reset' \in [Clients -> BOOLEAN]
      /\ fds' \in [Numbers -> Clients \cup {"none"}]
      /\ FailuresMeanClosed' /\ Lives'
      /\ Open' \subseteq {c \in Open : fdOf[c] # n}
      /\ \A m \in Numbers : fds'[m] # "none" => fdOf'[fds'[m]] = m /\ link'[fds'[m]] = "open"
      /\ \A c \in Clients : link'[c] \in {"none", "queued"} => link[c] = link'[c]
      /\ \A t \in Clients : waits[t] # "none" => link'[waits[t]] = "open"
  BY <1>1, <1>2, NumberCloses DEF clientVars
<1>4. Typed'
  BY <1>1, <1>3 DEF SInv, Typed, clientVars
<1>5. Numbering'
  BY <1>1, <1>3 DEF SInv, Numbering
<1>6. Waiting'
  BY <1>1, <1>3 DEF SInv, Waiting
<1>7. Served'
  BY <1>1, <1>3 DEF SInv, Served, clientVars
<1>8. GoodbyeOnItsWay'
  BY <1>1, <1>3 DEF SInv, GoodbyeOnItsWay, InBuffer, Has, clientVars
<1> QED BY <1>3, <1>4, <1>5, <1>6, <1>7, <1>8 DEF SInv

-----------------------------------------------------------------------------
\* The threads.

\* What is in a buffer stays in one, the line served now excepted.
LEMMA ALineLess ==
  ASSUME SInv, NEW c \in Clients, NEW line, Serves(c, line)
  PROVE  /\ UNCHANGED << up, thread, fdOf, waits, srv, newcomer, clientVars >>
         /\ buf' \in [Clients -> Seq(Lines)]
         /\ \A t \in Clients : thread[t] # "next" => buf'[t] = << >>
         /\ fdOf[c] \in Numbers
         /\ \A d \in Clients :
              InBuffer(d) => InBuffer(d)' \/ (line = "DISCONNECT" /\ fdOf[d] = fdOf[c])
<1>1. /\ thread[c] = "next" /\ buf[c] # << >> /\ Head(buf[c]) = line
      /\ buf' = [buf EXCEPT ![c] = Tail(buf[c])]
      /\ UNCHANGED << up, thread, fdOf, waits, srv, newcomer, clientVars >>
  BY DEF Serves, mainVars, SameClients
<1>2. buf[c] \in Seq(Lines) /\ buf \in [Clients -> Seq(Lines)]
  BY DEF SInv, Typed
<1>3. /\ Tail(buf[c]) \in Seq(Lines)
      /\ Has(buf[c]) /\ line # "DISCONNECT" => Has(Tail(buf[c]))
  BY <1>1, <1>2, OneLineLess
<1>4. /\ buf' \in [Clients -> Seq(Lines)] /\ buf'[c] = Tail(buf[c])
      /\ \A t \in Clients \ {c} : buf'[t] = buf[t]
  BY <1>1, <1>2, <1>3
<1>5. ASSUME NEW d \in Clients, NEW t \in Clients,
             thread[t] = "next", fdOf[t] = fdOf[d], Has(buf[t])
      PROVE  \/ thread'[t] = "next" /\ fdOf'[t] = fdOf'[d] /\ Has(buf'[t])
             \/ line = "DISCONNECT" /\ fdOf[d] = fdOf[c]
  <2>1. CASE t = c
    BY <1>1, <1>3, <1>4, <1>5, <2>1
  <2>2. CASE t # c
    BY <1>1, <1>4, <1>5, <2>2
  <2> QED BY <2>1, <2>2
<1>6. \A d \in Clients : InBuffer(d) => InBuffer(d)' \/ (line = "DISCONNECT" /\ fdOf[d] = fdOf[c])
  BY <1>5 DEF InBuffer, Has
<1>7. \A t \in Clients : thread[t] # "next" => buf'[t] = << >>
  BY <1>1, <1>4 DEF SInv, Waiting
<1> QED BY <1>1, <1>4, <1>6, <1>7 DEF SInv, Numbering

\* A line is answered, and nobody loses a connection.
LEMMA ThreadAnswersKeeps ==
  ASSUME SInv, NEW c \in Clients, ThreadAnswers(c)
  PROVE  SInv'
<1>1. Serves(c, "request") /\ UNCHANGED << link, reset, fds >>
  BY DEF ThreadAnswers
<1>2. /\ UNCHANGED << up, thread, fdOf, waits, srv, newcomer, clientVars >>
      /\ buf' \in [Clients -> Seq(Lines)]
      /\ \A t \in Clients : thread[t] # "next" => buf'[t] = << >>
      /\ \A d \in Clients : InBuffer(d) => InBuffer(d)'
  BY <1>1, ALineLess
<1>3. Typed'
  BY <1>1, <1>2 DEF SInv, Typed, clientVars
<1>4. Waiting'
  BY <1>1, <1>2 DEF SInv, Waiting, Open
<1>5. Open' = Open
  BY <1>1 DEF Open
<1>6. GoodbyeOnItsWay'
  BY <1>1, <1>2, <1>5 DEF SInv, GoodbyeOnItsWay, Has, clientVars
<1> QED BY <1>1, <1>2, <1>3, <1>4, <1>6, Bystanders DEF SInv, clientVars

(* A line is served and a number closed: the number of the thread's client if
   the line is DISCONNECT.  Whoever's goodbye that was had that number.     *)
LEMMA ClosingALineKeeps ==
  ASSUME SInv, NEW c \in Clients, NEW line, Serves(c, line), NEW n \in Numbers, Closes(n),
         line = "DISCONNECT" => n = fdOf[c]
  PROVE  SInv'
<1>1. /\ UNCHANGED << up, thread, fdOf, waits, srv, newcomer, clientVars >>
      /\ buf' \in [Clients -> Seq(Lines)]
      /\ \A t \in Clients : thread[t] # "next" => buf'[t] = << >>
      /\ fdOf[c] \in Numbers
      /\ \A d \in Clients :
           InBuffer(d) => InBuffer(d)' \/ (line = "DISCONNECT" /\ fdOf[d] = fdOf[c])
  BY ALineLess
<1>2. /\ link' \in [Clients -> {"none", "queued", "open", "closed"}]
      /\ reset' \in [Clients -> BOOLEAN]
      /\ fds' \in [Numbers -> Clients \cup {"none"}]
      /\ FailuresMeanClosed' /\ Lives'
      /\ Open' \subseteq {d \in Open : fdOf[d] # n}
      /\ \A m \in Numbers : fds'[m] # "none" => fdOf'[fds'[m]] = m /\ link'[fds'[m]] = "open"
      /\ \A d \in Clients : link'[d] \in {"none", "queued"} => link[d] = link'[d]
      /\ \A t \in Clients : waits[t] # "none" => link'[waits[t]] = "open"
  BY <1>1, NumberCloses DEF clientVars
<1>3. Typed'
  BY <1>1, <1>2 DEF SInv, Typed, clientVars
<1>4. Numbering'
  BY <1>1, <1>2 DEF SInv, Numbering
<1>5. Waiting'
  BY <1>1, <1>2 DEF SInv, Waiting
<1>6. Served'
  BY <1>1, <1>2 DEF SInv, Served, clientVars
<1>7. GoodbyeOnItsWay'
  <2>1. SUFFICES ASSUME NEW d \in Clients, typed[d] = "DISCONNECT", sendLoop[d] # "write",
                        link'[d] = "queued" \/ d \in Open'
                 PROVE  Has(up[d]) \/ InBuffer(d)'
    BY <1>1 DEF SInv, GoodbyeOnItsWay, Has, clientVars
  <2>2. Has(up[d]) \/ InBuffer(d)
    BY <1>2, <2>1 DEF SInv, GoodbyeOnItsWay
  <2>3. line = "DISCONNECT" => fdOf[d] # fdOf[c]
    <3>1. CASE link'[d] = "queued"
      <4>1. 0 \notin Numbers /\ fdOf[c] \in Numbers
        BY <1>1 DEF Numbers
      <4>2. link[d] = "queued"
        BY <1>2, <3>1
      <4>3. fdOf[d] = 0
        BY <4>2 DEF SInv, Numbering
      <4> QED BY <4>1, <4>3
    <3>2. CASE d \in Open'
      BY <1>2, <3>2
    <3> QED BY <2>1, <3>1, <3>2
  <2> QED BY <1>1, <2>2, <2>3
<1> QED BY <1>2, <1>3, <1>4, <1>5, <1>6, <1>7 DEF SInv

LEMMA ThreadClosesKeeps ==
  ASSUME SInv, NEW c \in Clients, ThreadDisconnects(c) \/ ThreadDropsInvited(c)
  PROVE  SInv'
<1>1. \A line : Serves(c, line) => fdOf[c] \in Numbers
  BY ALineLess
<1>2. CASE ThreadDisconnects(c)
  <2>1. PICK line \in Lines : Serves(c, line) /\ Closes(fdOf[c])
    BY <1>2 DEF ThreadDisconnects, Lines
  <2> QED BY <1>1, <2>1, ClosingALineKeeps
<1>3. CASE ThreadDropsInvited(c)
  <2>1. PICK n \in Numbers : Serves(c, "request") /\ Closes(n)
    BY <1>3 DEF ThreadDropsInvited
  <2> QED BY <2>1, ClosingALineKeeps
<1> QED BY <1>2, <1>3

\* A thread without lines to serve asks the number it knows for more.
LEMMA ThreadCallsRecvKeeps ==
  ASSUME SInv, NEW c \in Clients, ThreadCallsRecv(c)
  PROVE  SInv'
<1> DEFINE w == fds[fdOf[c]]
<1>1. /\ thread[c] = "next" /\ buf[c] = << >>
      /\ thread' = [thread EXCEPT ![c] = IF w = "none" THEN "ended" ELSE "recv"]
      /\ waits' = [waits EXCEPT ![c] = w]
      /\ UNCHANGED << link, up, reset, fds, buf, fdOf, srv, newcomer, clientVars >>
  BY DEF ThreadCallsRecv, ThreadGoes, OnlyThread, SameClients, mainVars
<1>2. fdOf[c] \in Numbers /\ w \in Clients \cup {"none"} /\ Open' = Open
  BY <1>1 DEF SInv, Typed, Numbering, Open
<1>3. w # "none" => w \in Clients /\ fdOf[w] = fdOf[c] /\ link[w] = "open"
  BY <1>2 DEF SInv, Numbering
<1>4. c \in Open => w = c
  BY <1>2, OpenMeansNumbered
<1>5. Typed'
  BY <1>1, <1>2 DEF SInv, Typed, clientVars
<1>6. Numbering'
  BY <1>1, <1>2 DEF SInv, Typed, Numbering
<1>7. \A t \in Clients \ {c} : thread'[t] = thread[t] /\ waits'[t] = waits[t]
  BY <1>1 DEF SInv, Typed
<1>8. thread'[c] = (IF w = "none" THEN "ended" ELSE "recv") /\ waits'[c] = w
  BY <1>1 DEF SInv, Typed
<1>9. Waiting'
  <2>1. SUFFICES ASSUME NEW t \in Clients
        PROVE  /\ thread'[t] = "recv" => waits'[t] \in Clients
               /\ waits'[t] # "none" => thread'[t] = "recv" /\ link'[waits'[t]] = "open"
                                          /\ fdOf'[waits'[t]] = fdOf'[t]
               /\ thread'[t] = "recv" /\ t \in Open' => waits'[t] = t
               /\ thread'[t] # "next" => buf'[t] = << >>
    BY DEF Waiting
  <2>2. CASE t = c
    BY <1>1, <1>2, <1>3, <1>4, <1>8, <2>2
  <2>3. CASE t # c
    BY <1>1, <1>2, <1>7, <2>3 DEF SInv, Waiting
  <2> QED BY <2>2, <2>3
<1>10. Served'
  <2>1. SUFFICES ASSUME NEW d \in Open
        PROVE  \/ thread'[d] \in {"next", "recv", "overflowed"}
               \/ srv' = "starting" /\ newcomer' = d
               \/ thread'[d] = "ended" /\ main'[d] = "ended" /\ up'[d] = << >>
    BY <1>2 DEF Served
  <2>2. d \in Clients
    BY OpenMeansNumbered
  <2>3. CASE d = c
    BY <1>4, <1>8, <2>1, <2>2, <2>3, SessionAssumption
  <2>4. CASE d # c
    BY <1>1, <1>7, <2>1, <2>2, <2>4 DEF SInv, Served, clientVars
  <2> QED BY <2>3, <2>4
<1>11. GoodbyeOnItsWay'
  <2>1. ASSUME NEW d \in Clients PROVE InBuffer(d) => InBuffer(d)'
    <3>1. ASSUME NEW t \in Clients, thread[t] = "next", fdOf[t] = fdOf[d], Has(buf[t])
          PROVE  thread'[t] = "next" /\ fdOf'[t] = fdOf'[d] /\ Has(buf'[t])
      BY <1>1, <1>7, <3>1, NothingInAnEmptyBuffer
    <3> QED BY <3>1 DEF InBuffer, Has
  <2> QED BY <1>1, <1>2, <2>1 DEF SInv, GoodbyeOnItsWay, Has, clientVars
<1> QED BY <1>1, <1>5, <1>6, <1>9, <1>10, <1>11, Bystanders DEF SInv, clientVars

\* What any end of a recv does and leaves alone.
LEMMA RecvReturns ==
  ASSUME SInv, NEW c \in Clients, NEW place \in {"next", "ended", "overflowed"},
         thread[c] = "recv", Returns(c, place)
  PROVE  /\ UNCHANGED << fds, fdOf, srv, newcomer, clientVars >>
         /\ thread' = [thread EXCEPT ![c] = place] /\ waits' = [waits EXCEPT ![c] = "none"]
         /\ waits[c] \in Clients /\ fdOf[waits[c]] = fdOf[c] /\ Open' = Open
         /\ \A d \in Clients : link'[d] = link[d] \/ (link[d] = "open" /\ link'[d] = "closed")
         /\ up' \in [Clients -> Seq(Lines)] /\ buf' \in [Clients -> Seq(Lines)] => Typed'
         /\ FailuresMeanClosed' /\ Lives' /\ Numbering'
         /\ (\A t \in Clients : thread'[t] # "next" => buf'[t] = << >>) => Waiting'
<1>1. /\ UNCHANGED << fds, fdOf, srv, newcomer, clientVars >> /\ Releases
      /\ thread' = [thread EXCEPT ![c] = place] /\ waits' = [waits EXCEPT ![c] = "none"]
  BY DEF Returns, ThreadGoes, OnlyThread, SameClients, mainVars
<1>2. waits[c] \in Clients /\ fdOf[waits[c]] = fdOf[c] /\ Open' = Open
  BY <1>1, SessionAssumption DEF SInv, Waiting, Open
<1>3. /\ link' \in [Clients -> {"none", "queued", "open", "closed"}]
      /\ reset' \in [Clients -> BOOLEAN]
      /\ \A d \in Clients :
           \/ link'[d] = link[d]
           \/ /\ link[d] = "open" /\ link'[d] = "closed"
              /\ \A m \in Numbers : fds'[m] # d
              /\ \A t \in Clients : waits'[t] # d
      /\ \A d \in Clients : reset'[d] => reset[d] \/ link'[d] = "closed"
  BY <1>1, WhatIsReleased
<1>4. FailuresMeanClosed' /\ Lives'
  BY <1>1, <1>3, ClosingKeeps DEF clientVars
<1>5. up' \in [Clients -> Seq(Lines)] /\ buf' \in [Clients -> Seq(Lines)] => Typed'
  BY <1>1, <1>3 DEF SInv, Typed, clientVars
<1>6. /\ \A t \in Clients \ {c} : thread'[t] = thread[t] /\ waits'[t] = waits[t]
      /\ thread'[c] = place /\ waits'[c] = "none"
  BY <1>1 DEF SInv, Typed
<1>7. Numbering'
  <2>1. ASSUME NEW m \in Numbers, fds'[m] # "none"
        PROVE  fdOf'[fds'[m]] = m /\ link'[fds'[m]] = "open"
    BY <1>1, <1>3, <2>1 DEF SInv, Typed, Numbering
  <2>2. ASSUME NEW d \in Clients, link'[d] \in {"none", "queued"}
        PROVE  thread'[d] = "none" /\ fdOf'[d] = 0
    BY <1>1, <1>3, <1>6, <2>2 DEF SInv, Numbering
  <2>3. ASSUME NEW d \in Clients, thread'[d] \in {"next", "recv"}
        PROVE  fdOf'[d] \in Numbers
    BY <1>1, <1>6, <2>3 DEF SInv, Numbering
  <2>4. srv' = "starting" => newcomer' \in Clients /\ thread'[newcomer'] = "none"
                                 /\ fdOf'[newcomer'] \in Numbers
    BY <1>1, <1>6 DEF SInv, Numbering
  <2> QED BY <2>1, <2>2, <2>3, <2>4 DEF Numbering
<1>8. ASSUME \A t \in Clients : thread'[t] # "next" => buf'[t] = << >>
      PROVE  Waiting'
  <2>1. SUFFICES ASSUME NEW t \in Clients
        PROVE  /\ thread'[t] = "recv" => waits'[t] \in Clients
               /\ waits'[t] # "none" => thread'[t] = "recv" /\ link'[waits'[t]] = "open"
                                          /\ fdOf'[waits'[t]] = fdOf'[t]
               /\ thread'[t] = "recv" /\ t \in Open' => waits'[t] = t
    BY <1>8 DEF Waiting
  <2>2. CASE t = c
    BY <1>6, <2>2
  <2>3. CASE t # c
    BY <1>1, <1>2, <1>3, <1>6, <2>3 DEF SInv, Typed, Waiting
  <2> QED BY <2>2, <2>3
<1> QED BY <1>1, <1>2, <1>3, <1>4, <1>5, <1>7, <1>8

\* A thread that goes from a recv to serving lines, or gives up its client,
\* still serves it.
LEMMA StillServed ==
  ASSUME SInv, NEW c \in Clients, NEW place \in {"next", "overflowed"}, thread[c] = "recv",
         thread' = [thread EXCEPT ![c] = place], Open' = Open,
         UNCHANGED << srv, newcomer, main >>,
         \A d \in Clients : up[d] = << >> => up'[d] = << >>
  PROVE  Served'
<1>1. ASSUME NEW d \in Open
      PROVE  \/ thread'[d] \in {"next", "recv", "overflowed"}
             \/ srv' = "starting" /\ newcomer' = d
             \/ thread'[d] = "ended" /\ main'[d] = "ended" /\ up'[d] = << >>
  <2>1. d \in Clients
    BY OpenMeansNumbered
  <2>2. CASE d = c
    BY <2>1, <2>2 DEF SInv, Typed
  <2>3. CASE d # c
    BY <2>1, <2>3 DEF SInv, Typed, Served
  <2> QED BY <2>2, <2>3
<1> QED BY <1>1 DEF Served

\* Lines go from a connection to the buffer of a thread with its number.
LEMMA ThreadReceivesKeeps ==
  ASSUME SInv, NEW c \in Clients, ThreadReceives(c)
  PROVE  SInv'
<1> DEFINE w == waits[c]
<1>1. thread[c] = "recv" /\ Returns(c, "next")
  BY DEF ThreadReceives
<1>2. /\ UNCHANGED << fds, fdOf, srv, newcomer, clientVars >>
      /\ thread' = [thread EXCEPT ![c] = "next"] /\ waits' = [waits EXCEPT ![c] = "none"]
      /\ w \in Clients /\ fdOf[w] = fdOf[c] /\ Open' = Open
      /\ \A d \in Clients : link'[d] = link[d] \/ (link[d] = "open" /\ link'[d] = "closed")
      /\ up' \in [Clients -> Seq(Lines)] /\ buf' \in [Clients -> Seq(Lines)] => Typed'
      /\ FailuresMeanClosed' /\ Lives' /\ Numbering'
      /\ (\A t \in Clients : thread'[t] # "next" => buf'[t] = << >>) => Waiting'
  BY <1>1, RecvReturns
<1>3. PICK k \in 1..Len(up[w]) :
        /\ buf' = [buf EXCEPT ![c] = SubSeq(up[w], 1, k)]
        /\ up' = [up EXCEPT ![w] = SubSeq(up[w], k + 1, Len(up[w]))]
  BY DEF ThreadReceives
<1>4. up[w] \in Seq(Lines) /\ up \in [Clients -> Seq(Lines)] /\ buf \in [Clients -> Seq(Lines)]
  BY <1>2 DEF SInv, Typed
<1>5. /\ SubSeq(up[w], 1, k) \in Seq(Lines) /\ SubSeq(up[w], k + 1, Len(up[w])) \in Seq(Lines)
      /\ Has(up[w]) => Has(SubSeq(up[w], 1, k)) \/ Has(SubSeq(up[w], k + 1, Len(up[w])))
  BY <1>4, CutInTwo
<1>6. /\ buf' \in [Clients -> Seq(Lines)] /\ up' \in [Clients -> Seq(Lines)]
      /\ buf'[c] = SubSeq(up[w], 1, k) /\ up'[w] = SubSeq(up[w], k + 1, Len(up[w]))
      /\ \A d \in Clients \ {c} : buf'[d] = buf[d]
      /\ \A d \in Clients \ {w} : up'[d] = up[d]
  BY <1>2, <1>3, <1>4, <1>5
<1>7. thread'[c] = "next" /\ \A d \in Clients \ {c} : thread'[d] = thread[d]
  BY <1>2 DEF SInv, Typed
<1>8. Waiting'
  <2>1. \A t \in Clients : thread'[t] # "next" => t # c /\ buf[t] = << >>
    BY <1>7 DEF SInv, Waiting
  <2> QED BY <1>2, <1>6, <2>1
<1>9. Served'
  <2>1. \A d \in Clients : up[d] = << >> => up'[d] = << >>
    <3>1. up[w] # << >>
      BY <1>3, <1>4
    <3> QED BY <1>6, <3>1
  <2> QED BY <1>1, <1>2, <2>1, StillServed DEF clientVars
<1>10. GoodbyeOnItsWay'
  <2>1. SUFFICES ASSUME NEW d \in Clients, typed[d] = "DISCONNECT", sendLoop[d] # "write",
                        link'[d] = "queued" \/ d \in Open'
                 PROVE  Has(up'[d]) \/ InBuffer(d)'
    BY <1>2 DEF SInv, GoodbyeOnItsWay, Has, clientVars
  <2>2. Has(up[d]) \/ InBuffer(d)
    BY <1>2, <2>1 DEF SInv, GoodbyeOnItsWay
  <2>3. InBuffer(d) => InBuffer(d)'
    <3>1. ASSUME NEW t \in Clients, thread[t] = "next", fdOf[t] = fdOf[d], Has(buf[t])
          PROVE  thread'[t] = "next" /\ fdOf'[t] = fdOf'[d] /\ Has(buf'[t])
      BY <1>1, <1>2, <1>6, <1>7, <3>1
    <3> QED BY <3>1 DEF InBuffer, Has
  <2>4. Has(up[d]) => Has(up'[d]) \/ InBuffer(d)'
    <3>1. CASE d # w
      BY <1>6, <3>1
    <3>2. CASE d = w
      <4>1. Has(buf'[c]) => InBuffer(d)'
        BY <1>2, <1>7, <3>2 DEF InBuffer, Has
      <4> QED BY <1>5, <1>6, <3>2, <4>1
    <3> QED BY <3>1, <3>2
  <2> QED BY <2>2, <2>3, <2>4
<1> QED BY <1>2, <1>6, <1>8, <1>9, <1>10 DEF SInv

\* A goodbye stays where it is while a thread without lines stops.
LEMMA StillOnItsWay ==
  ASSUME SInv, NEW c \in Clients, thread[c] = "recv",
         \A d \in Clients \ {c} : thread'[d] = thread[d], UNCHANGED << fdOf, buf, clientVars >>,
         Open' = Open,
         \A d \in Clients : link'[d] = link[d] \/ (link[d] = "open" /\ link'[d] = "closed"),
         \A d \in Clients : Has(up[d]) => Has(up'[d])
  PROVE  GoodbyeOnItsWay'
<1>1. ASSUME NEW d \in Clients PROVE InBuffer(d) => InBuffer(d)'
  <2>1. ASSUME NEW t \in Clients, thread[t] = "next", fdOf[t] = fdOf[d], Has(buf[t])
        PROVE  thread'[t] = "next" /\ fdOf'[t] = fdOf'[d] /\ Has(buf'[t])
    BY <2>1
  <2> QED BY <2>1 DEF InBuffer, Has
<1>2. ASSUME NEW d \in Clients, typed[d] = "DISCONNECT"
      PROVE  /\ sendLoop'[d] \notin {"top", "prompt"}
             /\ sendLoop'[d] # "write" /\ (link'[d] = "queued" \/ d \in Open')
                   => Has(up'[d]) \/ InBuffer(d)'
  BY <1>1, <1>2 DEF SInv, GoodbyeOnItsWay, clientVars
<1> QED BY <1>2 DEF GoodbyeOnItsWay, Has, clientVars

\* Nothing more comes from the client the thread waits on, its own one if that
\* has its number.
LEMMA ThreadEndsKeeps ==
  ASSUME SInv, NEW c \in Clients, ThreadEnds(c)
  PROVE  SInv'
<1> DEFINE w == waits[c]
<1>1. /\ thread[c] = "recv" /\ Returns(c, "ended") /\ UNCHANGED << up, buf >>
      /\ up[w] = << >> /\ main[w] = "ended"
  BY DEF ThreadEnds
<1>2. /\ UNCHANGED << fds, fdOf, srv, newcomer, clientVars >>
      /\ thread' = [thread EXCEPT ![c] = "ended"] /\ Open' = Open
      /\ \A d \in Clients : link'[d] = link[d] \/ (link[d] = "open" /\ link'[d] = "closed")
      /\ up' \in [Clients -> Seq(Lines)] /\ buf' \in [Clients -> Seq(Lines)] => Typed'
      /\ FailuresMeanClosed' /\ Lives' /\ Numbering'
      /\ (\A t \in Clients : thread'[t] # "next" => buf'[t] = << >>) => Waiting'
  BY <1>1, RecvReturns
<1>3. thread'[c] = "ended" /\ \A d \in Clients \ {c} : thread'[d] = thread[d]
  BY <1>2 DEF SInv, Typed
<1>4. Typed' /\ Waiting'
  <2>1. \A t \in Clients : thread'[t] # "next" => buf[t] = << >>
    BY <1>1, <1>3 DEF SInv, Waiting
  <2>2. up' \in [Clients -> Seq(Lines)] /\ buf' \in [Clients -> Seq(Lines)]
    BY <1>1 DEF SInv, Typed
  <2> QED BY <1>1, <1>2, <2>1, <2>2
<1>5. c \in Open => w = c
  BY <1>1 DEF SInv, Waiting
<1>6. Served'
  <2>1. ASSUME NEW d \in Open
        PROVE  \/ thread'[d] \in {"next", "recv", "overflowed"}
               \/ srv' = "starting" /\ newcomer' = d
               \/ thread'[d] = "ended" /\ main'[d] = "ended" /\ up'[d] = << >>
    <3>1. d \in Clients
      BY OpenMeansNumbered
    <3>2. CASE d = c
      BY <1>1, <1>2, <1>3, <1>5, <3>2 DEF clientVars
    <3>3. CASE d # c
      BY <1>1, <1>2, <1>3, <3>1, <3>3 DEF SInv, Served, clientVars
    <3> QED BY <3>2, <3>3
  <2> QED BY <1>2, <2>1 DEF Served
<1>7. GoodbyeOnItsWay'
  BY <1>1, <1>2, <1>3, StillOnItsWay
<1> QED BY <1>2, <1>4, <1>6, <1>7 DEF SInv

\* A line that does not fit is no goodbye.
LEMMA ThreadOverflowsKeeps ==
  ASSUME SInv, NEW c \in Clients, ThreadOverflows(c)
  PROVE  SInv'
<1> DEFINE w == waits[c]
<1>1. /\ thread[c] = "recv" /\ Returns(c, "overflowed") /\ UNCHANGED buf
      /\ up[w] # << >> /\ Head(up[w]) = "TOO_LONG"
      /\ up' = [up EXCEPT ![w] = Tail(up[w])] \/ UNCHANGED up
  BY DEF ThreadOverflows
<1>2. /\ UNCHANGED << fds, fdOf, srv, newcomer, clientVars >>
      /\ thread' = [thread EXCEPT ![c] = "overflowed"] /\ Open' = Open /\ w \in Clients
      /\ \A d \in Clients : link'[d] = link[d] \/ (link[d] = "open" /\ link'[d] = "closed")
      /\ up' \in [Clients -> Seq(Lines)] /\ buf' \in [Clients -> Seq(Lines)] => Typed'
      /\ FailuresMeanClosed' /\ Lives' /\ Numbering'
      /\ (\A t \in Clients : thread'[t] # "next" => buf'[t] = << >>) => Waiting'
  BY <1>1, RecvReturns
<1>3. thread'[c] = "overflowed" /\ \A d \in Clients \ {c} : thread'[d] = thread[d]
  BY <1>2 DEF SInv, Typed
<1>4. /\ Tail(up[w]) \in Seq(Lines)
      /\ Has(up[w]) => Has(Tail(up[w]))
      /\ up \in [Clients -> Seq(Lines)]
  BY <1>1, <1>2, OneLineLess DEF SInv, Typed
<1>5. /\ up' \in [Clients -> Seq(Lines)]
      /\ \A d \in Clients : Has(up[d]) => Has(up'[d])
      /\ \A d \in Clients : up[d] = << >> => up'[d] = << >>
  <2>1. CASE UNCHANGED up
    BY <1>4, <2>1
  <2>2. CASE up' = [up EXCEPT ![w] = Tail(up[w])]
    <3>1. /\ up' \in [Clients -> Seq(Lines)] /\ up'[w] = Tail(up[w])
          /\ \A d \in Clients \ {w} : up'[d] = up[d]
      <4>1. PICK rest : rest = Tail(up[w])
        OBVIOUS
      <4>2. rest \in Seq(Lines)
        BY <1>4, <4>1
      <4>3. up' = [up EXCEPT ![w] = rest]
        BY <2>2, <4>1
      <4> QED BY <1>2, <1>4, <4>1, <4>2, <4>3
    <3>2. ASSUME NEW d \in Clients
          PROVE  (Has(up[d]) => Has(up'[d])) /\ (up[d] = << >> => up'[d] = << >>)
      BY <1>1, <1>4, <3>1
    <3> QED BY <3>1, <3>2
  <2> QED BY <1>1, <2>1, <2>2
<1>6. Typed' /\ Waiting'
  <2>1. \A t \in Clients : thread'[t] # "next" => buf[t] = << >>
    BY <1>1, <1>3 DEF SInv, Waiting
  <2>2. buf' \in [Clients -> Seq(Lines)]
    BY <1>1 DEF SInv, Typed
  <2> QED BY <1>1, <1>2, <1>5, <2>1, <2>2
<1>7. Served'
  BY <1>1, <1>2, <1>5, StillServed DEF clientVars
<1>8. GoodbyeOnItsWay'
  BY <1>1, <1>2, <1>3, <1>5, StillOnItsWay
<1> QED BY <1>2, <1>6, <1>7, <1>8 DEF SInv

-----------------------------------------------------------------------------
\* The clients.

\* A connection waits to be accepted.
LEMMA ConnectKeeps ==
  ASSUME SInv, NEW c \in Clients, Connect(c)
  PROVE  SInv'
<1>1. /\ main[c] = "off" /\ UNCHANGED << up, down, reset, serverVars, typed >>
      /\ \/ /\ main' = [main EXCEPT ![c] = "ended"]
            /\ outcome' = [outcome EXCEPT ![c] = "unreachable"]
            /\ UNCHANGED << link, recvLoop, sendLoop >>
         \/ /\ main' = [main EXCEPT ![c] = "running"] /\ UNCHANGED outcome
            /\ link' = [link EXCEPT ![c] = "queued"]
            /\ recvLoop' = [recvLoop EXCEPT ![c] = "reading"]
            /\ sendLoop' = [sendLoop EXCEPT ![c] = "top"]
  BY DEF Connect
<1>2. link[c] = "none" /\ typed[c] = "none" /\ thread[c] = "none" /\ fdOf[c] = 0
  BY <1>1 DEF SInv, Lives, Numbering
<1>3. UNCHANGED << fds, thread, fdOf, waits, buf, srv, newcomer >> /\ Open' = Open
  BY <1>1 DEF serverVars, threadVars, mainVars, Open
<1>4. c \notin Open
  BY <1>2, OpenMeansNumbered
<1>5. Typed'
  <2>1. CASE /\ main' = [main EXCEPT ![c] = "ended"]
             /\ outcome' = [outcome EXCEPT ![c] = "unreachable"]
             /\ UNCHANGED << link, recvLoop, sendLoop >>
    BY <1>1, <1>3, <2>1 DEF SInv, Typed
  <2>2. CASE /\ main' = [main EXCEPT ![c] = "running"] /\ UNCHANGED outcome
             /\ link' = [link EXCEPT ![c] = "queued"]
             /\ recvLoop' = [recvLoop EXCEPT ![c] = "reading"]
             /\ sendLoop' = [sendLoop EXCEPT ![c] = "top"]
    BY <1>1, <1>3, <2>2 DEF SInv, Typed
  <2> QED BY <1>1, <2>1, <2>2
<1>6. FailuresMeanClosed'
  BY <1>1, <1>2 DEF SInv, Typed, FailuresMeanClosed
<1>7. Lives'
  BY <1>1, <1>2 DEF SInv, Typed, Lives
<1>8. /\ \A d \in Clients \ {c} : link'[d] = link[d] /\ main'[d] = main[d] /\ sendLoop'[d] = sendLoop[d]
      /\ link'[c] \in {"none", "queued"}
  BY <1>1, <1>2 DEF SInv, Typed
<1>9. Numbering'
  <2>1. ASSUME NEW n \in Numbers, fds[n] # "none"
        PROVE  fdOf[fds[n]] = n /\ link'[fds[n]] = "open"
    <3>1. fds[n] \in Clients /\ fdOf[fds[n]] = n /\ link[fds[n]] = "open"
      BY <2>1 DEF SInv, Typed, Numbering
    <3>2. fds[n] # c
      BY <1>2, <3>1
    <3> QED BY <1>8, <3>1, <3>2
  <2>2. \A d \in Clients : link'[d] \in {"none", "queued"} => thread[d] = "none" /\ fdOf[d] = 0
    BY <1>2, <1>8 DEF SInv, Numbering
  <2> QED BY <1>3, <2>1, <2>2 DEF SInv, Numbering
<1>10. Waiting'
  <2>1. \A t \in Clients : waits[t] # "none" => link'[waits[t]] = "open"
    <3>1. ASSUME NEW t \in Clients, waits[t] # "none" PROVE link'[waits[t]] = "open"
      <4>1. waits[t] \in Clients /\ link[waits[t]] = "open"
        BY <3>1 DEF SInv, Typed, Waiting
      <4>2. waits[t] # c
        BY <1>2, <4>1
      <4> QED BY <1>8, <4>1, <4>2
    <3> QED BY <3>1
  <2> QED BY <1>3, <2>1 DEF SInv, Waiting
<1>11. Served'
  <2>1. \A d \in Open : main'[d] = main[d]
    BY <1>4, <1>8, OpenMeansNumbered
  <2> QED BY <1>1, <1>3, <2>1 DEF SInv, Served
<1>12. GoodbyeOnItsWay'
  <2>1. ASSUME NEW d \in Clients PROVE InBuffer(d) => InBuffer(d)'
    BY <1>3 DEF InBuffer, Has
  <2>2. ASSUME NEW d \in Clients, typed'[d] = "DISCONNECT"
        PROVE  /\ sendLoop'[d] \notin {"top", "prompt"}
               /\ sendLoop'[d] # "write" /\ (link'[d] = "queued" \/ d \in Open')
                     => Has(up'[d]) \/ InBuffer(d)'
    <3>1. d # c /\ typed[d] = "DISCONNECT"
      BY <1>1, <1>2, <2>2
    <3> QED BY <1>1, <1>3, <1>8, <2>1, <3>1 DEF SInv, GoodbyeOnItsWay
  <2> QED BY <2>2 DEF GoodbyeOnItsWay, Has
<1> QED BY <1>5, <1>6, <1>7, <1>9, <1>10, <1>11, <1>12 DEF SInv

\* Steps that touch nothing the invariant speaks about.
LEMMA QuietStepsKeep ==
  ASSUME SInv, NEW c \in Clients, CtrlC(c) \/ Display(c)
  PROVE  SInv'
<1>1. UNCHANGED << link, up, reset, threadVars, srv, newcomer, main, recvLoop, sendLoop, typed, outcome >>
  BY DEF CtrlC, Display, OnlyClient, SameMain, SameSending, linkVars, serverVars, mainVars, clientVars
<1> QED BY <1>1, Bystanders DEF SInv, threadVars

\* The receive loop fails only on a reset.
LEMMA ReceivingEndsKeeps ==
  ASSUME SInv, NEW c \in Clients, ServerClosed(c) \/ ReadFails(c) \/ ReadCancelled(c)
  PROVE  SInv'
<1>1. /\ \/ recvLoop' = [recvLoop EXCEPT ![c] = "done"]
         \/ recvLoop' = [recvLoop EXCEPT ![c] = "failed"] /\ reset[c]
      /\ UNCHANGED << linkVars, threadVars, srv, newcomer, main, outcome, sendLoop, typed >>
  BY DEF ServerClosed, ReadFails, ReadCancelled, EndsReceiving, SameMain, SameSending, OnlyClient,
         serverVars, mainVars
<1>2. Typed'
  BY <1>1 DEF SInv, Typed, linkVars, threadVars
<1>3. FailuresMeanClosed'
  BY <1>1 DEF SInv, Typed, FailuresMeanClosed, linkVars
<1> QED BY <1>1, <1>2, <1>3, Bystanders DEF SInv, linkVars, threadVars

\* A send loop that goes on with the line it has, sending nothing.
LEMMA LoopTopKeeps ==
  ASSUME SInv, NEW c \in Clients, LoopTop(c)
  PROVE  SInv'
<1>1. /\ sendLoop[c] = "top"
      /\ \E q \in {"prompt", "done"} : sendLoop' = [sendLoop EXCEPT ![c] = q]
      /\ UNCHANGED << linkVars, threadVars, srv, newcomer, main, outcome, recvLoop, typed >>
  BY DEF LoopTop, SendGoes, SameMain, OnlyClient, serverVars, mainVars
<1>2. Typed'
  BY <1>1 DEF SInv, Typed, linkVars, threadVars
<1>3. FailuresMeanClosed'
  BY <1>1 DEF SInv, Typed, FailuresMeanClosed, linkVars
<1>4. Lives'
  BY <1>1 DEF SInv, Typed, Lives, linkVars
<1>5. typed[c] # "DISCONNECT" /\ \A d \in Clients \ {c} : sendLoop'[d] = sendLoop[d]
  BY <1>1 DEF SInv, Typed, GoodbyeOnItsWay
<1>6. GoodbyeOnItsWay'
  BY <1>1, <1>5 DEF SInv, GoodbyeOnItsWay, InBuffer, Has, Open, linkVars, threadVars
<1> QED BY <1>1, <1>2, <1>3, <1>4, <1>6, Bystanders DEF SInv, linkVars, threadVars

\* Only a client that still runs types a line.
LEMMA AnswerKeeps ==
  ASSUME SInv, NEW c \in Clients, Answer(c)
  PROVE  SInv'
<1>1. /\ sendLoop[c] = "prompt"
      /\ UNCHANGED << linkVars, threadVars, srv, newcomer, main, outcome, recvLoop >>
      /\ \/ sendLoop' = [sendLoop EXCEPT ![c] = "top"] /\ typed' = typed
         \/ \E q \in Types[c] : /\ typed' = [typed EXCEPT ![c] = q]
                                /\ sendLoop' = [sendLoop EXCEPT ![c] = "write"]
  BY DEF Answer, SendGoes, SameMain, OnlyClient, serverVars, mainVars
<1>2. Types[c] \subseteq Lines
  BY SessionAssumption
<1>3. /\ typed[c] # "DISCONNECT" /\ main[c] = "running"
      /\ \A d \in Clients \ {c} : typed'[d] = typed[d] /\ sendLoop'[d] = sendLoop[d]
      /\ sendLoop'[c] \in {"top", "write"}
      /\ typed'[c] = typed[c] \/ (typed'[c] \in Lines /\ sendLoop'[c] = "write")
  <2>1. typed[c] # "DISCONNECT"
    BY <1>1 DEF SInv, GoodbyeOnItsWay
  <2>2. main[c] = "running"
    BY <1>1 DEF SInv, Lives
  <2> QED BY <1>1, <1>2, <2>1, <2>2 DEF SInv, Typed
<1>4. Typed'
  <2>1. CASE sendLoop' = [sendLoop EXCEPT ![c] = "top"] /\ typed' = typed
    BY <1>1, <2>1 DEF SInv, Typed, linkVars, threadVars
  <2>2. ASSUME NEW q \in Types[c], typed' = [typed EXCEPT ![c] = q],
               sendLoop' = [sendLoop EXCEPT ![c] = "write"]
        PROVE  Typed'
    <3>1. q \in Lines
      BY <1>2
    <3> QED BY <1>1, <2>2, <3>1 DEF SInv, Typed, linkVars, threadVars
  <2> QED BY <1>1, <2>1, <2>2
<1>5. FailuresMeanClosed'
  BY <1>1 DEF SInv, Typed, FailuresMeanClosed, linkVars
<1>6. Lives'
  <2>1. ASSUME NEW d \in Clients
        PROVE  /\ main'[d] = "off" => link'[d] = "none" /\ typed'[d] = "none"
               /\ main'[d] # "running" => sendLoop'[d] = "off"
               /\ sendLoop'[d] = "write" => typed'[d] \in Lines
    <3>1. CASE d = c
      <4>1. sendLoop'[c] = "write" => typed'[c] \in Lines
        BY <1>1, <1>2 DEF SInv, Typed
      <4> QED BY <1>1, <1>3, <3>1, <4>1
    <3>2. CASE d # c
      BY <1>1, <1>3, <3>2 DEF SInv, Lives, linkVars
    <3> QED BY <3>1, <3>2
  <2> QED BY <2>1 DEF Lives
<1>7. GoodbyeOnItsWay'
  <2>1. Open' = Open
    BY <1>1 DEF Open, threadVars
  <2>2. ASSUME NEW d \in Clients PROVE InBuffer(d) => InBuffer(d)'
    BY <1>1 DEF InBuffer, Has, threadVars
  <2>3. ASSUME NEW d \in Clients, typed'[d] = "DISCONNECT"
        PROVE  /\ sendLoop'[d] \notin {"top", "prompt"}
               /\ sendLoop'[d] # "write" /\ (link'[d] = "queued" \/ d \in Open')
                     => Has(up'[d]) \/ InBuffer(d)'
    <3>1. CASE d = c
      BY <1>3, <2>3, <3>1
    <3>2. CASE d # c
      BY <1>1, <1>3, <2>1, <2>2, <2>3, <3>2 DEF SInv, GoodbyeOnItsWay, linkVars
    <3> QED BY <3>1, <3>2
  <2> QED BY <2>3 DEF GoodbyeOnItsWay, Has
<1> QED BY <1>1, <1>4, <1>5, <1>6, <1>7, Bystanders DEF SInv, linkVars, threadVars

\* A DISCONNECT that is written is in the connection.
LEMMA WrittenKeeps ==
  ASSUME SInv, NEW c \in Clients, Written(c)
  PROVE  SInv'
<1>1. /\ sendLoop[c] = "write"
      /\ sendLoop' = [sendLoop EXCEPT ![c] = IF typed[c] = "DISCONNECT" THEN "done" ELSE "top"]
      /\ typed' = [typed EXCEPT ![c] = IF typed[c] = "DISCONNECT" THEN typed[c] ELSE "none"]
      /\ UNCHANGED << link, threadVars, srv, newcomer, main, outcome, recvLoop >>
  <2>1. CASE typed[c] = "DISCONNECT"
    BY <2>1 DEF Written, Write, WriteUnheard, SendGoes, Cancel, SameMain, serverVars, mainVars,
                SInv, Typed
  <2>2. CASE typed[c] # "DISCONNECT"
    BY <2>2 DEF Written, Write, WriteUnheard, SendGoes, SameMain, serverVars, mainVars
  <2> QED BY <2>1, <2>2
<1>2. \/ up' = [up EXCEPT ![c] = Append(up[c], typed[c])] /\ reset' = reset
      \/ up' = up /\ link[c] = "closed" /\ reset' = [reset EXCEPT ![c] = TRUE]
  BY DEF Written, Write, WriteUnheard
<1>3. up[c] \in Seq(Lines) /\ typed[c] \in Lines /\ main[c] = "running"
  BY <1>1 DEF SInv, Typed, Lives
<1>4. /\ Append(up[c], typed[c]) \in Seq(Lines) /\ Append(up[c], typed[c]) # << >>
      /\ Has(up[c]) => Has(Append(up[c], typed[c]))
      /\ typed[c] = "DISCONNECT" => Has(Append(up[c], typed[c]))
  BY <1>3, OneMoreLine
<1>5. /\ up' \in [Clients -> Seq(Lines)] /\ reset' \in [Clients -> BOOLEAN]
      /\ \A d \in Clients \ {c} : up'[d] = up[d]
      /\ \A d \in Clients : Has(up[d]) => Has(up'[d])
      /\ typed[c] = "DISCONNECT" => Has(up'[c]) \/ link[c] = "closed"
  <2>1. CASE up' = up /\ link[c] = "closed" /\ reset' = [reset EXCEPT ![c] = TRUE]
    BY <2>1 DEF SInv, Typed, Has
  <2>2. CASE up' = [up EXCEPT ![c] = Append(up[c], typed[c])] /\ reset' = reset
    <3>1. /\ up' \in [Clients -> Seq(Lines)] /\ up'[c] = Append(up[c], typed[c])
          /\ \A d \in Clients \ {c} : up'[d] = up[d]
      <4>1. PICK s : s = Append(up[c], typed[c])
        OBVIOUS
      <4>2. s \in Seq(Lines)
        BY <1>4, <4>1
      <4>3. up' = [up EXCEPT ![c] = s]
        BY <2>2, <4>1
      <4> QED BY <4>1, <4>2, <4>3 DEF SInv, Typed
    <3>2. ASSUME NEW d \in Clients, Has(up[d]) PROVE Has(up'[d])
      <4>1. CASE d = c
        BY <1>4, <3>1, <3>2, <4>1
      <4>2. CASE d # c
        BY <3>1, <3>2, <4>2
      <4> QED BY <4>1, <4>2
    <3> QED BY <1>4, <2>2, <3>1, <3>2 DEF SInv, Typed
  <2> QED BY <1>2, <2>1, <2>2
<1>6. /\ sendLoop' \in [Clients -> {"off", "top", "prompt", "write", "done", "failed"}]
      /\ typed' \in [Clients -> {"none"} \cup Lines]
      /\ \A d \in Clients \ {c} : typed'[d] = typed[d] /\ sendLoop'[d] = sendLoop[d]
      /\ sendLoop'[c] = IF typed[c] = "DISCONNECT" THEN "done" ELSE "top"
      /\ typed'[c] = IF typed[c] = "DISCONNECT" THEN typed[c] ELSE "none"
  BY <1>1 DEF SInv, Typed
<1>7. Typed'
  BY <1>1, <1>5, <1>6 DEF SInv, Typed, threadVars
<1>8. FailuresMeanClosed'
  BY <1>1, <1>2, <1>6 DEF SInv, Typed, FailuresMeanClosed
<1>9. Lives'
  <2>1. ASSUME NEW d \in Clients
        PROVE  /\ main'[d] = "off" => link'[d] = "none" /\ typed'[d] = "none"
               /\ main'[d] # "running" => sendLoop'[d] = "off"
               /\ sendLoop'[d] = "write" => typed'[d] \in Lines
    <3>1. CASE d = c
      BY <1>1, <1>3, <1>6, <3>1
    <3>2. CASE d # c
      BY <1>1, <1>6, <3>2 DEF SInv, Lives
    <3> QED BY <3>1, <3>2
  <2> QED BY <2>1 DEF Lives
<1>10. Open' = Open
  BY <1>1 DEF Open, threadVars
<1>11. Served'
  <2>1. \A d \in Open : main[d] = "ended" => d # c
    BY <1>3
  <2>2. \A d \in Open : main[d] = "ended" => up'[d] = up[d]
    BY <1>5, <2>1, OpenMeansNumbered
  <2> QED BY <1>1, <1>10, <2>2 DEF SInv, Served, threadVars
<1>12. GoodbyeOnItsWay'
  <2>1. ASSUME NEW d \in Clients PROVE InBuffer(d) => InBuffer(d)'
    BY <1>1 DEF InBuffer, Has, threadVars
  <2>2. ASSUME NEW d \in Clients, typed'[d] = "DISCONNECT"
        PROVE  /\ sendLoop'[d] \notin {"top", "prompt"}
               /\ sendLoop'[d] # "write" /\ (link'[d] = "queued" \/ d \in Open')
                     => Has(up'[d]) \/ InBuffer(d)'
    <3>1. CASE d = c
      <4>1. typed[c] = "DISCONNECT"
        BY <1>6, <2>2, <3>1
      <4>2. c \in Open => link[c] # "closed"
        BY OpenMeansNumbered
      <4> QED BY <1>1, <1>5, <1>6, <1>10, <3>1, <4>1, <4>2
    <3>2. CASE d # c
      <4>1. typed[d] = "DISCONNECT" /\ sendLoop'[d] = sendLoop[d] /\ link' = link
        BY <1>1, <1>6, <2>2, <3>2
      <4>2. /\ sendLoop[d] \notin {"top", "prompt"}
            /\ sendLoop[d] # "write" /\ (link[d] = "queued" \/ d \in Open)
                  => Has(up[d]) \/ InBuffer(d)
        BY <4>1 DEF SInv, GoodbyeOnItsWay
      <4> QED BY <1>5, <1>10, <2>1, <4>1, <4>2
    <3> QED BY <3>1, <3>2
  <2> QED BY <2>2 DEF GoodbyeOnItsWay, Has
<1> QED BY <1>1, <1>7, <1>8, <1>9, <1>11, <1>12, Bystanders DEF SInv, threadVars

\* Writing fails only on a connection that was reset.
LEMMA WriteFailsKeeps ==
  ASSUME SInv, NEW c \in Clients, WriteFails(c)
  PROVE  SInv'
<1>1. /\ sendLoop[c] = "write" /\ reset[c] /\ sendLoop' = [sendLoop EXCEPT ![c] = "failed"]
      /\ UNCHANGED << linkVars, threadVars, srv, newcomer, main, outcome, recvLoop, typed >>
  BY DEF WriteFails, SendGoes, SameMain, OnlyClient, serverVars, mainVars
<1>2. Typed'
  BY <1>1 DEF SInv, Typed, linkVars, threadVars
<1>3. FailuresMeanClosed'
  BY <1>1 DEF SInv, Typed, FailuresMeanClosed, linkVars
<1>4. Lives'
  BY <1>1 DEF SInv, Typed, Lives, linkVars
<1>5. link[c] = "closed" /\ c \notin Open
  BY <1>1, OpenMeansNumbered DEF SInv, FailuresMeanClosed
<1>6. /\ \A d \in Clients \ {c} : sendLoop'[d] = sendLoop[d]
      /\ sendLoop'[c] = "failed"
  BY <1>1 DEF SInv, Typed
<1>7. GoodbyeOnItsWay'
  BY <1>1, <1>5, <1>6 DEF SInv, GoodbyeOnItsWay, InBuffer, Has, Open, linkVars, threadVars
<1> QED BY <1>1, <1>2, <1>3, <1>4, <1>7, Bystanders DEF SInv, linkVars, threadVars

\* A client ends after its send loop, and crashes only if a loop failed.
LEMMA EndsKeeps ==
  ASSUME SInv, NEW c \in Clients, Goodbye(c) \/ Crash(c)
  PROVE  SInv'
<1>1. /\ main[c] = "running" /\ main' = [main EXCEPT ![c] = "ended"]
      /\ sendLoop[c] \in {"done", "failed"}
      /\ sendLoop' = [sendLoop EXCEPT ![c] = "off"] /\ recvLoop' = [recvLoop EXCEPT ![c] = "off"]
      /\ UNCHANGED << link, up, reset, threadVars, srv, newcomer, typed >>
  BY DEF Goodbye, Crash, Ends, serverVars, mainVars
<1>2. \/ outcome' = [outcome EXCEPT ![c] = "goodbye"]
      \/ /\ outcome' = [outcome EXCEPT ![c] = "crash"]
         /\ recvLoop[c] = "failed" \/ sendLoop[c] = "failed"
  BY DEF Goodbye, Crash, Ends
<1>3. Typed'
  BY <1>1, <1>2 DEF SInv, Typed, threadVars
<1>4. FailuresMeanClosed'
  BY <1>1, <1>2 DEF SInv, Typed, FailuresMeanClosed
<1>5. /\ \A d \in Clients \ {c} : sendLoop'[d] = sendLoop[d] /\ main'[d] = main[d]
      /\ sendLoop'[c] = "off" /\ main'[c] = "ended"
  BY <1>1 DEF SInv, Typed
<1>6. Lives'
  BY <1>1, <1>5 DEF SInv, Lives
<1>7. Open' = Open
  BY <1>1 DEF Open, threadVars
<1>8. Served'
  BY <1>1, <1>5, <1>7, OpenMeansNumbered DEF SInv, Served, threadVars
<1>9. GoodbyeOnItsWay'
  BY <1>1, <1>5, <1>7 DEF SInv, GoodbyeOnItsWay, InBuffer, Has, threadVars
<1> QED BY <1>1, <1>3, <1>4, <1>6, <1>8, <1>9, Bystanders DEF SInv, threadVars

-----------------------------------------------------------------------------
\* The invariant holds when the server starts, ...
LEMMA InitSession == Init => SInv
<1> SUFFICES ASSUME Init PROVE SInv
  OBVIOUS
<1>1. Typed
  BY EmptySeq DEF Init, All, Typed
<1>2. Open = {}
  BY DEF Init, Open
<1>3. FailuresMeanClosed /\ Lives /\ GoodbyeOnItsWay
  BY DEF Init, All, FailuresMeanClosed, Lives, GoodbyeOnItsWay
<1>4. Numbering /\ Waiting /\ Served
  BY <1>2 DEF Init, All, Numbering, Waiting, Served
<1> QED BY <1>1, <1>3, <1>4 DEF SInv

\* ... and every step keeps it.
LEMMA SessionStepKeeps == SInv /\ [Next]_vars => SInv'
<1> SUFFICES ASSUME SInv, [Next]_vars PROVE SInv'
  OBVIOUS
<1>1. CASE MainStep
  <2>1. CASE AcceptFailed
    <3>1. CASE Exit
      BY <3>1, ExitKeeps
    <3>2. CASE ~Exit
      <4>1. /\ srv = "failed" /\ srv' = "loop"
            /\ UNCHANGED << linkVars, threadVars, newcomer, clientVars >>
        BY <2>1, <3>2 DEF AcceptFailed, OnlyMain
      <4>2. Numbering'
        BY <4>1 DEF SInv, Numbering, linkVars, threadVars
      <4>3. Served'
        BY <4>1 DEF SInv, Served, Open, linkVars, threadVars, clientVars
      <4> QED BY <4>1, <4>2, <4>3, Bystanders DEF SInv, linkVars, threadVars, clientVars
    <3> QED BY <3>1, <3>2
  <2> QED BY <1>1, <2>1, WaitingKeeps, AcceptReturnsKeeps, ThreadStartsKeeps, ThreadFailsKeeps
          DEF MainStep
<1>2. CASE Sigint
  BY <1>2, WaitingKeeps
<1>3. ASSUME NEW c \in Clients, ThreadStep(c) PROVE SInv'
  BY <1>3, ThreadCallsRecvKeeps, ThreadReceivesKeeps, ThreadEndsKeeps, ThreadOverflowsKeeps,
     ThreadAnswersKeeps, ThreadClosesKeeps DEF ThreadStep
<1>4. ASSUME NEW c \in Clients, Client(c) PROVE SInv'
  BY <1>4, ConnectKeeps, QuietStepsKeep, ReceivingEndsKeeps, LoopTopKeeps, AnswerKeeps,
     WrittenKeeps, WriteFailsKeeps, EndsKeeps DEF Client, ReceiveStep, SendStep
<1>5. CASE UNCHANGED vars
  BY <1>5, Bystanders DEF SInv, vars, linkVars, serverVars, threadVars, mainVars, clientVars
<1> QED BY <1>1, <1>2, <1>3, <1>4, <1>5 DEF Next

(* What holds of each client's two loops, of the server's threads and of the
   descriptors, together, in every state of Controller.cs and main.c.       *)
THEOREM SessionInvariance == Spec => []SInv
  BY InitSession, SessionStepKeeps, PTL DEF Spec

(* No client is thrown out by an exception while the server holds its
   connection, for any number of clients, whatever the order of the closing, the
   cancellations and the writes: both loops fail on nothing but a reset.    *)
THEOREM CrashesMeanClosed == Spec => []CrashMeansClosed
<1>1. SInv => CrashMeansClosed
  BY DEF SInv, FailuresMeanClosed, CrashMeansClosed
<1> QED BY <1>1, SessionInvariance, PTL

(* Every number the server holds is served, just accepted, or left behind: by a
   client that ended without DISCONNECT, or by a line that overflowed the buffer
   of its thread.  For any number of clients and descriptors, with numbers handed
   out again while threads still use them, lines that wait in a buffer when a
   number is closed, threads that fail to start and signals at any time.    *)
THEOREM DescriptorsAreAccountedFor == Spec => []DescriptorsAccountedFor
<1>1. ASSUME SInv, NEW n \in Numbers, fds[n] # "none"
      PROVE  \/ \E t \in Clients : thread[t] \in {"next", "recv"} /\ fdOf[t] = n
             \/ srv = "starting" /\ newcomer = fds[n]
             \/ thread[fds[n]] = "overflowed"
             \/ /\ thread[fds[n]] = "ended" /\ main[fds[n]] = "ended"
                /\ typed[fds[n]] # "DISCONNECT"
  <2> DEFINE c == fds[n]
  <2>1. c \in Clients /\ c \in Open /\ fdOf[c] = n
    BY <1>1 DEF SInv, Typed, Numbering, Open
  <2>2. ASSUME thread[c] = "ended", main[c] = "ended", up[c] = << >>, typed[c] = "DISCONNECT"
        PROVE  \E t \in Clients : thread[t] \in {"next", "recv"} /\ fdOf[t] = n
    <3>1. sendLoop[c] # "write"
      BY <1>1, <2>1, <2>2 DEF SInv, Lives
    <3>2. InBuffer(c)
      BY <1>1, <2>1, <2>2, <3>1, NothingInAnEmptyBuffer DEF SInv, GoodbyeOnItsWay
    <3> QED BY <2>1, <3>2 DEF InBuffer
  <2> QED BY <1>1, <2>1, <2>2 DEF SInv, Served
<1>2. SInv => DescriptorsAccountedFor
  BY <1>1 DEF DescriptorsAccountedFor
<1> QED BY <1>2, SessionInvariance, PTL
=============================================================================
