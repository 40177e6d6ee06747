------------------------------ MODULE TableHeap ------------------------------
(***************************************************************************)
(* users_table.c as its threads execute it: users in cells of the heap, two  *)
(* hash tables of pointers to them, a mutex around every operation, and one  *)
(* step per access to any of these.  The visitor of users_table_for_each is  *)
(* the one the handlers use, send_if_is_not_self: it sends, and blocks while  *)
(* the addressee's socket is full, with the mutex held.                      *)
(***************************************************************************)
EXTENDS Naturals, FiniteSets, Sequences, Functions, UsersTable

CONSTANTS
  Threads,
  Names,
  Refused,    \* the names user_init refuses: empty, or more than 8 bytes
  Fds,        \* descriptors: integers, as keys of table_by_fd
  Statuses,
  Cells,      \* cells of the heap, as large as a User
  Menu,       \* Menu[t][i]: what t may do as its i-th call
  Parts,      \* in how many pieces the kernel may take a line over
  Capacity,   \* how many pieces wait in a socket until the peer reads
  Reading,    \* descriptors whose peer reads what it is sent
  None

Users == [name : Names, fd : Fds, status : Statuses]

\* The calls of users_table.h, and a server_send outside the table.
Lookups(op) == [op : {op}, by : {"username"}, key : Names] \cup [op : {op}, by : {"client_fd"}, key : Fds]
TableCalls ==
  [op : {"add"}, name : Names, fd : Fds, status : Statuses]
    \cup Lookups("contains") \cup Lookups("find")
    \cup [op : {"change_status"}, by : {"username"}, key : Names, status : Statuses]
    \cup [op : {"change_status"}, by : {"client_fd"}, key : Fds, status : Statuses]
    \cup [op : {"remove"}, by : {"username"}, key : Names]
    \cup [op : {"iterate"}] \cup [op : {"for_each"}, skip : Fds]
SendCalls == [op : {"send"}, fd : Fds]

ASSUME HeapAssumption ==
  /\ Menu \in [Threads -> Seq(SUBSET (TableCalls \cup SendCalls))]
  /\ Parts \in Nat \ {0} /\ Capacity \in Nat \ {0}
  /\ Refused \subseteq Names /\ Reading \subseteq Fds
  /\ None \notin Threads \cup Cells \cup Users \cup TableCalls \cup SendCalls

VARIABLES
  table,    \* table->table: names to cells
  index,    \* table->table_by_fd: descriptors to cells
  heap,     \* the user in a cell, None in a free one
  holder,   \* the thread that has locked table->mutex, or None
  made,     \* how many calls of its Menu a thread has made
  call,     \* the call a thread is in
  pc,       \* where in it
  loc,      \* its local variables
  socket,   \* the pieces of lines in a socket, oldest first
  heard     \* the pieces its peer has read

heapVars == << table, index, heap >>
lineVars == << socket, heard >>
vars == << heapVars, holder, made, call, pc, loc, lineVars >>

\* The pointer a call works with, what it returns, the names an iteration has
\* passed, the descriptor server_send was given, and how much of the line has
\* been handed to the kernel.
Locals(ptr, out, passed, fd, part) ==
  [ptr |-> ptr, out |-> out, passed |-> passed, fd |-> fd, part |-> part]
Fresh == Locals(None, None, {}, None, 0)

Init ==
  /\ table = << >> /\ index = << >>
  /\ heap = [a \in Cells |-> None]
  /\ holder = None
  /\ made = [t \in Threads |-> 0]
  /\ call = [t \in Threads |-> None]
  /\ pc = [t \in Threads |-> "idle"]
  /\ loc = [t \in Threads |-> Fresh]
  /\ socket = [f \in Fds |-> << >>] /\ heard = [f \in Fds |-> << >>]

-----------------------------------------------------------------------------
At(t, op, place) == pc[t] = place /\ call[t].op = op
Goto(t, place) == pc' = [pc EXCEPT ![t] = place]
Returning(t, place, out) == Goto(t, place) /\ loc' = [loc EXCEPT ![t].out = out]
Home(t) ==
  /\ Goto(t, "idle")
  /\ call' = [call EXCEPT ![t] = None] /\ loc' = [loc EXCEPT ![t] = Fresh]

Put(m, key, cell) == [k \in DOMAIN m \cup {key} |-> IF k = key THEN cell ELSE m[k]]
Drop(m, key) == [k \in DOMAIN m \ {key} |-> m[k]]
Get(m, key) == IF key \in DOMAIN m THEN m[key] ELSE None

SameHeap == UNCHANGED << heapVars, lineVars >>
SameCall == UNCHANGED << made, call >>

Call(t) ==
  /\ pc[t] = "idle" /\ made[t] < Len(Menu[t])
  /\ made' = [made EXCEPT ![t] = @ + 1]
  /\ \E c \in Menu[t][made[t] + 1] :
       /\ call' = [call EXCEPT ![t] = c]
       /\ Goto(t, IF c.op = "add" THEN "malloc" ELSE IF c.op = "send" THEN "send" ELSE "lock")
  /\ UNCHANGED << holder, loc >> /\ SameHeap

\* malloc and user_init, before the mutex is locked; malloc returns NULL when
\* no cell is free.
Malloc(t) ==
  /\ pc[t] = "malloc"
  /\ \E a \in Cells :
       /\ heap[a] = None
       /\ heap' = [heap EXCEPT ![a] = [name |-> call[t].name, fd |-> call[t].fd,
                                       status |-> call[t].status]]
       /\ loc' = [loc EXCEPT ![t] = Locals(a, IF call[t].name \in Refused THEN FALSE ELSE None,
                                           {}, None, 0)]
  /\ Goto(t, IF call[t].name \in Refused THEN "free" ELSE "lock")
  /\ UNCHANGED << table, index, holder, lineVars >> /\ SameCall

NoMemory(t) ==
  /\ pc[t] = "malloc" /\ \A a \in Cells : heap[a] # None
  /\ Returning(t, "no_user", FALSE)
  /\ UNCHANGED holder /\ SameHeap /\ SameCall

\* add returns false without a user.
GiveUp(t) ==
  /\ pc[t] = "no_user"
  /\ Home(t)
  /\ UNCHANGED << holder, made >> /\ SameHeap

\* A mistake: who only visits does not wait for the mutex.
MayLockUnlessVisiting(t) == holder = None \/ call[t].op = "for_each"

MayLock(t) == holder = None

Lock(t) ==
  /\ pc[t] = "lock" /\ MayLock(t)
  /\ holder' = t
  /\ Goto(t, IF call[t].op = "add" THEN "contains"
             ELSE IF call[t].op \in {"iterate", "for_each"} THEN "pass" ELSE "look_up")
  /\ loc' = IF call[t].op \in {"iterate", "for_each"} THEN [loc EXCEPT ![t].out = {}] ELSE loc
  /\ SameHeap /\ SameCall

\* A mistake: nobody frees a refused user.
KeepsRefused(t) == FALSE

MustFree(t) == call[t].op = "add" /\ loc[t].out = FALSE

Unlock(t) ==
  /\ pc[t] = "unlock"
  /\ holder' = None
  /\ IF MustFree(t)
     THEN Goto(t, "free") /\ UNCHANGED << call, loc >>
     ELSE Home(t)
  /\ UNCHANGED made /\ SameHeap

\* A refused user is freed, after the mutex was unlocked if it was locked.
Free(t) ==
  /\ pc[t] = "free"
  /\ heap' = [heap EXCEPT ![loc[t].ptr] = None]
  /\ Home(t)
  /\ UNCHANGED << table, index, holder, made, lineVars >>

-----------------------------------------------------------------------------
\* users_table_add and users_table_add_with_status.

\* A mistake: the name is not looked up before it is inserted.
ContainsForgotten(t) ==
  /\ pc[t] = "contains"
  /\ Goto(t, "insert")
  /\ UNCHANGED << loc, holder >> /\ SameHeap /\ SameCall

Contains(t) ==
  /\ pc[t] = "contains"
  /\ IF call[t].name \in DOMAIN table THEN Returning(t, "unlock", FALSE)
     ELSE Goto(t, "insert") /\ UNCHANGED loc
  /\ UNCHANGED holder /\ SameHeap /\ SameCall

Insert(t) ==
  /\ pc[t] = "insert"
  /\ table' = Put(table, call[t].name, loc[t].ptr)
  /\ Returning(t, "insert_fd", TRUE)
  /\ UNCHANGED << index, heap, holder, lineVars >> /\ SameCall

InsertByFd(t) ==
  /\ pc[t] = "insert_fd"
  /\ index' = Put(index, call[t].fd, loc[t].ptr)
  /\ Goto(t, "unlock")
  /\ UNCHANGED << table, heap, holder, loc, lineVars >> /\ SameCall

-----------------------------------------------------------------------------
\* The calls that look one user up: contains, find, change_status, remove.

\* A mistake: a user that is not there is waited for, with the mutex held.
LookUpWaits(t) ==
  /\ pc[t] = "look_up"
  /\ LET found == Get(IF call[t].by = "username" THEN table ELSE index, call[t].key) IN
     IF found = None THEN UNCHANGED << pc, loc >>
     ELSE IF call[t].op = "contains" THEN Returning(t, "unlock", TRUE)
     ELSE Goto(t, call[t].op) /\ loc' = [loc EXCEPT ![t].ptr = found]
  /\ UNCHANGED holder /\ SameHeap /\ SameCall

LookUp(t) ==
  /\ pc[t] = "look_up"
  /\ LET found == Get(IF call[t].by = "username" THEN table ELSE index, call[t].key) IN
     IF found = None THEN Returning(t, "unlock", FALSE)
     ELSE IF call[t].op = "contains" THEN Returning(t, "unlock", TRUE)
     ELSE Goto(t, call[t].op) /\ loc' = [loc EXCEPT ![t].ptr = found]
  /\ UNCHANGED holder /\ SameHeap /\ SameCall

\* *out_user = *found
Copy(t) ==
  /\ pc[t] = "find"
  /\ Returning(t, "unlock", heap[loc[t].ptr])
  /\ UNCHANGED holder /\ SameHeap /\ SameCall

ChangeStatus(t) ==
  /\ pc[t] = "change_status"
  /\ heap' = [heap EXCEPT ![loc[t].ptr].status = call[t].status]
  /\ Returning(t, "unlock", TRUE)
  /\ UNCHANGED << table, index, holder, lineVars >> /\ SameCall

\* A mistake: the index entry stays.
RemoveByFdForgotten(t) ==
  /\ pc[t] = "remove"
  /\ Returning(t, "remove_name", TRUE)
  /\ UNCHANGED holder /\ SameHeap /\ SameCall

\* users_table_remove: out of the index first, then out of the table, which
\* frees the user.
RemoveByFd(t) ==
  /\ pc[t] = "remove"
  /\ index' = Drop(index, heap[loc[t].ptr].fd)
  /\ Returning(t, "remove_name", TRUE)
  /\ UNCHANGED << table, heap, holder, lineVars >> /\ SameCall

RemoveByName(t) ==
  /\ pc[t] = "remove_name"
  /\ heap' = [heap EXCEPT ![table[call[t].key]] = None]
  /\ table' = Drop(table, call[t].key)
  /\ Goto(t, "unlock")
  /\ UNCHANGED << index, holder, loc, lineVars >> /\ SameCall

-----------------------------------------------------------------------------
(* users_table_iter_next until there is no next, and users_table_for_each: the
   users pass in an order the hash table chooses.                           *)
Pass(t) ==
  /\ pc[t] = "pass"
  /\ \E n \in DOMAIN table \ loc[t].passed :
       /\ loc' = [loc EXCEPT ![t] = Locals(table[n], @.out \cup {heap[table[n]]},
                                           @.passed \cup {n}, heap[table[n]].fd, 0)]
       /\ Goto(t, IF call[t].op = "for_each" /\ heap[table[n]].fd # call[t].skip
                  THEN "send" ELSE "pass")
  /\ UNCHANGED holder /\ SameHeap /\ SameCall

PassedAll(t) ==
  /\ pc[t] = "pass" /\ DOMAIN table \subseteq loc[t].passed
  /\ Goto(t, "unlock")
  /\ UNCHANGED << holder, loc >> /\ SameHeap /\ SameCall

-----------------------------------------------------------------------------
(* send() on a blocking socket: the kernel takes the line over as there is
   room for it, and other threads' lines in between.                        *)
Target(t) == IF call[t].op = "send" THEN call[t].fd ELSE loc[t].fd
Line(t) == [by |-> t, no |-> made[t], op |-> call[t].op]

Send(t) ==
  /\ pc[t] = "send"
  /\ Len(socket[Target(t)]) < Capacity
  /\ LET sentNow == loc[t].part + 1 IN
     /\ socket' = [socket EXCEPT ![Target(t)] =
                     Append(@, [line |-> Line(t), part |-> sentNow])]
     /\ IF sentNow < Parts
        THEN loc' = [loc EXCEPT ![t].part = sentNow] /\ UNCHANGED << pc, call >>
        ELSE IF call[t].op = "send" THEN Home(t)
        ELSE /\ Goto(t, "pass") /\ UNCHANGED call
             /\ loc' = [loc EXCEPT ![t] = Locals(@.ptr, @.out, @.passed, None, 0)]
  /\ UNCHANGED << heapVars, holder, made, heard >>

Read(f) ==
  /\ f \in Reading /\ socket[f] # << >>
  /\ heard' = [heard EXCEPT ![f] = Append(@, Head(socket[f]))]
  /\ socket' = [socket EXCEPT ![f] = Tail(@)]
  /\ UNCHANGED << heapVars, holder, made, call, pc, loc >>

-----------------------------------------------------------------------------
Thread(t) ==
  \/ Call(t) \/ Malloc(t) \/ NoMemory(t) \/ GiveUp(t) \/ Free(t) \/ Lock(t) \/ Unlock(t)
  \/ Contains(t) \/ Insert(t) \/ InsertByFd(t)
  \/ LookUp(t) \/ Copy(t) \/ ChangeStatus(t) \/ RemoveByFd(t) \/ RemoveByName(t)
  \/ Pass(t) \/ PassedAll(t) \/ Send(t)

\* Everybody has made its calls: not a deadlock.
Finished ==
  /\ \A t \in Threads : pc[t] = "idle" /\ made[t] = Len(Menu[t])
  /\ UNCHANGED vars

Next == (\E t \in Threads : Thread(t)) \/ (\E f \in Fds : Read(f)) \/ Finished

(* Threads that can run do run, and the peers in Reading go on reading.  The
   mutex needs no more: each thread makes finitely many calls, so a waiter that
   is overtaken is overtaken finitely often.                                *)
Fairness ==
  /\ \A t \in Threads : WF_vars(Thread(t))
  /\ \A f \in Fds : WF_vars(Read(f))

Spec == Init /\ [][Next]_vars /\ Fairness

-----------------------------------------------------------------------------
(* Refinement: an add takes effect when its user enters the table, although
   the index is still to follow; a removal when its user leaves the index,
   although the table is still to follow; the others when they have their
   answer, and a user refused by user_init at once.                         *)
Unindexed == {t \in Threads : pc[t] = "insert_fd"}
HalfRemoved == {call[t].key : t \in {u \in Threads : pc[u] = "remove_name"}}

Value ==
  [byName |-> [n \in DOMAIN table \ HalfRemoved |->
                 [fd |-> heap[table[n]].fd, status |-> heap[table[n]].status]],
   byFd   |-> [f \in DOMAIN index \cup {call[t].fd : t \in Unindexed} |->
                 IF \E t \in Unindexed : call[t].fd = f
                 THEN call[CHOOSE t \in Unindexed : call[t].fd = f].name
                 ELSE IF heap[index[f]] = None THEN None ELSE heap[index[f]].name]]

Phase == [t \in Threads |->
  IF pc[t] = "idle" \/ call[t].op = "send" THEN "idle"
  ELSE IF pc[t] \in {"insert_fd", "remove_name", "unlock", "free", "no_user"} THEN "answered"
  ELSE "called"]

\* What the threads have asked for, and what those that have an answer will be told.
Asked == [t \in Threads |-> IF Phase[t] = "idle" THEN None ELSE call[t]]
Told == [t \in Threads |-> IF Phase[t] = "answered" THEN loc[t].out ELSE None]

Atomic == INSTANCE AtomicTable WITH
  Calls <- TableCalls, value <- Value, phase <- Phase, call <- Asked, answer <- Told

(* Every operation of users_table.c takes effect at one instant, whatever the
   other threads do: the functions of UsersTable are what a thread observes.  *)
TableIsAtomic == Atomic!AtomicSafety

(* Every operation takes effect and returns, as long as the peers that are sent
   something read it: nobody waits for the mutex for ever.                   *)
CallsReturn == Atomic!AtomicProgress

-----------------------------------------------------------------------------
(* No pointer outlives its user: none in a table, and none in a thread that is
   about to follow it.                                                      *)
NoUseAfterFree ==
  /\ \A n \in DOMAIN table : heap[table[n]] # None
  /\ \A f \in DOMAIN index : heap[index[f]] # None
  /\ \A t \in Threads :
       pc[t] \in {"find", "change_status", "remove"} \/ At(t, "for_each", "send")
         => heap[loc[t].ptr] # None

\* The users a thread made and has neither given to the table nor freed.
Owns(t) ==
  IF \/ pc[t] \in {"contains", "insert", "free"}
     \/ At(t, "add", "lock")
     \/ At(t, "add", "unlock") /\ loc[t].out = FALSE
  THEN {loc[t].ptr} ELSE {}

(* No user is lost: each one is in the table, under its own name, or in the
   hands of the thread that made it, and never both or twice.               *)
NothingLeaks ==
  \A a \in Cells :
    Cardinality({n \in DOMAIN table : table[n] = a} \cup {t \in Threads : a \in Owns(t)})
      = IF heap[a] = None THEN 0 ELSE 1

\* Everything that has reached a socket, in order.
Stream(f) == heard[f] \o socket[f]
Comes(f, l, m) ==
  \E i, j \in 1..Len(Stream(f)) : i < j /\ Stream(f)[i].line = l /\ Stream(f)[j].line = m

(* Two broadcasts reach all who get both of them in the same order, and neither
   is cut by the other: the mutex is held while users_table_for_each sends.
   ChatServer relies on it when it makes a broadcast one step.              *)
Broadcasts == {l \in UNION {{p.line : p \in Range(Stream(f))} : f \in Fds} : l.op = "for_each"}
BroadcastsInOneOrder ==
  \A f, g \in Fds : \A l, m \in Broadcasts :
    l # m /\ Comes(f, l, m) => ~Comes(g, m, l)

(* The protocol is one JSON object per line: what reaches a client is a
   sequence of whole lines.                                                 *)
WholeLines ==
  \A f \in Fds : \A i \in 1..Len(Stream(f)) :
    LET p == Stream(f)[i] IN
    IF i = Len(Stream(f)) \/ p.part = Parts
    THEN i < Len(Stream(f)) => Stream(f)[i + 1].part = 1
    ELSE Stream(f)[i + 1] = [p EXCEPT !.part = @ + 1]
=============================================================================
