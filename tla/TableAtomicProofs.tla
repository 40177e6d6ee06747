------------------------- MODULE TableAtomicProofs -------------------------
(***************************************************************************)
(* users_table.c implements AtomicTable: every call of users_table.h takes    *)
(* effect at one instant, for any number of threads, users and cells.  And no *)
(* user is lost on the way.                                                  *)
(***************************************************************************)
EXTENDS TableHeapProofs, FiniteSetTheorems

Adding(t) == pc[t] \in {"contains", "insert"} \/ At(t, "add", "lock")
Iterating(t) == pc[t] = "pass" \/ At(t, "for_each", "send")

\* What a thread has worked out of its call is what the tables and the heap say.
Faithful(t) ==
  /\ Adding(t) => call[t].name \notin Refused /\ heap[loc[t].ptr].status = call[t].status
  /\ pc[t] = "insert_fd" => heap[loc[t].ptr].name = call[t].name
  /\ pc[t] \in {"find", "change_status", "remove"} =>
       IF call[t].by = "username" THEN heap[loc[t].ptr].name = call[t].key
       ELSE call[t].key \in DOMAIN index /\ index[call[t].key] = loc[t].ptr
  /\ pc[t] \in {"idle", "lock"} => loc[t].passed = {}
  /\ Iterating(t) => /\ loc[t].passed \subseteq DOMAIN table
                     /\ loc[t].out = {heap[table[n]] : n \in loc[t].passed}

\* A user is in the table or in the hands of the thread that made it.
NothingLost == \A a \in Cells : heap[a] # None => InTable(a) \/ \E t \in Threads : a \in Owns(t)

AtomicInv == HeapInv /\ NothingLost /\ \A t \in Threads : Faithful(t)

-----------------------------------------------------------------------------
\* A thread that is outside relies on no table; one that is not moves alone.
LEMMA OthersStayFaithful ==
  ASSUME AtomicInv, NEW t \in Threads, OnlyMoves(t), NEW u \in Threads \ {t},
         \A a \in Owns(u) : heap'[a] = heap[a],
         \/ Inside(t)
         \/ UNCHANGED << table, index >> /\ \A a \in Cells : InTable(a) => heap'[a] = heap[a]
  PROVE  Faithful(u)'
<1>1. /\ pc'[u] = pc[u] /\ call'[u] = call[u] /\ loc'[u] = loc[u]
      /\ Adding(u)' = Adding(u) /\ Iterating(u)' = Iterating(u)
  BY DEF OnlyMoves, Adding, Iterating, At
<1>2. Adding(u) => heap'[loc[u].ptr] = heap[loc[u].ptr]
  BY DEF Adding, Owns, At
<1>3. CASE Inside(t)
  <2>1. ~Inside(u)
    BY <1>3, Alone DEF AtomicInv
  <2> QED BY <1>1, <1>2, <2>1 DEF AtomicInv, Faithful, Inside, Iterating
<1>4. CASE UNCHANGED << table, index >> /\ \A a \in Cells : InTable(a) => heap'[a] = heap[a]
  <2>1. pc[u] \in {"find", "change_status", "remove", "insert_fd"}
          => heap'[loc[u].ptr] = heap[loc[u].ptr]
    BY <1>4 DEF AtomicInv, HeapInv, FoundUnderMutex, InTable
  <2>2. \A n \in DOMAIN table : heap'[table[n]] = heap[table[n]]
    BY <1>4 DEF AtomicInv, HeapInv, Typed, TableLive, InTable
  <2>3. Iterating(u) => {heap[table[n]] : n \in loc[u].passed}
                          = {heap'[table'[n]] : n \in loc[u].passed}
    BY <1>4, <2>2 DEF AtomicInv, Faithful
  <2> QED BY <1>1, <1>2, <1>4, <2>1, <2>3 DEF AtomicInv, Faithful
<1> QED BY <1>3, <1>4

(* A step that leaves tables and heap alone keeps the invariant if its thread
   keeps what it owns and stays faithful.                                   *)
LEMMA QuietStaysFaithful ==
  ASSUME AtomicInv, NEW t \in Threads, OnlyMoves(t), UNCHANGED heapVars, HeapInv',
         Owns(t) \subseteq Owns(t)', Faithful(t)'
  PROVE  AtomicInv'
<1>1. \A u \in Threads \ {t} : Faithful(u)' /\ Owns(u)' = Owns(u)
  BY OthersStayFaithful, OthersStay DEF heapVars
<1>2. NothingLost'
  BY <1>1 DEF AtomicInv, NothingLost, InTable, heapVars
<1> QED BY <1>1, <1>2 DEF AtomicInv

\* Where nothing is asked of a thread.
LEMMA IdlyFaithful ==
  ASSUME NEW t \in Threads,
         pc[t] = "idle" => loc[t].passed = {},
         pc[t] \in {"idle", "malloc", "no_user", "unlock", "free", "look_up", "remove_name"}
         \/ At(t, "send", "send")
  PROVE  Faithful(t)
  BY DEF Faithful, Adding, Iterating, At

LEMMA CallFaithful ==
  ASSUME AtomicInv, HeapInv', NEW t \in Threads, Call(t)
  PROVE  AtomicInv'
<1>1. /\ pc[t] = "idle" /\ UNCHANGED heapVars /\ loc' = loc
      /\ \E c : /\ call' = [call EXCEPT ![t] = c]
                /\ pc' = [pc EXCEPT ![t] = IF c.op = "add" THEN "malloc"
                                   ELSE IF c.op = "send" THEN "send" ELSE "lock"]
  BY DEF Call, Goto, SameHeap
<1>2. /\ OnlyMoves(t) /\ Owns(t) = {} /\ loc[t].passed = {}
      /\ \/ pc'[t] = "malloc"
         \/ pc'[t] = "send" /\ call'[t].op = "send"
         \/ pc'[t] = "lock" /\ call'[t].op # "add"
  BY <1>1 DEF AtomicInv, HeapInv, Typed, OnlyMoves, Owns, At, Faithful
<1>3. Faithful(t)'
  BY <1>1, <1>2 DEF Faithful, Adding, Iterating, At
<1> QED BY <1>1, <1>2, <1>3, QuietStaysFaithful

LEMMA NoMemoryFaithful ==
  ASSUME AtomicInv, HeapInv', NEW t \in Threads, NoMemory(t)
  PROVE  AtomicInv'
<1>1. /\ pc[t] = "malloc" /\ Returning(t, "no_user", FALSE) /\ UNCHANGED << heapVars, call >>
  BY DEF NoMemory, SameHeap, SameCall
<1>2. OnlyMoves(t) /\ pc'[t] = "no_user" /\ Owns(t) = {}
  BY <1>1, ReturningMoves DEF AtomicInv, HeapInv, Places, Owns, At
<1> QED BY <1>1, <1>2, QuietStaysFaithful DEF Faithful, Adding, Iterating, At

\* What comes home has nothing left.
LEMMA HomeFaithful ==
  ASSUME AtomicInv, NEW t \in Threads, Home(t)
  PROVE  Faithful(t)'
<1>1. pc'[t] = "idle" /\ loc'[t] = Fresh
  BY DEF Home, Goto, AtomicInv, HeapInv, Typed, LocalsTyped
<1> QED BY <1>1 DEF Faithful, Adding, Iterating, At, Fresh, Locals

LEMMA GiveUpFaithful ==
  ASSUME AtomicInv, HeapInv', NEW t \in Threads, GiveUp(t)
  PROVE  AtomicInv'
<1>1. pc[t] = "no_user" /\ Home(t) /\ UNCHANGED heapVars
  BY DEF GiveUp, SameHeap
<1>2. OnlyMoves(t) /\ Owns(t) = {}
  BY <1>1, HomeMoves DEF AtomicInv, HeapInv, Owns, At
<1> QED BY <1>1, <1>2, HomeFaithful, QuietStaysFaithful

LEMMA LockFaithful ==
  ASSUME AtomicInv, HeapInv', NEW t \in Threads, Lock(t)
  PROVE  AtomicInv'
<1>1. /\ pc[t] = "lock" /\ UNCHANGED << heapVars, call >>
      /\ pc' = [pc EXCEPT ![t] = IF call[t].op = "add" THEN "contains"
                                 ELSE IF call[t].op \in {"iterate", "for_each"} THEN "pass"
                                 ELSE "look_up"]
      /\ IF call[t].op \in {"iterate", "for_each"} THEN loc' = [loc EXCEPT ![t].out = {}]
         ELSE loc' = loc
  BY DEF Lock, Goto, SameHeap, SameCall
<1>2. /\ OnlyMoves(t) /\ loc'[t].ptr = loc[t].ptr /\ loc'[t].passed = loc[t].passed
      /\ \/ call[t].op = "add" /\ pc'[t] = "contains"
         \/ call[t].op \in {"iterate", "for_each"} /\ pc'[t] = "pass" /\ loc'[t].out = {}
         \/ pc'[t] = "look_up" /\ call[t].op # "add"
  BY <1>1 DEF AtomicInv, HeapInv, Typed, LocalsTyped, Locals, OnlyMoves
<1>3. Owns(t) \subseteq Owns(t)'
  BY <1>1, <1>2 DEF Owns, At
<1>4. Faithful(t)'
  BY <1>1, <1>2 DEF AtomicInv, Faithful, Adding, Iterating, At, heapVars
<1> QED BY <1>1, <1>2, <1>3, <1>4, QuietStaysFaithful

LEMMA UnlockFaithful ==
  ASSUME AtomicInv, HeapInv', NEW t \in Threads, Unlock(t)
  PROVE  AtomicInv'
<1>1. pc[t] = "unlock" /\ UNCHANGED heapVars
  BY DEF Unlock, SameHeap
<1>2. CASE MustFree(t)
  <2>1. pc' = [pc EXCEPT ![t] = "free"] /\ UNCHANGED << call, loc >>
    BY <1>2 DEF Unlock, Goto
  <2>2. OnlyMoves(t) /\ pc'[t] = "free" /\ Owns(t) \subseteq Owns(t)'
    BY <1>1, <2>1 DEF AtomicInv, HeapInv, Typed, OnlyMoves, Owns, At
  <2> QED BY <1>1, <2>2, QuietStaysFaithful DEF Faithful, Adding, Iterating, At
<1>3. CASE ~MustFree(t)
  <2>1. Home(t) /\ OnlyMoves(t)
    BY <1>3, HomeMoves DEF Unlock, AtomicInv, HeapInv
  <2>2. Owns(t) = {}
    BY <1>1, <1>3 DEF Owns, At, MustFree
  <2> QED BY <1>1, <2>1, <2>2, HomeFaithful, QuietStaysFaithful
<1> QED BY <1>2, <1>3

LEMMA ContainsFaithful ==
  ASSUME AtomicInv, HeapInv', NEW t \in Threads, Contains(t)
  PROVE  AtomicInv'
<1>1. pc[t] = "contains" /\ UNCHANGED << heapVars, call >>
  BY DEF Contains, SameHeap, SameCall
<1>2. call[t].op = "add"
  BY <1>1 DEF AtomicInv, HeapInv, OpInPlace, OpsAt
<1>3. CASE Returning(t, "unlock", FALSE)
  <2>1. /\ OnlyMoves(t) /\ pc'[t] = "unlock"
        /\ loc'[t].ptr = loc[t].ptr /\ loc'[t].out = FALSE
    BY <1>1, <1>3, ReturningMoves DEF AtomicInv, HeapInv, Places
  <2>2. Owns(t) \subseteq Owns(t)'
    BY <1>1, <1>2, <2>1 DEF Owns, At
  <2> QED BY <1>1, <2>1, <2>2, QuietStaysFaithful DEF Faithful, Adding, Iterating, At
<1>4. CASE pc' = [pc EXCEPT ![t] = "insert"] /\ loc' = loc
  <2>1. OnlyMoves(t) /\ pc'[t] = "insert" /\ Owns(t) \subseteq Owns(t)'
    BY <1>1, <1>4 DEF AtomicInv, HeapInv, Typed, OnlyMoves, Owns
  <2>2. Faithful(t)'
    BY <1>1, <1>4, <2>1 DEF AtomicInv, Faithful, Adding, Iterating, At, heapVars
  <2> QED BY <1>1, <2>1, <2>2, QuietStaysFaithful
<1> QED BY <1>3, <1>4 DEF Contains, Goto

LEMMA LookUpFaithful ==
  ASSUME AtomicInv, HeapInv', NEW t \in Threads, LookUp(t)
  PROVE  AtomicInv'
<1> DEFINE found == Get(IF call[t].by = "username" THEN table ELSE index, call[t].key)
<1>1. /\ pc[t] = "look_up" /\ UNCHANGED << heapVars, call >> /\ Owns(t) = {}
  BY DEF LookUp, SameHeap, SameCall, Owns, At
<1>2. call[t].op \in {"contains", "find", "change_status", "remove"}
  BY <1>1 DEF AtomicInv, HeapInv, OpInPlace, OpsAt
<1>3. ASSUME NEW out, Returning(t, "unlock", out) PROVE AtomicInv'
  <2>1. OnlyMoves(t) /\ pc'[t] = "unlock"
    BY <1>1, <1>3, ReturningMoves DEF AtomicInv, HeapInv, Places
  <2> QED BY <1>1, <2>1, QuietStaysFaithful DEF Faithful, Adding, Iterating, At
<1>4. CASE found # None /\ call[t].op # "contains"
  <2>1. pc' = [pc EXCEPT ![t] = call[t].op] /\ loc' = [loc EXCEPT ![t].ptr = found]
    BY <1>4 DEF LookUp, Goto
  <2>2. /\ OnlyMoves(t) /\ pc'[t] \in {"find", "change_status", "remove"}
        /\ loc'[t].ptr = found /\ call' = call
    <3> HIDE DEF found
    <3> LocalsTyped
      BY DEF AtomicInv, HeapInv, Typed
    <3>1. /\ loc'[t] = Locals(found, loc[t].out, loc[t].passed, loc[t].fd, loc[t].part)
          /\ \A u \in Threads \ {t} : loc'[u] = loc[u]
      BY <2>1 DEF LocalsTyped, Locals
    <3>2. pc'[t] = call[t].op /\ \A u \in Threads \ {t} : pc'[u] = pc[u]
      BY <2>1 DEF AtomicInv, HeapInv, Typed
    <3> QED BY <1>1, <1>2, <1>4, <3>1, <3>2 DEF OnlyMoves, Locals
  <2>3. IF call[t].by = "username" THEN heap[found].name = call[t].key
        ELSE call[t].key \in DOMAIN index /\ index[call[t].key] = found
    BY <1>4 DEF Get, AtomicInv, HeapInv, TableLive
  <2>4. Faithful(t)'
    BY <1>1, <2>2, <2>3 DEF Faithful, Adding, Iterating, At, heapVars
  <2> QED BY <1>1, <2>2, <2>4, QuietStaysFaithful
<1> QED BY <1>3, <1>4 DEF LookUp

LEMMA CopyFaithful ==
  ASSUME AtomicInv, HeapInv', NEW t \in Threads, Copy(t)
  PROVE  AtomicInv'
<1>1. /\ pc[t] = "find" /\ Returning(t, "unlock", heap[loc[t].ptr])
      /\ UNCHANGED << heapVars, call >>
  BY DEF Copy, SameHeap, SameCall
<1>2. OnlyMoves(t) /\ pc'[t] = "unlock" /\ Owns(t) = {}
  BY <1>1, ReturningMoves DEF AtomicInv, HeapInv, Places, Owns, At
<1> QED BY <1>1, <1>2, QuietStaysFaithful DEF Faithful, Adding, Iterating, At

LEMMA PassFaithful ==
  ASSUME AtomicInv, HeapInv', NEW t \in Threads, Pass(t)
  PROVE  AtomicInv'
<1>1. PICK n \in DOMAIN table \ loc[t].passed :
        /\ loc' = [loc EXCEPT ![t] = Locals(table[n], loc[t].out \cup {heap[table[n]]},
                                            loc[t].passed \cup {n}, heap[table[n]].fd, 0)]
        /\ Goto(t, IF call[t].op = "for_each" /\ heap[table[n]].fd # call[t].skip
                   THEN "send" ELSE "pass")
  BY DEF Pass
<1>2. pc[t] = "pass" /\ UNCHANGED << heapVars, call >> /\ Owns(t) = {}
  BY DEF Pass, SameHeap, SameCall, Owns, At
<1>3. /\ loc'[t] = Locals(table[n], loc[t].out \cup {heap[table[n]]},
                          loc[t].passed \cup {n}, heap[table[n]].fd, 0)
      /\ \A u \in Threads \ {t} : loc'[u] = loc[u] /\ pc'[u] = pc[u]
      /\ pc'[t] = "pass" \/ (pc'[t] = "send" /\ call[t].op = "for_each")
  BY <1>1 DEF AtomicInv, HeapInv, Typed, LocalsTyped, Goto
<1>4. /\ loc'[t].passed = loc[t].passed \cup {n}
      /\ loc'[t].out = loc[t].out \cup {heap[table[n]]}
  BY <1>3 DEF Locals
<1>5. /\ loc[t].passed \subseteq DOMAIN table
      /\ loc[t].out = {heap[table[m]] : m \in loc[t].passed}
  BY <1>2 DEF AtomicInv, Faithful, Iterating
<1>6. Faithful(t)'
  <2>1. /\ loc'[t].passed \subseteq DOMAIN table'
        /\ loc'[t].out = {heap'[table'[m]] : m \in loc'[t].passed}
    BY <1>2, <1>4, <1>5 DEF heapVars
  <2>2. pc'[t] = "pass" \/ (pc'[t] = "send" /\ call'[t].op = "for_each")
    BY <1>2, <1>3
  <2> QED BY <2>1, <2>2 DEF Faithful, Adding, At
<1> QED BY <1>2, <1>3, <1>6, QuietStaysFaithful DEF OnlyMoves

LEMMA PassedAllFaithful ==
  ASSUME AtomicInv, HeapInv', NEW t \in Threads, PassedAll(t)
  PROVE  AtomicInv'
<1>1. /\ pc[t] = "pass" /\ pc' = [pc EXCEPT ![t] = "unlock"]
      /\ UNCHANGED << heapVars, call, loc >>
  BY DEF PassedAll, Goto, SameHeap, SameCall
<1>2. OnlyMoves(t) /\ pc'[t] = "unlock" /\ Owns(t) = {}
  BY <1>1 DEF AtomicInv, HeapInv, Typed, OnlyMoves, Owns, At
<1> QED BY <1>1, <1>2, QuietStaysFaithful DEF Faithful, Adding, Iterating, At

LEMMA SendFaithful ==
  ASSUME AtomicInv, HeapInv', NEW t \in Threads, Send(t)
  PROVE  AtomicInv'
<1>1. /\ pc[t] = "send" /\ UNCHANGED heapVars /\ Owns(t) = {}
      /\ call[t].op \in {"for_each", "send"}
  BY DEF Send, AtomicInv, HeapInv, OpInPlace, OpsAt, Owns, At
<1>2. CASE loc' = [loc EXCEPT ![t].part = loc[t].part + 1] /\ UNCHANGED << pc, call >>
  <2>1. OnlyMoves(t) /\ loc'[t].passed = loc[t].passed /\ loc'[t].out = loc[t].out
    <3> LocalsTyped
      BY DEF AtomicInv, HeapInv, Typed
    <3>1. /\ loc'[t] = Locals(loc[t].ptr, loc[t].out, loc[t].passed, loc[t].fd, loc[t].part + 1)
          /\ \A u \in Threads \ {t} : loc'[u] = loc[u]
      BY <1>2 DEF LocalsTyped, Locals
    <3> QED BY <1>2, <3>1 DEF OnlyMoves, Locals
  <2>2. Faithful(t)'
    BY <1>1, <1>2, <2>1 DEF AtomicInv, Faithful, Adding, Iterating, At, heapVars
  <2> QED BY <1>1, <2>1, <2>2, QuietStaysFaithful
<1>3. CASE Home(t)
  BY <1>1, <1>3, HomeMoves, HomeFaithful, QuietStaysFaithful DEF AtomicInv, HeapInv
<1>4. CASE /\ pc' = [pc EXCEPT ![t] = "pass"] /\ UNCHANGED call
           /\ loc' = [loc EXCEPT ![t] = Locals(loc[t].ptr, loc[t].out, loc[t].passed, None, 0)]
           /\ call[t].op # "send"
  <2>1. /\ loc'[t] = Locals(loc[t].ptr, loc[t].out, loc[t].passed, None, 0)
        /\ pc'[t] = "pass" /\ OnlyMoves(t)
    BY <1>4 DEF AtomicInv, HeapInv, Typed, LocalsTyped, OnlyMoves
  <2>2. Faithful(t)'
    BY <1>1, <1>4, <2>1 DEF AtomicInv, Faithful, Adding, Iterating, At, heapVars, Locals
  <2> QED BY <1>1, <2>1, <2>2, QuietStaysFaithful
<1> QED BY <1>2, <1>3, <1>4 DEF Send, Goto

-----------------------------------------------------------------------------
(* The steps that change the tables or the heap keep the invariant if the others
   own what they owned, the tables and the heap look the same to them, and no
   user is lost.                                                            *)
LEMMA HeapStepStaysFaithful ==
  ASSUME AtomicInv, HeapInv', NEW t \in Threads, OnlyMoves(t), Faithful(t)', NothingLost',
         \A u \in Threads \ {t} : \A a \in Owns(u) : heap'[a] = heap[a],
         \/ Inside(t)
         \/ UNCHANGED << table, index >> /\ \A a \in Cells : InTable(a) => heap'[a] = heap[a]
  PROVE  AtomicInv'
<1>1. \A u \in Threads \ {t} : Faithful(u)'
  BY OthersStayFaithful
<1> QED BY <1>1 DEF AtomicInv

LEMMA MallocFaithful ==
  ASSUME AtomicInv, HeapInv', NEW t \in Threads, Malloc(t)
  PROVE  AtomicInv'
<1> DEFINE user == [name |-> call[t].name, fd |-> call[t].fd, status |-> call[t].status]
           refused == IF call[t].name \in Refused THEN FALSE ELSE None
<1>1. PICK a \in Cells :
        /\ heap[a] = None /\ heap' = [heap EXCEPT ![a] = user]
        /\ loc' = [loc EXCEPT ![t] = Locals(a, refused, {}, None, 0)]
  BY DEF Malloc
<1>2. /\ pc[t] = "malloc" /\ UNCHANGED << table, index, call >>
      /\ pc' = [pc EXCEPT ![t] = IF call[t].name \in Refused THEN "free" ELSE "lock"]
  BY DEF Malloc, Goto, SameCall
<1>3. call[t].op = "add"
  BY <1>2 DEF AtomicInv, HeapInv, OpInPlace, OpsAt
<1> HIDE DEF refused
<1>4. /\ heap'[a] = user /\ \A b \in Cells \ {a} : heap'[b] = heap[b]
      /\ loc'[t] = Locals(a, refused, {}, None, 0) /\ OnlyMoves(t)
      /\ IF call[t].name \in Refused THEN pc'[t] = "free" ELSE pc'[t] = "lock"
  BY <1>1, <1>2 DEF AtomicInv, HeapInv, Typed, LocalsTyped, OnlyMoves
<1>5. loc'[t].ptr = a /\ loc'[t].passed = {}
  BY <1>4 DEF Locals
<1>6. \A b \in Cells : InTable(b) => b # a /\ InTable(b)'
  BY <1>1, <1>2, <1>4 DEF InTable
<1>7. \A u \in Threads : a \notin Owns(u)
  BY <1>1 DEF AtomicInv, HeapInv, OwnedApart
<1>8. Faithful(t)'
  BY <1>2, <1>3, <1>4, <1>5 DEF Faithful, Adding, Iterating, At
<1>9. a \in Owns(t)' /\ Owns(t) = {} /\ \A u \in Threads \ {t} : Owns(u)' = Owns(u)
  BY <1>2, <1>3, <1>4, <1>5, OthersStay DEF Owns, At
<1>10. NothingLost'
  BY <1>4, <1>6, <1>9 DEF AtomicInv, NothingLost
<1>11. /\ \A u \in Threads \ {t} : \A b \in Owns(u) : heap'[b] = heap[b]
       /\ \A b \in Cells : InTable(b) => heap'[b] = heap[b]
  BY <1>4, <1>6, <1>7 DEF AtomicInv, HeapInv, OwnedApart
<1> QED BY <1>2, <1>4, <1>8, <1>10, <1>11, HeapStepStaysFaithful

LEMMA FreeFaithful ==
  ASSUME AtomicInv, HeapInv', NEW t \in Threads, Free(t)
  PROVE  AtomicInv'
<1> DEFINE a == loc[t].ptr
<1>1. /\ pc[t] = "free" /\ heap' = [heap EXCEPT ![a] = None] /\ Home(t)
      /\ UNCHANGED << table, index >>
  BY DEF Free
<1>2. /\ Owns(t) = {a} /\ a \in Cells
      /\ \A n \in DOMAIN table : table[n] # a
      /\ \A u \in Threads \ {t} : a \notin Owns(u)
  BY <1>1 DEF AtomicInv, HeapInv, OwnedApart, Owns
<1> HIDE DEF a
<1>3. heap'[a] = None /\ \A b \in Cells \ {a} : heap'[b] = heap[b]
  BY <1>1, <1>2 DEF AtomicInv, HeapInv, Typed
<1>4. OnlyMoves(t) /\ \A u \in Threads \ {t} : Owns(u)' = Owns(u)
  BY <1>1, HomeMoves, OthersStay DEF AtomicInv, HeapInv
<1>5. \A b \in Cells : InTable(b) => b # a /\ InTable(b)'
  BY <1>1, <1>2, <1>3 DEF InTable
<1>6. NothingLost'
  BY <1>2, <1>3, <1>4, <1>5 DEF AtomicInv, NothingLost
<1>7. /\ \A u \in Threads \ {t} : \A b \in Owns(u) : heap'[b] = heap[b]
      /\ \A b \in Cells : InTable(b) => heap'[b] = heap[b]
  BY <1>2, <1>3, <1>5 DEF AtomicInv, HeapInv, OwnedApart
<1> QED BY <1>1, <1>4, <1>6, <1>7, HomeFaithful, HeapStepStaysFaithful

LEMMA InsertFaithful ==
  ASSUME AtomicInv, HeapInv', NEW t \in Threads, Insert(t)
  PROVE  AtomicInv'
<1> DEFINE n == call[t].name
<1>0. PICK a : a = loc[t].ptr
  OBVIOUS
<1>1. /\ pc[t] = "insert" /\ Inside(t) /\ Returning(t, "insert_fd", TRUE)
      /\ table' = Put(table, n, a) /\ UNCHANGED << index, heap, call >>
  BY <1>0 DEF Insert, SameCall, Inside
<1>2. /\ Owns(t) = {a} /\ n \notin DOMAIN table /\ a \in Cells
      /\ heap[a] # None /\ heap[a].name = n
  BY <1>0, <1>1 DEF AtomicInv, HeapInv, FoundUnderMutex, OwnedApart, Owns
<1>3. OnlyMoves(t) /\ pc'[t] = "insert_fd" /\ loc'[t].ptr = a
  BY <1>0, <1>1, ReturningMoves DEF AtomicInv, HeapInv, Places
<1>4. \A u \in Threads \ {t} : Owns(u)' = Owns(u)
  BY <1>3, OthersStay
<1>5. Faithful(t)'
  BY <1>1, <1>2, <1>3 DEF Faithful, Adding, Iterating, At
<1> HIDE DEF n
<1>6. /\ DOMAIN table' = DOMAIN table \cup {n} /\ table'[n] = a
      /\ \A m \in DOMAIN table : table'[m] = table[m]
  BY <1>1, <1>2 DEF Put
<1>7. InTable(a)' /\ \A b \in Cells : InTable(b) => InTable(b)'
  BY <1>1, <1>2, <1>6 DEF InTable
<1>8. NothingLost'
  BY <1>1, <1>2, <1>4, <1>7 DEF AtomicInv, NothingLost
<1> QED BY <1>1, <1>3, <1>5, <1>8, HeapStepStaysFaithful

LEMMA InsertByFdFaithful ==
  ASSUME AtomicInv, HeapInv', NEW t \in Threads, InsertByFd(t)
  PROVE  AtomicInv'
<1>1. /\ pc[t] = "insert_fd" /\ Inside(t) /\ pc' = [pc EXCEPT ![t] = "unlock"]
      /\ UNCHANGED << table, heap, call, loc >> /\ Owns(t) = {}
  BY DEF InsertByFd, Goto, SameCall, Inside, Owns, At
<1>2. OnlyMoves(t) /\ pc'[t] = "unlock"
  BY <1>1 DEF AtomicInv, HeapInv, Typed, OnlyMoves
<1>3. Faithful(t)' /\ \A u \in Threads \ {t} : Owns(u)' = Owns(u)
  BY <1>2, OthersStay DEF Faithful, Adding, Iterating, At
<1>4. NothingLost'
  BY <1>1, <1>3 DEF AtomicInv, NothingLost, InTable
<1> QED BY <1>1, <1>2, <1>3, <1>4, HeapStepStaysFaithful

LEMMA RemoveByFdFaithful ==
  ASSUME AtomicInv, HeapInv', NEW t \in Threads, RemoveByFd(t)
  PROVE  AtomicInv'
<1>1. /\ pc[t] = "remove" /\ Inside(t) /\ Returning(t, "remove_name", TRUE)
      /\ UNCHANGED << table, heap, call >> /\ Owns(t) = {}
  BY DEF RemoveByFd, SameCall, Inside, Owns, At
<1>2. OnlyMoves(t) /\ pc'[t] = "remove_name"
  BY <1>1, ReturningMoves DEF AtomicInv, HeapInv, Places
<1>3. Faithful(t)' /\ \A u \in Threads \ {t} : Owns(u)' = Owns(u)
  BY <1>2, OthersStay DEF Faithful, Adding, Iterating, At
<1>4. NothingLost'
  BY <1>1, <1>3 DEF AtomicInv, NothingLost, InTable
<1> QED BY <1>1, <1>2, <1>3, <1>4, HeapStepStaysFaithful

LEMMA RemoveByNameFaithful ==
  ASSUME AtomicInv, HeapInv', NEW t \in Threads, RemoveByName(t)
  PROVE  AtomicInv'
<1> DEFINE n == call[t].key
           a == table[n]
<1>1. /\ pc[t] = "remove_name" /\ Inside(t) /\ pc' = [pc EXCEPT ![t] = "unlock"]
      /\ heap' = [heap EXCEPT ![a] = None] /\ table' = Drop(table, n)
      /\ UNCHANGED << index, call, loc >> /\ Owns(t) = {}
  BY DEF RemoveByName, Goto, SameCall, Inside, Owns, At
<1>2. /\ n \in DOMAIN table /\ a \in Cells /\ heap[a].name = n
      /\ \A u \in Threads : a \notin Owns(u)
  BY <1>1 DEF AtomicInv, HeapInv, Typed, TableLive, FoundUnderMutex, OwnedApart
<1>3. OnlyMoves(t) /\ pc'[t] = "unlock"
  BY <1>1 DEF AtomicInv, HeapInv, Typed, OnlyMoves
<1>4. Faithful(t)' /\ \A u \in Threads \ {t} : Owns(u)' = Owns(u)
  BY <1>3, OthersStay DEF Faithful, Adding, Iterating, At
<1>5. a = table[n]
  OBVIOUS
<1> HIDE DEF a, n
<1>6. /\ DOMAIN table' = DOMAIN table \ {n}
      /\ \A m \in DOMAIN table' : table'[m] = table[m]
      /\ heap'[a] = None /\ \A b \in Cells \ {a} : heap'[b] = heap[b]
  BY <1>1, <1>2 DEF AtomicInv, HeapInv, Typed, Drop
<1>7. \A b \in Cells \ {a} : InTable(b) => InTable(b)'
  BY <1>2, <1>5, <1>6 DEF InTable
<1>8. NothingLost'
  BY <1>1, <1>4, <1>6, <1>7 DEF AtomicInv, NothingLost
<1>9. \A u \in Threads \ {t} : \A b \in Owns(u) : heap'[b] = heap[b]
  BY <1>2, <1>6 DEF AtomicInv, HeapInv, OwnedApart
<1> QED BY <1>1, <1>3, <1>4, <1>8, <1>9, HeapStepStaysFaithful

LEMMA ChangeStatusFaithful ==
  ASSUME AtomicInv, HeapInv', NEW t \in Threads, ChangeStatus(t)
  PROVE  AtomicInv'
<1>0. PICK a : a = loc[t].ptr
  OBVIOUS
<1>1. /\ pc[t] = "change_status" /\ Inside(t) /\ Returning(t, "unlock", TRUE)
      /\ heap' = [heap EXCEPT ![a].status = call[t].status]
      /\ UNCHANGED << table, index, call >> /\ Owns(t) = {}
  BY <1>0 DEF ChangeStatus, SameCall, Inside, Owns, At
<1>2. /\ InTable(a) /\ \A u \in Threads : a \notin Owns(u)
  <2>1. InTable(a)
    BY <1>0, <1>1 DEF AtomicInv, HeapInv, FoundUnderMutex
  <2> QED BY <2>1 DEF AtomicInv, HeapInv, InTable, OwnedApart
<1>3. OnlyMoves(t) /\ pc'[t] = "unlock"
  BY <1>1, ReturningMoves DEF AtomicInv, HeapInv, Places
<1>4. Faithful(t)' /\ \A u \in Threads \ {t} : Owns(u)' = Owns(u)
  BY <1>3, OthersStay DEF Faithful, Adding, Iterating, At
<1>5. /\ a \in Cells /\ heap[a] \in Users
      /\ heap'[a] = [name |-> heap[a].name, fd |-> heap[a].fd, status |-> call[t].status]
      /\ \A b \in Cells \ {a} : heap'[b] = heap[b]
  BY <1>1, <1>2 DEF AtomicInv, HeapInv, Typed, InTable, Users
<1>6. \A b \in Cells \ {a} : InTable(b) => InTable(b)'
  BY <1>1, <1>5 DEF InTable
<1>7. InTable(a)'
  <2>1. heap'[a] # None
    BY <1>1, <1>2 DEF HeapInv, AtomicInv, TableLive, InTable
  <2> QED BY <1>1, <1>2, <1>5, <2>1 DEF InTable
<1>8. NothingLost'
  BY <1>1, <1>4, <1>5, <1>6, <1>7 DEF AtomicInv, NothingLost
<1>9. \A u \in Threads \ {t} : \A b \in Owns(u) : heap'[b] = heap[b]
  BY <1>2, <1>5 DEF AtomicInv, HeapInv, OwnedApart
<1> QED BY <1>1, <1>3, <1>4, <1>8, <1>9, HeapStepStaysFaithful

-----------------------------------------------------------------------------
LEMMA AtomicInvInit == Init => AtomicInv
  BY HeapInit
  DEF Init, AtomicInv, NothingLost, Faithful, Adding, Iterating, At, Fresh, Locals

LEMMA AtomicStepKeeps == AtomicInv /\ [Next]_vars => AtomicInv'
<1> SUFFICES ASSUME AtomicInv, [Next]_vars PROVE AtomicInv'
  OBVIOUS
<1>1. HeapInv'
  BY HeapStepKeeps DEF AtomicInv
<1>2. ASSUME NEW t \in Threads, Thread(t) PROVE AtomicInv'
  BY <1>1, <1>2, CallFaithful, MallocFaithful, NoMemoryFaithful, GiveUpFaithful, FreeFaithful,
     LockFaithful, UnlockFaithful, ContainsFaithful, InsertFaithful, InsertByFdFaithful,
     LookUpFaithful, CopyFaithful, ChangeStatusFaithful, RemoveByFdFaithful,
     RemoveByNameFaithful, PassFaithful, PassedAllFaithful, SendFaithful DEF Thread
<1>3. ASSUME UNCHANGED << heapVars, call, pc, loc >> PROVE AtomicInv'
  <2>1. \A t \in Threads : Faithful(t)' /\ Owns(t)' = Owns(t)
    BY <1>3 DEF AtomicInv, Faithful, Adding, Iterating, Owns, At, heapVars
  <2> QED BY <1>1, <1>3, <2>1 DEF AtomicInv, NothingLost, InTable, heapVars
<1> QED BY <1>2, <1>3 DEF Next, Read, Finished, vars, heapVars

(* What holds of the users of users_table.c besides HeapInv: none is lost, and
   what a thread has found out about its call is so.                        *)
THEOREM AtomicInvariance == Spec => []AtomicInv
  BY AtomicInvInit, AtomicStepKeeps, PTL DEF Spec

\* Every cell that is taken has one holder, the table or a thread.
LEMMA OneHolder == AtomicInv => NothingLeaks
<1> SUFFICES ASSUME AtomicInv, NEW a \in Cells
             PROVE  Cardinality({n \in DOMAIN table : table[n] = a}
                                  \cup {t \in Threads : a \in Owns(t)})
                      = IF heap[a] = None THEN 0 ELSE 1
  BY DEF NothingLeaks
<1> DEFINE holders == {n \in DOMAIN table : table[n] = a} \cup {t \in Threads : a \in Owns(t)}
<1>1. CASE heap[a] = None
  <2>1. holders = {}
    BY <1>1 DEF AtomicInv, HeapInv, TableLive, OwnedApart
  <2> QED BY <1>1, <2>1, FS_EmptySet
<1>2. CASE heap[a] # None
  <2>1. ASSUME InTable(a) PROVE holders = {heap[a].name}
    BY <2>1 DEF AtomicInv, HeapInv, TableLive, OwnedApart, InTable
  <2>2. ASSUME NEW t \in Threads, a \in Owns(t) PROVE holders = {t}
    BY <2>2 DEF AtomicInv, HeapInv, OwnedApart
  <2>3. \E x : holders = {x}
    BY <1>2, <2>1, <2>2 DEF AtomicInv, NothingLost
  <2> QED BY <1>2, <2>3, FS_Singleton
<1> QED BY <1>1, <1>2

(* No user is lost and none is there twice: every cell that malloc handed out is
   in the table under one name or in the hands of one thread, until it is
   freed.                                                                   *)
THEOREM NothingLeaksHolds == Spec => []NothingLeaks
  BY OneHolder, AtomicInvariance, PTL

-----------------------------------------------------------------------------
(* The abstract table, by what is half done: nothing, a user that is not in the
   index yet, or one that is not out of the table yet.                      *)
Halfway == {"insert_fd", "remove_name"}
NameEntry(n) == [fd |-> heap[table[n]].fd, status |-> heap[table[n]].status]
ByName == [n \in DOMAIN table |-> NameEntry(n)]
ByFd == [f \in DOMAIN index |-> heap[index[f]].name]
ByFdWith(fd, name) ==
  [f \in DOMAIN index \cup {fd} |-> IF f = fd THEN name ELSE heap[index[f]].name]
ByNameWithout(name) == [n \in DOMAIN table \ {name} |-> NameEntry(n)]

Whole == [byName |-> ByName, byFd |-> ByFd]
ValueKnown ==
  /\ (\A u \in Threads : pc[u] \notin Halfway) => Value = Whole
  /\ \A u \in Threads :
       /\ pc[u] = "insert_fd" =>
            Value = [byName |-> ByName, byFd |-> ByFdWith(call[u].fd, call[u].name)]
       /\ pc[u] = "remove_name" =>
            Value = [byName |-> ByNameWithout(call[u].key), byFd |-> ByFd]

LEMMA ValueIsKnown == AtomicInv => ValueKnown
<1> SUFFICES ASSUME AtomicInv PROVE ValueKnown
  OBVIOUS
<1>1. \A f \in DOMAIN index : heap[index[f]] # None
  BY DEF AtomicInv, HeapInv, IndexLive, InTable
<1>2. ASSUME \A u \in Threads : pc[u] \notin Halfway PROVE Value = Whole
  <2>1. Unindexed = {} /\ HalfRemoved = {}
    BY <1>2 DEF Unindexed, HalfRemoved, Halfway
  <2> QED BY <1>1, <2>1 DEF Value, Whole, ByName, ByFd, NameEntry
<1>3. ASSUME NEW u \in Threads, pc[u] = "insert_fd"
      PROVE  Value = [byName |-> ByName, byFd |-> ByFdWith(call[u].fd, call[u].name)]
  <2>1. \A w \in Threads \ {u} : pc[w] \notin Halfway
    BY <1>3, Alone DEF AtomicInv, Inside, Halfway
  <2>2. Unindexed = {u} /\ HalfRemoved = {}
    BY <1>3, <2>1 DEF Unindexed, HalfRemoved, Halfway
  <2>3. \A f : (CHOOSE w \in Unindexed : call[w].fd = f) = u \/ f # call[u].fd
    BY <2>2
  <2> QED BY <1>1, <2>2, <2>3 DEF Value, ByName, ByFdWith, NameEntry
<1>4. ASSUME NEW u \in Threads, pc[u] = "remove_name"
      PROVE  Value = [byName |-> ByNameWithout(call[u].key), byFd |-> ByFd]
  <2>1. \A w \in Threads \ {u} : pc[w] \notin Halfway
    BY <1>4, Alone DEF AtomicInv, Inside, Halfway
  <2>2. Unindexed = {} /\ HalfRemoved = {call[u].key}
    BY <1>4, <2>1 DEF Unindexed, HalfRemoved, Halfway
  <2> QED BY <1>1, <2>2 DEF Value, ByNameWithout, ByFd, NameEntry
<1> QED BY <1>2, <1>3, <1>4 DEF ValueKnown

LEMMA ValueStaysKnown == AtomicInv' => ValueKnown'
  BY ValueIsKnown, PTL

-----------------------------------------------------------------------------
(* Every step is a step of AtomicTable or none of it.                       *)
AtomicStep == [Atomic!AtomicNext]_(Atomic!atomicVars)

LEMMA OfThreads ==
  /\ Phase = [u \in Threads |-> Phase[u]] /\ Phase' = [u \in Threads |-> Phase'[u]]
  /\ Asked = [u \in Threads |-> Asked[u]] /\ Asked' = [u \in Threads |-> Asked'[u]]
  /\ Told = [u \in Threads |-> Told[u]] /\ Told' = [u \in Threads |-> Told'[u]]
<1>1. Phase = [u \in Threads |-> Phase[u]] /\ Phase' = [u \in Threads |-> Phase'[u]]
  BY DEF Phase
<1>2. Asked = [u \in Threads |-> Asked[u]] /\ Asked' = [u \in Threads |-> Asked'[u]]
  BY DEF Asked
<1>3. Told = [u \in Threads |-> Told[u]] /\ Told' = [u \in Threads |-> Told'[u]]
  BY DEF Told
<1> QED BY <1>1, <1>2, <1>3

\* What the others have asked for and been told stays.
LEMMA OthersWait ==
  ASSUME NEW t \in Threads, OnlyMoves(t)
  PROVE  /\ Phase' = [Phase EXCEPT ![t] = Phase'[t]]
         /\ Asked' = [Asked EXCEPT ![t] = Asked'[t]]
         /\ Told' = [Told EXCEPT ![t] = Told'[t]]
<1>1. \A u \in Threads \ {t} : Phase'[u] = Phase[u]
  BY DEF OnlyMoves, Phase
<1>2. \A u \in Threads \ {t} : Asked'[u] = Asked[u] /\ Told'[u] = Told[u]
  BY <1>1 DEF OnlyMoves, Asked, Told
<1> QED BY <1>1, <1>2, OfThreads

\* The phase of a thread, by its place.
LEMMA PhaseByPlace ==
  ASSUME NEW t \in Threads
  PROVE  /\ pc[t] = "idle" \/ call[t].op = "send" => Phase[t] = "idle"
         /\ pc[t] \in {"insert_fd", "remove_name", "unlock", "free", "no_user"}
            /\ call[t].op # "send" => Phase[t] = "answered"
         /\ pc[t] \notin {"idle", "insert_fd", "remove_name", "unlock", "free", "no_user"}
            /\ call[t].op # "send" => Phase[t] = "called"
         /\ Asked[t] = IF Phase[t] = "idle" THEN None ELSE call[t]
         /\ Told[t] = IF Phase[t] = "answered" THEN loc[t].out ELSE None
  BY DEF Phase, Asked, Told

LEMMA PhaseByPlaceNext ==
  ASSUME NEW t \in Threads
  PROVE  /\ pc'[t] = "idle" \/ call'[t].op = "send" => Phase'[t] = "idle"
         /\ pc'[t] \in {"insert_fd", "remove_name", "unlock", "free", "no_user"}
            /\ call'[t].op # "send" => Phase'[t] = "answered"
         /\ pc'[t] \notin {"idle", "insert_fd", "remove_name", "unlock", "free", "no_user"}
            /\ call'[t].op # "send" => Phase'[t] = "called"
         /\ Asked'[t] = IF Phase'[t] = "idle" THEN None ELSE call'[t]
         /\ Told'[t] = IF Phase'[t] = "answered" THEN loc'[t].out ELSE None
  BY DEF Phase, Asked, Told

LEMMA Stutters ==
  ASSUME NEW t \in Threads, OnlyMoves(t), Value' = Value, Phase'[t] = Phase[t],
         Phase[t] # "idle" => call'[t] = call[t],
         Phase[t] = "answered" => loc'[t].out = loc[t].out
  PROVE  AtomicStep
<1>1. Asked'[t] = Asked[t] /\ Told'[t] = Told[t]
  BY PhaseByPlace, PhaseByPlaceNext
<1>2. Phase' = Phase /\ Asked' = Asked /\ Told' = Told
  BY <1>1, OthersWait, OfThreads
<1> QED BY <1>2 DEF AtomicStep, Atomic!atomicVars

LEMMA Starts ==
  ASSUME NEW t \in Threads, OnlyMoves(t), Value' = Value,
         Phase[t] = "idle", Phase'[t] = "called", call'[t] \in TableCalls
  PROVE  AtomicStep
<1>1. Asked'[t] = call'[t] /\ Told'[t] = None /\ Told[t] = None
  BY PhaseByPlace, PhaseByPlaceNext
<1>2. Told' = Told
  BY <1>1, OthersWait, OfThreads
<1>3. Atomic!Start(t)
  BY <1>1, <1>2, OthersWait DEF Atomic!Start
<1> QED BY <1>3 DEF AtomicStep, Atomic!AtomicNext

LEMMA TakesEffect ==
  ASSUME NEW t \in Threads, OnlyMoves(t), Phase[t] = "called", Phase'[t] = "answered",
         call'[t] = call[t], Value' = Atomic!After(Value, call[t]),
         loc'[t].out = Atomic!Answer(Value, call[t])
  PROVE  AtomicStep
<1>1. Asked[t] = call[t] /\ Asked'[t] = call[t] /\ Told'[t] = loc'[t].out
  BY PhaseByPlace, PhaseByPlaceNext
<1>2. Asked' = Asked
  BY <1>1, OthersWait, OfThreads
<1>3. Atomic!TakeEffect(t)
  BY <1>1, <1>2, OthersWait DEF Atomic!TakeEffect
<1> QED BY <1>3 DEF AtomicStep, Atomic!AtomicNext

LEMMA Returns ==
  ASSUME NEW t \in Threads, OnlyMoves(t), Value' = Value,
         Phase[t] = "answered", Phase'[t] = "idle"
  PROVE  AtomicStep
<1>1. Asked'[t] = None /\ Told'[t] = None
  BY PhaseByPlaceNext
<1>2. Atomic!Return(t)
  BY <1>1, OthersWait DEF Atomic!Return
<1> QED BY <1>2 DEF AtomicStep, Atomic!AtomicNext

\* A step that no other thread's operation sees leaves the abstract table alone.
LEMMA ValueStays ==
  ASSUME AtomicInv, AtomicInv', NEW t \in Threads, OnlyMoves(t),
         pc[t] \notin Halfway, pc'[t] \notin Halfway, UNCHANGED << table, index >>,
         \A a \in Cells : InTable(a) => heap'[a] = heap[a]
  PROVE  Value' = Value
<1>1. ValueKnown /\ ValueKnown'
  BY ValueIsKnown, ValueStaysKnown
<1>2. \A n \in DOMAIN table : NameEntry(n)' = NameEntry(n)
  BY DEF AtomicInv, HeapInv, Typed, TableLive, InTable, NameEntry
<1>3. \A f \in DOMAIN index : heap'[index[f]] = heap[index[f]]
  BY DEF AtomicInv, HeapInv, IndexLive, InTable
<1>4. ByName' = ByName /\ ByFd' = ByFd
  BY <1>2, <1>3 DEF ByName, ByFd, NameEntry
<1>5. ASSUME NEW u \in Threads, pc[u] = "insert_fd" PROVE Value' = Value
  <2>1. pc'[u] = "insert_fd" /\ call'[u] = call[u]
    BY <1>5 DEF OnlyMoves, Halfway
  <2>2. ByFdWith(call[u].fd, call[u].name)' = ByFdWith(call[u].fd, call[u].name)
    BY <1>3, <2>1 DEF ByFdWith
  <2> QED BY <1>1, <1>4, <1>5, <2>1, <2>2 DEF ValueKnown
<1>6. ASSUME NEW u \in Threads, pc[u] = "remove_name" PROVE Value' = Value
  <2>1. pc'[u] = "remove_name" /\ call'[u] = call[u]
    BY <1>6 DEF OnlyMoves, Halfway
  <2>2. ByNameWithout(call[u].key)' = ByNameWithout(call[u].key)
    BY <1>2, <2>1 DEF ByNameWithout
  <2> QED BY <1>1, <1>4, <1>6, <2>1, <2>2 DEF ValueKnown
<1>7. ASSUME \A u \in Threads : pc[u] \notin Halfway PROVE Value' = Value
  <2>1. \A u \in Threads : pc'[u] \notin Halfway
    BY <1>7 DEF OnlyMoves
  <2> QED BY <1>1, <1>4, <1>7, <2>1 DEF ValueKnown, Whole
<1> QED BY <1>5, <1>6, <1>7 DEF Halfway

\* The thread inside the mutex sees the whole table.
LEMMA WholeInside ==
  ASSUME AtomicInv, NEW t \in Threads, Inside(t), pc[t] \notin Halfway
  PROVE  Value = Whole
<1>1. \A u \in Threads : pc[u] \notin Halfway
  BY Alone DEF AtomicInv, Inside, Halfway
<1> QED BY <1>1, ValueIsKnown DEF ValueKnown

LEMMA WholeNext ==
  ASSUME AtomicInv, AtomicInv', NEW t \in Threads, Inside(t), OnlyMoves(t), pc'[t] \notin Halfway
  PROVE  Value' = Whole'
<1>1. \A u \in Threads : pc'[u] \notin Halfway
  BY Alone DEF AtomicInv, Inside, Halfway, OnlyMoves
<1> QED BY <1>1, ValueStaysKnown DEF ValueKnown

\* A step that changes neither tables nor heap.
LEMMA ValueStaysQuiet ==
  ASSUME AtomicInv, AtomicInv', NEW t \in Threads, OnlyMoves(t), UNCHANGED heapVars,
         pc[t] \notin Halfway, pc'[t] \notin Halfway
  PROVE  Value' = Value
  BY ValueStays DEF heapVars

-----------------------------------------------------------------------------
LEMMA CallImplements ==
  ASSUME AtomicInv, AtomicInv', NEW t \in Threads, Call(t)
  PROVE  AtomicStep
<1>1. /\ pc[t] = "idle" /\ UNCHANGED << heapVars, loc >>
      /\ \E c : /\ call' = [call EXCEPT ![t] = c]
                /\ pc' = [pc EXCEPT ![t] = IF c.op = "add" THEN "malloc"
                                   ELSE IF c.op = "send" THEN "send" ELSE "lock"]
  BY DEF Call, Goto, SameHeap
<1>2. /\ OnlyMoves(t)
      /\ \/ pc'[t] \in {"malloc", "lock"} /\ call'[t].op # "send"
         \/ pc'[t] = "send" /\ call'[t].op = "send"
  BY <1>1 DEF AtomicInv, HeapInv, Typed, OnlyMoves
<1>3. Value' = Value
  BY <1>1, <1>2, ValueStaysQuiet DEF Halfway
<1>4. CASE call'[t].op = "send"
  BY <1>1, <1>2, <1>3, <1>4, PhaseByPlace, PhaseByPlaceNext, Stutters
<1>5. CASE call'[t].op # "send"
  <2>1. call'[t] \in TableCalls
    <3>1. call'[t] \in TableCalls \cup SendCalls
      BY <1>2 DEF AtomicInv, HeapInv, OpInPlace
    <3> QED BY <1>5, <3>1 DEF SendCalls
  <2> QED BY <1>1, <1>2, <1>3, <1>5, <2>1, PhaseByPlace, PhaseByPlaceNext, Starts
<1> QED BY <1>4, <1>5

LEMMA MallocImplements ==
  ASSUME AtomicInv, AtomicInv', NEW t \in Threads, Malloc(t)
  PROVE  AtomicStep
<1> DEFINE user == [name |-> call[t].name, fd |-> call[t].fd, status |-> call[t].status]
           refused == IF call[t].name \in Refused THEN FALSE ELSE None
<1>1. PICK a \in Cells :
        /\ heap[a] = None /\ heap' = [heap EXCEPT ![a] = user]
        /\ loc' = [loc EXCEPT ![t] = Locals(a, refused, {}, None, 0)]
  BY DEF Malloc
<1>2. /\ pc[t] = "malloc" /\ UNCHANGED << table, index, call >>
      /\ pc' = [pc EXCEPT ![t] = IF call[t].name \in Refused THEN "free" ELSE "lock"]
  BY DEF Malloc, Goto, SameCall
<1>3. call[t].op = "add"
  BY <1>2 DEF AtomicInv, HeapInv, OpInPlace, OpsAt
<1> HIDE DEF refused
<1>4. /\ \A b \in Cells \ {a} : heap'[b] = heap[b]
      /\ loc'[t] = Locals(a, refused, {}, None, 0) /\ OnlyMoves(t)
      /\ IF call[t].name \in Refused THEN pc'[t] = "free" ELSE pc'[t] = "lock"
  BY <1>1, <1>2 DEF AtomicInv, HeapInv, Typed, LocalsTyped, OnlyMoves
<1>5. \A b \in Cells : InTable(b) => heap'[b] = heap[b]
  BY <1>1, <1>4 DEF InTable
<1>6. Value' = Value
  BY <1>2, <1>4, <1>5, ValueStays DEF Halfway
<1>7. Phase[t] = "called"
  BY <1>2, <1>3, PhaseByPlace
<1>8. CASE call[t].name \in Refused
  <2>1. Phase'[t] = "answered" /\ loc'[t].out = FALSE
    BY <1>2, <1>3, <1>4, <1>8, PhaseByPlaceNext DEF Locals, refused
  <2>2. Atomic!After(Value, call[t]) = Value /\ Atomic!Answer(Value, call[t]) = FALSE
    BY <1>3, <1>8 DEF Atomic!After, Atomic!Answer
  <2> QED BY <1>2, <1>4, <1>6, <1>7, <2>1, <2>2, TakesEffect
<1>9. CASE call[t].name \notin Refused
  <2>1. Phase'[t] = "called"
    BY <1>2, <1>3, <1>4, <1>9, PhaseByPlaceNext
  <2> QED BY <1>2, <1>4, <1>6, <1>7, <2>1, Stutters
<1> QED BY <1>8, <1>9

LEMMA NoMemoryImplements ==
  ASSUME AtomicInv, AtomicInv', NEW t \in Threads, NoMemory(t)
  PROVE  AtomicStep
<1>1. /\ pc[t] = "malloc" /\ Returning(t, "no_user", FALSE) /\ UNCHANGED << heapVars, call >>
  BY DEF NoMemory, SameHeap, SameCall
<1>2. OnlyMoves(t) /\ pc'[t] = "no_user" /\ loc'[t].out = FALSE /\ call[t].op = "add"
  BY <1>1, ReturningMoves DEF AtomicInv, HeapInv, Places, OpInPlace, OpsAt
<1>3. Value' = Value
  BY <1>1, <1>2, ValueStaysQuiet DEF Halfway
<1>4. Phase[t] = "called" /\ Phase'[t] = "answered"
  BY <1>1, <1>2, PhaseByPlace, PhaseByPlaceNext
<1>5. Asked[t] = call[t] /\ Asked'[t] = call[t] /\ Told'[t] = FALSE
  BY <1>1, <1>2, <1>4, PhaseByPlace, PhaseByPlaceNext
<1>6. Asked' = Asked
  BY <1>2, <1>5, OthersWait, OfThreads
<1>7. Atomic!OutOfMemory(t)
  BY <1>2, <1>3, <1>4, <1>5, <1>6, OthersWait DEF Atomic!OutOfMemory
<1> QED BY <1>7 DEF AtomicStep, Atomic!AtomicNext

LEMMA GiveUpImplements ==
  ASSUME AtomicInv, AtomicInv', NEW t \in Threads, GiveUp(t)
  PROVE  AtomicStep
<1>1. pc[t] = "no_user" /\ Home(t) /\ UNCHANGED heapVars
  BY DEF GiveUp, SameHeap
<1>2. OnlyMoves(t) /\ pc'[t] = "idle" /\ call[t].op = "add"
  BY <1>1, HomeMoves DEF AtomicInv, HeapInv, OpInPlace, OpsAt
<1>3. Value' = Value
  BY <1>1, <1>2, ValueStaysQuiet DEF Halfway
<1> QED BY <1>1, <1>2, <1>3, PhaseByPlace, PhaseByPlaceNext, Returns

LEMMA FreeImplements ==
  ASSUME AtomicInv, AtomicInv', NEW t \in Threads, Free(t)
  PROVE  AtomicStep
<1>1. /\ pc[t] = "free" /\ heap' = [heap EXCEPT ![loc[t].ptr] = None] /\ Home(t)
      /\ UNCHANGED << table, index >>
  BY DEF Free
<1>2. OnlyMoves(t) /\ pc'[t] = "idle" /\ call[t].op = "add"
  BY <1>1, HomeMoves DEF AtomicInv, HeapInv, OpInPlace, OpsAt
<1>3. \A n \in DOMAIN table : table[n] # loc[t].ptr
  BY <1>1 DEF AtomicInv, HeapInv, OwnedApart, Owns
<1>4. \A a \in Cells : InTable(a) => heap'[a] = heap[a]
  BY <1>1, <1>3 DEF InTable, AtomicInv, HeapInv, Typed
<1>5. Value' = Value
  BY <1>1, <1>2, <1>4, ValueStays DEF Halfway
<1> QED BY <1>1, <1>2, <1>5, PhaseByPlace, PhaseByPlaceNext, Returns

LEMMA LockImplements ==
  ASSUME AtomicInv, AtomicInv', NEW t \in Threads, Lock(t)
  PROVE  AtomicStep
<1>1. /\ pc[t] = "lock" /\ UNCHANGED << heapVars, call >> /\ call[t].op # "send"
      /\ pc' = [pc EXCEPT ![t] = IF call[t].op = "add" THEN "contains"
                                 ELSE IF call[t].op \in {"iterate", "for_each"} THEN "pass"
                                 ELSE "look_up"]
      /\ loc' = loc \/ loc' = [loc EXCEPT ![t].out = {}]
  BY DEF Lock, Goto, SameHeap, SameCall, AtomicInv, HeapInv, OpInPlace, OpsAt
<1>2. OnlyMoves(t) /\ pc'[t] \in {"contains", "pass", "look_up"}
  BY <1>1 DEF AtomicInv, HeapInv, Typed, LocalsTyped, Locals, OnlyMoves
<1>3. Value' = Value
  BY <1>1, <1>2, ValueStaysQuiet DEF Halfway
<1>4. Phase[t] = "called" /\ Phase'[t] = "called"
  BY <1>1, <1>2, PhaseByPlace, PhaseByPlaceNext
<1> QED BY <1>1, <1>2, <1>3, <1>4, Stutters

LEMMA UnlockImplements ==
  ASSUME AtomicInv, AtomicInv', NEW t \in Threads, Unlock(t)
  PROVE  AtomicStep
<1>1. pc[t] = "unlock" /\ UNCHANGED heapVars /\ call[t].op # "send"
  BY DEF Unlock, SameHeap, AtomicInv, HeapInv, OpInPlace, OpsAt
<1>2. Phase[t] = "answered"
  BY <1>1, PhaseByPlace
<1>3. CASE MustFree(t)
  <2>1. pc' = [pc EXCEPT ![t] = "free"] /\ UNCHANGED << call, loc >>
    BY <1>3 DEF Unlock, Goto
  <2>2. OnlyMoves(t) /\ pc'[t] = "free"
    BY <2>1 DEF AtomicInv, HeapInv, Typed, OnlyMoves
  <2>3. Value' = Value
    BY <1>1, <2>2, ValueStaysQuiet DEF Halfway
  <2>4. Phase'[t] = "answered"
    BY <1>1, <2>1, <2>2, PhaseByPlaceNext
  <2> QED BY <1>2, <2>1, <2>2, <2>3, <2>4, Stutters
<1>4. CASE ~MustFree(t)
  <2>1. OnlyMoves(t) /\ pc'[t] = "idle"
    BY <1>4, HomeMoves DEF Unlock, AtomicInv, HeapInv
  <2>2. Value' = Value
    BY <1>1, <2>1, ValueStaysQuiet DEF Halfway
  <2> QED BY <1>2, <2>1, <2>2, PhaseByPlaceNext, Returns
<1> QED BY <1>3, <1>4

LEMMA ContainsImplements ==
  ASSUME AtomicInv, AtomicInv', NEW t \in Threads, Contains(t)
  PROVE  AtomicStep
<1>1. /\ pc[t] = "contains" /\ Inside(t) /\ UNCHANGED << heapVars, call >>
  BY DEF Contains, SameHeap, SameCall, Inside
<1>2. call[t].op = "add"
  BY <1>1 DEF AtomicInv, HeapInv, OpInPlace, OpsAt
<1>3. Phase[t] = "called" /\ Value = Whole
  BY <1>1, <1>2, PhaseByPlace, WholeInside DEF Halfway
<1>4. CASE call[t].name \in DOMAIN table
  <2>1. Returning(t, "unlock", FALSE)
    BY <1>4 DEF Contains
  <2>2. OnlyMoves(t) /\ pc'[t] = "unlock" /\ loc'[t].out = FALSE
    BY <1>1, <2>1, ReturningMoves DEF AtomicInv, HeapInv, Places
  <2>3. Value' = Value /\ Phase'[t] = "answered"
    BY <1>1, <1>2, <2>2, ValueStaysQuiet, PhaseByPlaceNext DEF Halfway
  <2>4. Atomic!ContainsName(Value, call[t].name)
    BY <1>3, <1>4 DEF Atomic!ContainsName, Whole, ByName
  <2>5. Atomic!After(Value, call[t]) = Value /\ Atomic!Answer(Value, call[t]) = FALSE
    BY <1>2, <2>4 DEF Atomic!After, Atomic!AddUser, Atomic!Answer
  <2> QED BY <1>1, <1>3, <2>2, <2>3, <2>5, TakesEffect
<1>5. CASE call[t].name \notin DOMAIN table
  <2>1. pc' = [pc EXCEPT ![t] = "insert"] /\ loc' = loc
    BY <1>5 DEF Contains, Goto
  <2>2. OnlyMoves(t) /\ pc'[t] = "insert"
    BY <1>1, <2>1 DEF AtomicInv, HeapInv, Typed, OnlyMoves
  <2>3. Value' = Value /\ Phase'[t] = "called"
    BY <1>1, <1>2, <2>2, ValueStaysQuiet, PhaseByPlaceNext DEF Halfway
  <2> QED BY <1>1, <1>3, <2>2, <2>3, Stutters
<1> QED BY <1>4, <1>5

\* An add takes effect when the name is in the table.
LEMMA InsertImplements ==
  ASSUME AtomicInv, AtomicInv', NEW t \in Threads, Insert(t)
  PROVE  AtomicStep
<1> DEFINE a == loc[t].ptr
           n == call[t].name
           fd == call[t].fd
<1>1. /\ pc[t] = "insert" /\ Inside(t) /\ Returning(t, "insert_fd", TRUE)
      /\ table' = Put(table, n, a) /\ UNCHANGED << index, heap, call >>
  BY DEF Insert, SameCall, Inside
<1>2. /\ n \notin DOMAIN table /\ n \notin Refused /\ call[t].op = "add"
      /\ heap[a].fd = fd /\ heap[a].status = call[t].status
  BY <1>1 DEF AtomicInv, HeapInv, OpInPlace, OpsAt, FoundUnderMutex, OwnedApart, Owns,
              Faithful, Adding
<1>3. OnlyMoves(t) /\ pc'[t] = "insert_fd" /\ loc'[t].out = TRUE
  BY <1>1, ReturningMoves DEF AtomicInv, HeapInv, Places
<1>4. Phase[t] = "called" /\ Phase'[t] = "answered" /\ Value = Whole
  BY <1>1, <1>2, <1>3, PhaseByPlace, PhaseByPlaceNext, WholeInside DEF Halfway
<1>5. Value' = [byName |-> ByName', byFd |-> ByFdWith(fd, n)']
  BY <1>1, <1>3, ValueStaysKnown DEF ValueKnown
<1> HIDE DEF a
<1>6. ByName' = [m \in DOMAIN table \cup {n} |->
                   IF m = n THEN [fd |-> fd, status |-> call[t].status] ELSE ByName[m]]
  BY <1>1, <1>2 DEF Put, ByName, NameEntry
<1>7. ByFdWith(fd, n)' = [f \in DOMAIN index \cup {fd} |-> IF f = fd THEN n ELSE ByFd[f]]
  BY <1>1 DEF ByFdWith, ByFd
<1>8. DOMAIN ByName = DOMAIN table /\ DOMAIN ByFd = DOMAIN index
  BY DEF ByName, ByFd
<1>9. /\ Atomic!After(Value, call[t]) = [byName |-> ByName', byFd |-> ByFdWith(fd, n)']
      /\ Atomic!Answer(Value, call[t]) = TRUE
  <2>1. ~Atomic!ContainsName(Whole, n) /\ Atomic!Usernames(Whole) = DOMAIN table
    BY <1>2, <1>8 DEF Atomic!ContainsName, Atomic!Usernames, Whole
  <2>2. Atomic!After(Whole, call[t]) = Atomic!AddUser(Whole, n, fd, call[t].status)
    BY <1>2 DEF Atomic!After
  <2>3. Atomic!AddUser(Whole, n, fd, call[t].status)
          = [byName |-> ByName', byFd |-> ByFdWith(fd, n)']
    BY <1>6, <1>7, <1>8, <2>1 DEF Atomic!AddUser, Whole
  <2> QED BY <1>2, <1>4, <2>1, <2>2, <2>3 DEF Atomic!Answer
<1> QED BY <1>1, <1>3, <1>4, <1>5, <1>9, TakesEffect

LEMMA InsertByFdImplements ==
  ASSUME AtomicInv, AtomicInv', NEW t \in Threads, InsertByFd(t)
  PROVE  AtomicStep
<1>1. /\ pc[t] = "insert_fd" /\ Inside(t) /\ pc' = [pc EXCEPT ![t] = "unlock"]
      /\ index' = Put(index, call[t].fd, loc[t].ptr) /\ UNCHANGED << table, heap, call, loc >>
  BY DEF InsertByFd, Goto, SameCall, Inside
<1>2. OnlyMoves(t) /\ pc'[t] = "unlock" /\ call[t].op = "add"
  BY <1>1 DEF AtomicInv, HeapInv, Typed, OnlyMoves, OpInPlace, OpsAt
<1>3. Phase[t] = "answered" /\ Phase'[t] = "answered"
  BY <1>1, <1>2, PhaseByPlace, PhaseByPlaceNext
<1>4. Value = [byName |-> ByName, byFd |-> ByFdWith(call[t].fd, call[t].name)]
  BY <1>1, ValueIsKnown DEF ValueKnown
<1>5. Value' = Whole'
  BY <1>1, <1>2, WholeNext DEF Halfway
<1>6. heap[loc[t].ptr].name = call[t].name
  BY <1>1 DEF AtomicInv, Faithful
<1>7. ByName' = ByName /\ ByFd' = ByFdWith(call[t].fd, call[t].name)
  BY <1>1, <1>6 DEF Put, ByName, NameEntry, ByFd, ByFdWith
<1> QED BY <1>1, <1>2, <1>3, <1>4, <1>5, <1>7, Stutters DEF Whole

\* What a call finds in the abstract table is what it finds in its hash table.
LEMMA FoundInTable ==
  ASSUME AtomicInv, NEW c, Value = Whole
  PROVE  /\ Atomic!Found(Value, c) <=>
              Get(IF c.by = "username" THEN table ELSE index, c.key) # None
         /\ c.by = "username" => (Atomic!ContainsName(Value, c.key) <=> Atomic!Found(Value, c))
<1>1. DOMAIN ByName = DOMAIN table /\ DOMAIN ByFd = DOMAIN index
  BY DEF ByName, ByFd
<1>2. /\ \A n \in DOMAIN table : table[n] # None
      /\ \A f \in DOMAIN index : index[f] # None
  BY HeapAssumption DEF AtomicInv, HeapInv, Typed
<1> QED BY <1>1, <1>2
        DEF Atomic!Found, Atomic!ContainsName, Atomic!ContainsFd, Get, Whole

LEMMA LookUpImplements ==
  ASSUME AtomicInv, AtomicInv', NEW t \in Threads, LookUp(t)
  PROVE  AtomicStep
<1> DEFINE found == Get(IF call[t].by = "username" THEN table ELSE index, call[t].key)
<1>1. pc[t] = "look_up" /\ Inside(t) /\ UNCHANGED << heapVars, call >>
  BY DEF LookUp, SameHeap, SameCall, Inside
<1>2. /\ call[t].op \in {"contains", "find", "change_status", "remove"}
      /\ call[t].op = "remove" => call[t].by = "username"
  BY <1>1, CallFields DEF AtomicInv, HeapInv, OpInPlace, OpsAt
<1>3. Phase[t] = "called" /\ Value = Whole
  BY <1>1, <1>2, PhaseByPlace, WholeInside DEF Halfway
<1>4. Atomic!Found(Value, call[t]) <=> found # None
  BY <1>3, FoundInTable
<1> HIDE DEF found
<1>5. ASSUME NEW out, Returning(t, "unlock", out), out = Atomic!Answer(Value, call[t]),
             Atomic!After(Value, call[t]) = Value
      PROVE  AtomicStep
  <2>1. OnlyMoves(t) /\ pc'[t] = "unlock" /\ loc'[t].out = out
    BY <1>1, <1>5, ReturningMoves DEF AtomicInv, HeapInv, Places
  <2>2. Value' = Value /\ Phase'[t] = "answered"
    BY <1>1, <1>2, <2>1, ValueStaysQuiet, PhaseByPlaceNext DEF Halfway
  <2> QED BY <1>1, <1>3, <1>5, <2>1, <2>2, TakesEffect
<1>6. CASE found = None
  <2>1. Returning(t, "unlock", FALSE)
    BY <1>6 DEF LookUp, found
  <2>2. Atomic!Answer(Value, call[t]) = FALSE
    BY <1>2, <1>4, <1>6 DEF Atomic!Answer
  <2>3. call[t].op = "remove" => ~Atomic!ContainsName(Value, call[t].key)
    BY <1>2, <1>3, <1>4, <1>6, FoundInTable
  <2>4. Atomic!After(Value, call[t]) = Value
    BY <1>2, <1>4, <1>6, <2>3 DEF Atomic!After, Atomic!RemoveUser
  <2> QED BY <1>5, <2>1, <2>2, <2>4
<1>7. CASE found # None /\ call[t].op = "contains"
  <2>1. Returning(t, "unlock", TRUE)
    BY <1>7 DEF LookUp, found
  <2>2. Atomic!Answer(Value, call[t]) = TRUE /\ Atomic!After(Value, call[t]) = Value
    BY <1>4, <1>7 DEF Atomic!Answer, Atomic!After
  <2> QED BY <1>5, <2>1, <2>2
<1>8. CASE found # None /\ call[t].op # "contains"
  <2>1. pc' = [pc EXCEPT ![t] = call[t].op] /\ loc' = [loc EXCEPT ![t].ptr = found]
    BY <1>8 DEF LookUp, Goto, found
  <2>2. OnlyMoves(t) /\ pc'[t] \in {"find", "change_status", "remove"}
    <3>1. \A u \in Threads \ {t} : loc'[u] = loc[u]
      <4>1. LocalsTyped
        BY DEF AtomicInv, HeapInv, Typed
      <4> QED BY <2>1, <4>1 DEF LocalsTyped, Locals
    <3>2. pc'[t] = call[t].op /\ \A u \in Threads \ {t} : pc'[u] = pc[u]
      BY <2>1 DEF AtomicInv, HeapInv, Typed
    <3> QED BY <1>1, <1>2, <1>8, <3>1, <3>2 DEF OnlyMoves
  <2>3. Value' = Value /\ Phase'[t] = "called"
    BY <1>1, <1>2, <2>2, ValueStaysQuiet, PhaseByPlaceNext DEF Halfway
  <2> QED BY <1>1, <1>3, <2>2, <2>3, Stutters
<1> QED BY <1>6, <1>7, <1>8

\* A user of the table, as FindByName copies it.
LEMMA CopyOfUser ==
  ASSUME AtomicInv, NEW n \in DOMAIN table
  PROVE  Atomic!FindByName(Whole, n) = heap[table[n]]
<1>1. heap[table[n]] \in Users /\ heap[table[n]].name = n
  BY DEF AtomicInv, HeapInv, Typed, TableLive
<1>2. Atomic!FindByName(Whole, n)
        = [name |-> n, fd |-> heap[table[n]].fd, status |-> heap[table[n]].status]
  BY DEF Atomic!FindByName, Whole, ByName, NameEntry
<1> QED BY <1>1, <1>2 DEF Users

\* The pointer a thread follows leads to the user that its call is about.
LEMMA FoundUser ==
  ASSUME AtomicInv, NEW t \in Threads, pc[t] \in {"find", "change_status", "remove"}
  PROVE  /\ Atomic!Found(Whole, call[t])
         /\ Atomic!FindBy(Whole, call[t]) = heap[loc[t].ptr]
         /\ heap[loc[t].ptr].name \in DOMAIN table
         /\ table[heap[loc[t].ptr].name] = loc[t].ptr
<1>1. InTable(loc[t].ptr)
  BY DEF AtomicInv, HeapInv, FoundUnderMutex
<1>2. DOMAIN ByName = DOMAIN table /\ DOMAIN ByFd = DOMAIN index
  BY DEF ByName, ByFd
<1>3. CASE call[t].by = "username"
  <2>1. heap[loc[t].ptr].name = call[t].key
    BY <1>3 DEF AtomicInv, Faithful
  <2>2. Atomic!FindByName(Whole, call[t].key) = heap[loc[t].ptr]
    BY <1>1, <2>1, CopyOfUser DEF InTable
  <2> QED BY <1>1, <1>2, <1>3, <2>1, <2>2
          DEF InTable, Atomic!Found, Atomic!FindBy, Atomic!ContainsName, Whole
<1>4. CASE call[t].by # "username"
  <2>1. call[t].key \in DOMAIN index /\ index[call[t].key] = loc[t].ptr
    BY <1>4 DEF AtomicInv, Faithful
  <2>2. Whole.byFd[call[t].key] = heap[loc[t].ptr].name
    BY <2>1 DEF Whole, ByFd
  <2>3. Atomic!FindByFd(Whole, call[t].key) = heap[loc[t].ptr]
    BY <1>1, <2>2, CopyOfUser DEF InTable, Atomic!FindByFd
  <2> QED BY <1>1, <1>2, <1>4, <2>1, <2>3
          DEF InTable, Atomic!Found, Atomic!FindBy, Atomic!ContainsFd, Whole
<1> QED BY <1>3, <1>4

LEMMA CopyImplements ==
  ASSUME AtomicInv, AtomicInv', NEW t \in Threads, Copy(t)
  PROVE  AtomicStep
<1>1. /\ pc[t] = "find" /\ Inside(t) /\ Returning(t, "unlock", heap[loc[t].ptr])
      /\ UNCHANGED << heapVars, call >>
  BY DEF Copy, SameHeap, SameCall, Inside
<1>2. /\ OnlyMoves(t) /\ pc'[t] = "unlock" /\ loc'[t].out = heap[loc[t].ptr]
      /\ call[t].op = "find"
  <2>1. call[t].op = "find"
    BY <1>1 DEF AtomicInv, HeapInv, OpInPlace, OpsAt
  <2> QED BY <1>1, <2>1, ReturningMoves DEF AtomicInv, HeapInv, Places
<1>3. Phase[t] = "called" /\ Phase'[t] = "answered" /\ Value = Whole /\ Value' = Value
  BY <1>1, <1>2, PhaseByPlace, PhaseByPlaceNext, WholeInside, ValueStaysQuiet DEF Halfway
<1>4. /\ Atomic!After(Value, call[t]) = Value
      /\ Atomic!Answer(Value, call[t]) = heap[loc[t].ptr]
  BY <1>1, <1>2, <1>3, FoundUser DEF Atomic!After, Atomic!Answer
<1> QED BY <1>1, <1>2, <1>3, <1>4, TakesEffect

LEMMA ChangeStatusImplements ==
  ASSUME AtomicInv, AtomicInv', NEW t \in Threads, ChangeStatus(t)
  PROVE  AtomicStep
<1> DEFINE a == loc[t].ptr
           name == heap[a].name
           status == call[t].status
<1>1. /\ pc[t] = "change_status" /\ Inside(t) /\ Returning(t, "unlock", TRUE)
      /\ heap' = [heap EXCEPT ![a].status = status]
      /\ UNCHANGED << table, index, call >>
  BY DEF ChangeStatus, SameCall, Inside
<1>2. /\ OnlyMoves(t) /\ pc'[t] = "unlock" /\ loc'[t].out = TRUE
      /\ call[t].op = "change_status"
  <2>1. call[t].op = "change_status"
    BY <1>1 DEF AtomicInv, HeapInv, OpInPlace, OpsAt
  <2> QED BY <1>1, <2>1, ReturningMoves DEF AtomicInv, HeapInv, Places
<1>3. Phase[t] = "called" /\ Phase'[t] = "answered" /\ Value = Whole /\ Value' = Whole'
  BY <1>1, <1>2, PhaseByPlace, PhaseByPlaceNext, WholeInside, WholeNext DEF Halfway
<1>4. InTable(a)
  BY <1>1 DEF AtomicInv, HeapInv, FoundUnderMutex
<1> HIDE DEF a
<1>5. /\ a \in Cells /\ heap[a] \in Users
      /\ heap'[a] = [name |-> heap[a].name, fd |-> heap[a].fd, status |-> status]
      /\ \A b \in Cells \ {a} : heap'[b] = heap[b]
  BY <1>1, <1>4 DEF AtomicInv, HeapInv, Typed, InTable, Users
<1>6. name \in DOMAIN table /\ table[name] = a
      /\ \A n \in DOMAIN table : table[n] \in Cells /\ (table[n] = a <=> n = name)
  BY <1>4 DEF InTable, AtomicInv, HeapInv, Typed, TableLive
<1>7. ByName' = [n \in DOMAIN table |->
                   IF n = name THEN [fd |-> ByName[n].fd, status |-> status] ELSE ByName[n]]
  <2>1. \A n \in DOMAIN table :
          /\ n = name => heap'[table[n]].fd = heap[table[n]].fd
                         /\ heap'[table[n]].status = status
          /\ n # name => heap'[table[n]] = heap[table[n]]
    BY <1>5, <1>6
  <2>2. ByName' = [n \in DOMAIN table |->
                     [fd |-> heap'[table[n]].fd, status |-> heap'[table[n]].status]]
    BY <1>1 DEF ByName, NameEntry
  <2>3. \A n \in DOMAIN table :
          ByName[n] = [fd |-> heap[table[n]].fd, status |-> heap[table[n]].status]
    BY DEF ByName, NameEntry
  <2>4. \A n \in DOMAIN table :
          [fd |-> heap'[table[n]].fd, status |-> heap'[table[n]].status]
            = IF n = name THEN [fd |-> ByName[n].fd, status |-> status] ELSE ByName[n]
    <3> SUFFICES ASSUME NEW n \in DOMAIN table
                 PROVE  [fd |-> heap'[table[n]].fd, status |-> heap'[table[n]].status]
                          = IF n = name THEN [fd |-> ByName[n].fd, status |-> status] ELSE ByName[n]
      OBVIOUS
    <3>1. CASE n = name
      <4>1. heap'[table[n]].fd = ByName[n].fd
        <5>1. heap'[table[n]].fd = heap[table[n]].fd
          BY <2>1, <3>1
        <5>2. ByName[n] = [fd |-> heap[table[n]].fd, status |-> heap[table[n]].status]
          BY <2>3
        <5>3. ByName[n].fd = heap[table[n]].fd
          BY <5>2
        <5> QED BY <5>1, <5>3
      <4>2. heap'[table[n]].status = status
        BY <2>1, <3>1
      <4> QED BY <3>1, <4>1, <4>2
    <3>2. CASE n # name
      BY <2>1, <2>3, <3>2
    <3> QED BY <3>1, <3>2
  <2> QED BY <2>2, <2>4
<1>8. ByFd' = ByFd
  <2>1. \A f \in DOMAIN index : index[f] \in Cells /\ heap'[index[f]].name = heap[index[f]].name
    BY <1>5 DEF AtomicInv, HeapInv, Typed
  <2> QED BY <1>1, <2>1 DEF ByFd
<1>9. Atomic!Found(Value, call[t]) /\ Atomic!FindBy(Value, call[t]).name = name
  BY <1>1, <1>3, FoundUser DEF a
<1>10. Atomic!WithStatus(Whole, name, status) = [byName |-> ByName', byFd |-> ByFd']
  <2>1. Atomic!Usernames(Whole) = DOMAIN table
    BY DEF Atomic!Usernames, Whole, ByName
  <2> QED BY <1>7, <1>8, <2>1 DEF Atomic!WithStatus, Whole
<1>11. /\ Atomic!After(Value, call[t]) = Whole'
       /\ Atomic!Answer(Value, call[t]) = TRUE
  BY <1>2, <1>3, <1>9, <1>10 DEF Atomic!After, Atomic!Answer, Whole
<1> QED BY <1>1, <1>2, <1>3, <1>11, TakesEffect

\* A removal takes effect when the index has forgotten the user.
LEMMA RemoveByFdImplements ==
  ASSUME AtomicInv, AtomicInv', NEW t \in Threads, RemoveByFd(t)
  PROVE  AtomicStep
<1> DEFINE a == loc[t].ptr
           n == call[t].key
<1>1. /\ pc[t] = "remove" /\ Inside(t) /\ Returning(t, "remove_name", TRUE)
      /\ index' = Drop(index, heap[a].fd) /\ UNCHANGED << table, heap, call >>
  BY DEF RemoveByFd, SameCall, Inside
<1>2. /\ OnlyMoves(t) /\ pc'[t] = "remove_name" /\ loc'[t].out = TRUE
      /\ call[t].op = "remove" /\ call[t].by = "username"
  <2>1. call[t].op = "remove" /\ call[t].by = "username"
    BY <1>1, CallFields DEF AtomicInv, HeapInv, OpInPlace, OpsAt
  <2> QED BY <1>1, <2>1, ReturningMoves DEF AtomicInv, HeapInv, Places
<1>3. Phase[t] = "called" /\ Phase'[t] = "answered" /\ Value = Whole
  BY <1>1, <1>2, PhaseByPlace, PhaseByPlaceNext, WholeInside DEF Halfway
<1>4. Value' = [byName |-> ByNameWithout(n)', byFd |-> ByFd']
  BY <1>1, <1>2, ValueStaysKnown DEF ValueKnown
<1>5. Atomic!Found(Whole, call[t]) /\ n \in DOMAIN table /\ table[n] = a
  <2>1. heap[a].name = n
    BY <1>1 DEF AtomicInv, HeapInv, FoundUnderMutex
  <2> QED BY <1>1, <2>1, FoundUser
<1> HIDE DEF a
<1>6. ByNameWithout(n)' = [m \in DOMAIN table \ {n} |-> ByName[m]]
  BY <1>1 DEF ByNameWithout, ByName, NameEntry
<1>7. ByFd' = [f \in DOMAIN index \ {heap[a].fd} |-> ByFd[f]]
  BY <1>1 DEF Drop, ByFd
<1>8. DOMAIN ByName = DOMAIN table /\ DOMAIN ByFd = DOMAIN index /\ ByName[n].fd = heap[a].fd
  BY <1>5 DEF ByName, ByFd, NameEntry
<1>9. Atomic!RemoveUser(Whole, n) = [byName |-> ByNameWithout(n)', byFd |-> ByFd']
  BY <1>5, <1>6, <1>7, <1>8
  DEF Atomic!RemoveUser, Atomic!ContainsName, Atomic!Usernames, Whole
<1>10. /\ Atomic!After(Value, call[t]) = Value'
       /\ Atomic!Answer(Value, call[t]) = TRUE
  BY <1>2, <1>3, <1>4, <1>5, <1>9 DEF Atomic!After, Atomic!Answer
<1> QED BY <1>1, <1>2, <1>3, <1>10, TakesEffect

LEMMA RemoveByNameImplements ==
  ASSUME AtomicInv, AtomicInv', NEW t \in Threads, RemoveByName(t)
  PROVE  AtomicStep
<1> DEFINE n == call[t].key
           a == table[n]
<1>1. /\ pc[t] = "remove_name" /\ Inside(t) /\ pc' = [pc EXCEPT ![t] = "unlock"]
      /\ heap' = [heap EXCEPT ![a] = None] /\ table' = Drop(table, n)
      /\ UNCHANGED << index, call, loc >>
  BY DEF RemoveByName, Goto, SameCall, Inside
<1>2. OnlyMoves(t) /\ pc'[t] = "unlock" /\ call[t].op = "remove"
  BY <1>1 DEF AtomicInv, HeapInv, Typed, OnlyMoves, OpInPlace, OpsAt
<1>3. Phase[t] = "answered" /\ Phase'[t] = "answered"
  BY <1>1, <1>2, PhaseByPlace, PhaseByPlaceNext
<1>4. /\ Value = [byName |-> ByNameWithout(n), byFd |-> ByFd]
      /\ Value' = [byName |-> ByName', byFd |-> ByFd']
  BY <1>1, <1>2, ValueIsKnown, WholeNext DEF ValueKnown, Whole, Halfway
<1>5. /\ n \in DOMAIN table /\ \A f \in DOMAIN index : index[f] \in Cells \ {a}
      /\ \A m \in DOMAIN table \ {n} : table[m] \in Cells \ {a}
  BY <1>1 DEF AtomicInv, HeapInv, Typed, TableLive, FoundUnderMutex
<1> HIDE DEF a
<1>6. \A b \in Cells \ {a} : heap'[b] = heap[b]
  BY <1>1 DEF AtomicInv, HeapInv, Typed
<1>7. ByName' = ByNameWithout(n) /\ ByFd' = ByFd
  <2>1. DOMAIN table' = DOMAIN table \ {n} /\ \A m \in DOMAIN table' : table'[m] = table[m]
    BY <1>1 DEF Drop
  <2> QED BY <1>1, <1>5, <1>6, <2>1 DEF ByName, ByNameWithout, NameEntry, ByFd
<1> QED BY <1>1, <1>2, <1>3, <1>4, <1>7, Stutters

LEMMA PassImplements ==
  ASSUME AtomicInv, AtomicInv', NEW t \in Threads, Pass(t)
  PROVE  AtomicStep
<1>1. PICK n \in DOMAIN table \ loc[t].passed :
        /\ loc' = [loc EXCEPT ![t] = Locals(table[n], loc[t].out \cup {heap[table[n]]},
                                            loc[t].passed \cup {n}, heap[table[n]].fd, 0)]
        /\ Goto(t, IF call[t].op = "for_each" /\ heap[table[n]].fd # call[t].skip
                   THEN "send" ELSE "pass")
  BY DEF Pass
<1>2. /\ pc[t] = "pass" /\ UNCHANGED << heapVars, call >> /\ call[t].op # "send"
  BY DEF Pass, SameHeap, SameCall, AtomicInv, HeapInv, OpInPlace, OpsAt
<1>3. OnlyMoves(t) /\ pc'[t] \in {"pass", "send"}
  BY <1>1, <1>2 DEF AtomicInv, HeapInv, Typed, LocalsTyped, Goto, OnlyMoves
<1>4. Value' = Value /\ Phase[t] = "called" /\ Phase'[t] = "called"
  BY <1>2, <1>3, ValueStaysQuiet, PhaseByPlace, PhaseByPlaceNext DEF Halfway
<1> QED BY <1>2, <1>3, <1>4, Stutters

\* An iteration has copied all the users of the table.
LEMMA PassedAllImplements ==
  ASSUME AtomicInv, AtomicInv', NEW t \in Threads, PassedAll(t)
  PROVE  AtomicStep
<1>1. /\ pc[t] = "pass" /\ Inside(t) /\ pc' = [pc EXCEPT ![t] = "unlock"]
      /\ UNCHANGED << heapVars, call, loc >> /\ DOMAIN table \subseteq loc[t].passed
  BY DEF PassedAll, Goto, SameHeap, SameCall, Inside
<1>2. OnlyMoves(t) /\ pc'[t] = "unlock" /\ call[t].op \in {"iterate", "for_each"}
  BY <1>1 DEF AtomicInv, HeapInv, Typed, OnlyMoves, OpInPlace, OpsAt
<1>3. Phase[t] = "called" /\ Phase'[t] = "answered" /\ Value = Whole /\ Value' = Value
  BY <1>1, <1>2, PhaseByPlace, PhaseByPlaceNext, WholeInside, ValueStaysQuiet DEF Halfway
<1>4. loc[t].out = {heap[table[n]] : n \in DOMAIN table}
  BY <1>1 DEF AtomicInv, Faithful, Iterating
<1>5. Atomic!UsersOf(Whole) = loc[t].out
  <2>1. Atomic!Usernames(Whole) = DOMAIN table
    BY DEF Atomic!Usernames, Whole, ByName
  <2> QED BY <1>4, <2>1, CopyOfUser DEF Atomic!UsersOf
<1>6. /\ Atomic!After(Value, call[t]) = Value
      /\ Atomic!Answer(Value, call[t]) = loc'[t].out
  BY <1>1, <1>2, <1>3, <1>5 DEF Atomic!After, Atomic!Answer
<1> QED BY <1>1, <1>2, <1>3, <1>6, TakesEffect

LEMMA SendImplements ==
  ASSUME AtomicInv, AtomicInv', NEW t \in Threads, Send(t)
  PROVE  AtomicStep
<1>1. /\ pc[t] = "send" /\ UNCHANGED heapVars /\ call[t].op \in {"for_each", "send"}
  BY DEF Send, AtomicInv, HeapInv, OpInPlace, OpsAt
<1>2. \/ /\ pc'[t] \in {"send", "pass"} /\ call'[t] = call[t]
         /\ pc'[t] = "send" \/ call[t].op # "send"
      \/ pc'[t] = "idle" /\ call[t].op = "send"
  BY <1>1 DEF Send, Home, Goto, AtomicInv, HeapInv, Typed
<1>3. OnlyMoves(t)
  <2>1. LocalsTyped
    BY DEF AtomicInv, HeapInv, Typed
  <2>2. \A u \in Threads \ {t} : loc'[u] = loc[u]
    BY <2>1 DEF Send, Home, LocalsTyped, Locals
  <2> QED BY <2>2 DEF Send, Home, Goto, OnlyMoves, AtomicInv, HeapInv, Typed
<1>4. Value' = Value
  BY <1>1, <1>2, <1>3, ValueStaysQuiet DEF Halfway
<1>5. CASE call[t].op = "send"
  BY <1>1, <1>2, <1>3, <1>4, <1>5, PhaseByPlace, PhaseByPlaceNext, Stutters
<1>6. CASE call[t].op = "for_each"
  BY <1>1, <1>2, <1>3, <1>4, <1>6, PhaseByPlace, PhaseByPlaceNext, Stutters
<1> QED BY <1>1, <1>5, <1>6

-----------------------------------------------------------------------------
LEMMA AtomicInitImplements == Init => Atomic!AtomicInit
<1> SUFFICES ASSUME Init PROVE Atomic!AtomicInit
  OBVIOUS
<1>1. Phase = [t \in Threads |-> "idle"]
  BY DEF Init, Phase
<1>2. Asked = [t \in Threads |-> None] /\ Told = [t \in Threads |-> None]
  BY <1>1 DEF Asked, Told
<1>3. Value = Atomic!EmptyTable
  <2>1. Unindexed = {} /\ HalfRemoved = {} /\ DOMAIN table = {} /\ DOMAIN index = {}
    BY DEF Init, Unindexed, HalfRemoved
  <2>2. Value.byName = << >> /\ Value.byFd = << >>
    BY <2>1 DEF Value
  <2> QED BY <2>2 DEF Value, Atomic!EmptyTable
<1> QED BY <1>1, <1>2, <1>3 DEF Atomic!AtomicInit

LEMMA StepImplements == AtomicInv /\ AtomicInv' /\ [Next]_vars => AtomicStep
<1> SUFFICES ASSUME AtomicInv, AtomicInv', [Next]_vars PROVE AtomicStep
  OBVIOUS
<1>1. ASSUME NEW t \in Threads, Thread(t) PROVE AtomicStep
  BY <1>1, CallImplements, MallocImplements, NoMemoryImplements, GiveUpImplements,
     FreeImplements, LockImplements, UnlockImplements, ContainsImplements,
     InsertImplements, InsertByFdImplements, LookUpImplements, CopyImplements,
     ChangeStatusImplements, RemoveByFdImplements, RemoveByNameImplements, PassImplements,
     PassedAllImplements, SendImplements DEF Thread
<1>2. ASSUME UNCHANGED << heapVars, call, pc, loc >> PROVE AtomicStep
  <2>1. Phase' = Phase
    BY <1>2 DEF Phase
  <2>2. Asked' = Asked /\ Told' = Told
    BY <1>2, <2>1 DEF Asked, Told
  <2>3. Value' = Value
    BY <1>2 DEF Value, Unindexed, HalfRemoved, heapVars
  <2> QED BY <2>1, <2>2, <2>3 DEF AtomicStep, Atomic!atomicVars
<1> QED BY <1>1, <1>2 DEF Next, Read, Finished, vars, heapVars

(* Every operation of users_table.c takes effect at one instant between its call
   and its return, and answers what the table was at that instant: the functions
   of UsersTable, which ChatServer takes the operations for, are what any thread
   observes, however many threads there are and whatever they call.         *)
THEOREM TableIsAtomicHolds == Spec => TableIsAtomic
<1>1. AtomicInv /\ AtomicInv' /\ [Next]_vars => [Atomic!AtomicNext]_(Atomic!atomicVars)
  BY StepImplements DEF AtomicStep
<1> QED BY <1>1, AtomicInitImplements, AtomicInvariance, PTL
        DEF Spec, TableIsAtomic, Atomic!AtomicSafety

=============================================================================
