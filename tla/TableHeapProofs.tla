-------------------------- MODULE TableHeapProofs --------------------------
(***************************************************************************)
(* users_table.c keeps its pointers sound: at most one thread is inside the   *)
(* mutex, and no table and no thread is left with a pointer to a user that    *)
(* was freed, for any number of threads, users and cells of the heap.  The    *)
(* same mutex keeps broadcasts in one order.                                 *)
(***************************************************************************)
EXTENDS TableHeap, SequenceTheorems, TLAPS

Places == {"idle", "malloc", "no_user", "lock", "unlock", "free", "contains", "insert",
           "insert_fd", "look_up", "find", "change_status", "remove", "remove_name",
           "pass", "send"}

LocalsTyped ==
  loc = [t \in Threads |->
           Locals(loc[t].ptr, loc[t].out, loc[t].passed, loc[t].fd, loc[t].part)]
Typed ==
  /\ \A n \in DOMAIN table : table[n] \in Cells
  /\ \A f \in DOMAIN index : index[f] \in Cells
  /\ heap \in [Cells -> Users \cup {None}]
  /\ made \in [Threads -> Nat]
  /\ call \in [Threads -> TableCalls \cup SendCalls \cup {None}]
  /\ pc \in [Threads -> Places]
  /\ LocalsTyped

\* The operations a thread may be in at a place.
OpsAt(place) ==
  IF place \in {"malloc", "no_user", "free", "contains", "insert", "insert_fd"} THEN {"add"}
  ELSE IF place = "look_up" THEN {"contains", "find", "change_status", "remove"}
  ELSE IF place \in {"find", "change_status"} THEN {place}
  ELSE IF place \in {"remove", "remove_name"} THEN {"remove"}
  ELSE IF place = "pass" THEN {"iterate", "for_each"}
  ELSE IF place = "send" THEN {"for_each", "send"}
  ELSE {"add", "contains", "find", "change_status", "remove", "iterate", "for_each"}
OpInPlace(t) ==
  IF pc[t] = "idle" THEN call[t] = None
  ELSE call[t] \in TableCalls \cup SendCalls /\ call[t].op \in OpsAt(pc[t])

\* Between Lock and Unlock.
Inside(t) ==
  \/ pc[t] \in {"contains", "insert", "insert_fd", "look_up", "find", "change_status",
                "remove", "remove_name", "pass", "unlock"}
  \/ At(t, "for_each", "send")
MutualExclusion == \A t \in Threads : Inside(t) => holder = t

\* The cell of a user of the table, under its own name.
InTable(a) ==
  /\ a \in Cells /\ heap[a] # None
  /\ heap[a].name \in DOMAIN table
  /\ table[heap[a].name] = a
TableLive == \A n \in DOMAIN table : heap[table[n]] # None /\ heap[table[n]].name = n
IndexLive == \A f \in DOMAIN index : InTable(index[f]) /\ heap[index[f]].fd = f

\* What a thread made and still owns is its own user, and nobody else's.
OwnedApart(t) ==
  \A a \in Owns(t) :
    /\ a \in Cells /\ heap[a] # None
    /\ heap[a].name = call[t].name /\ heap[a].fd = call[t].fd
    /\ \A n \in DOMAIN table : table[n] # a
    /\ \A u \in Threads \ {t} : a \notin Owns(u)

\* What a thread found under the mutex stays true while it holds it.
FoundUnderMutex(t) ==
  /\ pc[t] \in {"find", "change_status", "remove"} \/ At(t, "for_each", "send")
       => InTable(loc[t].ptr)
  /\ pc[t] = "remove" => heap[loc[t].ptr].name = call[t].key
  /\ pc[t] = "insert" => call[t].name \notin DOMAIN table
  /\ pc[t] = "insert_fd" => /\ InTable(loc[t].ptr) /\ heap[loc[t].ptr].fd = call[t].fd
                            /\ loc[t].out = TRUE
  /\ pc[t] = "remove_name" => /\ call[t].key \in DOMAIN table
                              /\ \A f \in DOMAIN index : index[f] # table[call[t].key]

HeapInv ==
  /\ Typed /\ MutualExclusion /\ TableLive /\ IndexLive
  /\ \A t \in Threads : OpInPlace(t) /\ OwnedApart(t) /\ FoundUnderMutex(t)

-----------------------------------------------------------------------------
\* What a call carries, by its operation.
LEMMA CallFields ==
  ASSUME NEW c \in TableCalls \cup SendCalls
  PROVE  /\ c.op \in {"add", "contains", "find", "change_status", "remove", "iterate",
                      "for_each", "send"}
         /\ c.op = "add" => c.name \in Names /\ c.fd \in Fds /\ c.status \in Statuses
         /\ c.op = "change_status" => c.status \in Statuses
         /\ c.op = "remove" => c.by = "username"
  BY DEF TableCalls, SendCalls, Lookups

\* The locals of a thread that changes its own and nobody else's.
OnlyMoves(t) ==
  \A u \in Threads \ {t} : pc'[u] = pc[u] /\ call'[u] = call[u] /\ loc'[u] = loc[u]

LEMMA OthersStay ==
  ASSUME NEW t \in Threads, OnlyMoves(t)
  PROVE  \A u \in Threads \ {t} :
           /\ Owns(u)' = Owns(u) /\ Inside(u)' = Inside(u)
           /\ OpInPlace(u)' = OpInPlace(u)
  BY DEF OnlyMoves, Owns, Inside, OpInPlace, At

(* A step that leaves tables and heap alone keeps the invariant if the thread
   that makes it owns no more than before and has found what it says.       *)
LEMMA QuietKeeps ==
  ASSUME HeapInv, NEW t \in Threads, OnlyMoves(t), UNCHANGED heapVars,
         Typed', MutualExclusion', OpInPlace(t)', FoundUnderMutex(t)',
         Owns(t)' = {} \/ (Owns(t)' \subseteq Owns(t) /\ call'[t] = call[t])
  PROVE  HeapInv'
<1>1. TableLive' /\ IndexLive'
  BY DEF HeapInv, TableLive, IndexLive, InTable, heapVars
<1>2. ASSUME NEW u \in Threads \ {t} PROVE OwnedApart(u)' /\ FoundUnderMutex(u)'
  <2>1. OwnedApart(u)'
    BY OthersStay DEF HeapInv, OwnedApart, heapVars, OnlyMoves
  <2>2. FoundUnderMutex(u)'
    BY DEF HeapInv, FoundUnderMutex, InTable, At, heapVars, OnlyMoves
  <2> QED BY <2>1, <2>2
<1>3. OwnedApart(t)'
  BY OthersStay DEF HeapInv, OwnedApart, heapVars
<1> QED BY <1>1, <1>2, <1>3, OthersStay DEF HeapInv

\* A thread that neither enters nor leaves the mutex.
LEMMA SameHolder ==
  ASSUME MutualExclusion, NEW t \in Threads, OnlyMoves(t), holder' = holder,
         Inside(t)' => Inside(t)
  PROVE  MutualExclusion'
  BY OthersStay DEF MutualExclusion

\* A thread inside the mutex is there alone.
LEMMA Alone ==
  ASSUME HeapInv, NEW t \in Threads, Inside(t), NEW u \in Threads \ {t}
  PROVE  ~Inside(u)
  BY DEF HeapInv, MutualExclusion

\* A thread that enters the mutex when nobody is in it, or leaves it.
LEMMA MutexChanges ==
  ASSUME HeapInv, NEW t \in Threads, OnlyMoves(t),
         \/ holder = None /\ holder' = t
         \/ Inside(t) /\ ~Inside(t)'
  PROVE  MutualExclusion'
<1>1. ASSUME NEW u \in Threads \ {t} PROVE ~Inside(u)
  BY <1>1, HeapAssumption, Alone DEF HeapInv, MutualExclusion
<1>2. \A u \in Threads \ {t} : ~Inside(u)'
  BY <1>1, OthersStay
<1> QED BY <1>2 DEF MutualExclusion

\* What Returning and Home do to the thread that returns.
LEMMA ReturningMoves ==
  ASSUME Typed, NEW t \in Threads, NEW place \in Places, NEW out, Returning(t, place, out),
         call' = call
  PROVE  /\ OnlyMoves(t) /\ LocalsTyped' /\ pc' \in [Threads -> Places]
         /\ pc'[t] = place /\ loc'[t].out = out /\ loc'[t].ptr = loc[t].ptr
<1>1. pc' = [pc EXCEPT ![t] = place] /\ loc' = [loc EXCEPT ![t].out = out]
  BY DEF Returning, Goto
<1>2. /\ loc'[t] = Locals(loc[t].ptr, out, loc[t].passed, loc[t].fd, loc[t].part)
      /\ \A u \in Threads \ {t} : loc'[u] = loc[u]
      /\ loc' = [u \in Threads |-> loc'[u]]
  BY <1>1 DEF Typed, LocalsTyped, Locals
<1>3. LocalsTyped'
  BY <1>2 DEF Typed, LocalsTyped, Locals
<1>4. /\ pc' \in [Threads -> Places] /\ pc'[t] = place
      /\ \A u \in Threads \ {t} : pc'[u] = pc[u]
  BY <1>1 DEF Typed
<1> QED BY <1>2, <1>3, <1>4 DEF OnlyMoves, Locals

LEMMA HomeMoves ==
  ASSUME Typed, NEW t \in Threads, Home(t)
  PROVE  /\ OnlyMoves(t) /\ LocalsTyped' /\ pc' \in [Threads -> Places]
         /\ call' \in [Threads -> TableCalls \cup SendCalls \cup {None}]
         /\ pc'[t] = "idle" /\ OpInPlace(t)' /\ Owns(t)' = {} /\ FoundUnderMutex(t)'
         /\ ~Inside(t)'
<1>1. /\ OnlyMoves(t) /\ pc'[t] = "idle" /\ call'[t] = None
  BY DEF Typed, Home, Goto, OnlyMoves, LocalsTyped
<1>2. LocalsTyped' /\ pc' \in [Threads -> Places]
      /\ call' \in [Threads -> TableCalls \cup SendCalls \cup {None}]
  BY DEF Typed, Home, Goto, LocalsTyped, Locals, Fresh, Places
<1>3. OpInPlace(t)' /\ Owns(t)' = {} /\ FoundUnderMutex(t)' /\ ~Inside(t)'
  BY <1>1 DEF OpInPlace, Owns, FoundUnderMutex, Inside, At
<1> QED BY <1>1, <1>2, <1>3

-----------------------------------------------------------------------------
\* The steps that touch neither the tables nor the heap.

LEMMA CallKeeps ==
  ASSUME HeapInv, NEW t \in Threads, Call(t)
  PROVE  HeapInv'
<1>1. PICK c \in Menu[t][made[t] + 1] :
        /\ call' = [call EXCEPT ![t] = c]
        /\ Goto(t, IF c.op = "add" THEN "malloc" ELSE IF c.op = "send" THEN "send" ELSE "lock")
  BY DEF Call
<1>2. c \in TableCalls \cup SendCalls
  <2>1. Menu[t] \in Seq(SUBSET (TableCalls \cup SendCalls))
    BY HeapAssumption
  <2>2. made[t] + 1 \in 1..Len(Menu[t])
    BY <2>1, LenProperties DEF Call, HeapInv, Typed
  <2>3. Menu[t][made[t] + 1] \subseteq TableCalls \cup SendCalls
    BY <2>1, <2>2, ElementOfSeq
  <2> QED BY <1>1, <2>3
<1>3. /\ pc[t] = "idle" /\ holder' = holder /\ loc' = loc /\ UNCHANGED heapVars
      /\ made' = [made EXCEPT ![t] = @ + 1]
      /\ pc' = [pc EXCEPT ![t] = IF c.op = "add" THEN "malloc"
                                   ELSE IF c.op = "send" THEN "send" ELSE "lock"]
  BY <1>1 DEF Call, Goto, SameHeap
<1>4. OnlyMoves(t)
  BY <1>1, <1>3 DEF HeapInv, Typed, OnlyMoves
<1>5. Typed'
  <2>1. call' \in [Threads -> TableCalls \cup SendCalls \cup {None}]
    BY <1>1, <1>2 DEF HeapInv, Typed
  <2>2. LocalsTyped'
    BY <1>3 DEF HeapInv, Typed, LocalsTyped, Locals
  <2>3. made' \in [Threads -> Nat] /\ pc' \in [Threads -> Places]
    BY <1>3 DEF HeapInv, Typed, Places
  <2> QED BY <1>3, <2>1, <2>2, <2>3 DEF HeapInv, Typed, heapVars
<1>6. call'[t] = c /\ c # None
  BY <1>1, <1>2, HeapAssumption DEF HeapInv, Typed
<1>7. \/ pc'[t] = "malloc" /\ c.op = "add"
      \/ pc'[t] = "send" /\ c.op = "send"
      \/ pc'[t] = "lock" /\ c.op \notin {"add", "send"}
  BY <1>3 DEF HeapInv, Typed
<1>8. OpInPlace(t)'
  BY <1>2, <1>6, <1>7, CallFields DEF OpInPlace, OpsAt
<1>9. ~Inside(t)' /\ FoundUnderMutex(t)' /\ Owns(t)' = {}
  BY <1>6, <1>7 DEF Inside, FoundUnderMutex, Owns, At
<1>10. MutualExclusion'
  BY <1>3, <1>4, <1>9, SameHolder DEF HeapInv
<1> QED BY <1>3, <1>4, <1>5, <1>8, <1>9, <1>10, QuietKeeps

LEMMA NoMemoryKeeps ==
  ASSUME HeapInv, NEW t \in Threads, NoMemory(t)
  PROVE  HeapInv'
<1>1. /\ pc[t] = "malloc" /\ Returning(t, "no_user", FALSE)
      /\ UNCHANGED << heapVars, holder, made, call >>
  BY DEF NoMemory, SameHeap, SameCall
<1>2. OnlyMoves(t) /\ pc'[t] = "no_user" /\ Typed'
  BY <1>1, ReturningMoves DEF HeapInv, Typed, heapVars, Places
<1>3. OpInPlace(t)' /\ ~Inside(t)' /\ FoundUnderMutex(t)' /\ Owns(t)' = {}
  BY <1>1, <1>2 DEF HeapInv, OpInPlace, OpsAt, Inside, FoundUnderMutex, Owns, At
<1>4. MutualExclusion'
  BY <1>1, <1>2, <1>3, SameHolder DEF HeapInv
<1> QED BY <1>1, <1>2, <1>3, <1>4, QuietKeeps

LEMMA GiveUpKeeps ==
  ASSUME HeapInv, NEW t \in Threads, GiveUp(t)
  PROVE  HeapInv'
<1>1. Home(t) /\ UNCHANGED << heapVars, holder, made >>
  BY DEF GiveUp, SameHeap
<1>2. Typed'
  BY <1>1, HomeMoves DEF HeapInv, Typed, heapVars
<1>3. MutualExclusion'
  BY <1>1, HomeMoves, SameHolder DEF HeapInv
<1> QED BY <1>1, <1>2, <1>3, HomeMoves, QuietKeeps DEF HeapInv

LEMMA LockKeeps ==
  ASSUME HeapInv, NEW t \in Threads, Lock(t)
  PROVE  HeapInv'
<1>1. /\ pc[t] = "lock" /\ holder = None /\ holder' = t
      /\ pc' = [pc EXCEPT ![t] = IF call[t].op = "add" THEN "contains"
                                 ELSE IF call[t].op \in {"iterate", "for_each"} THEN "pass"
                                 ELSE "look_up"]
      /\ loc' = loc \/ loc' = [loc EXCEPT ![t].out = {}]
      /\ UNCHANGED << heapVars, made, call >>
  BY DEF Lock, MayLock, Goto, SameHeap, SameCall
<1>2. OnlyMoves(t) /\ Typed' /\ loc'[t].ptr = loc[t].ptr
  BY <1>1 DEF HeapInv, Typed, LocalsTyped, Locals, OnlyMoves, Places, heapVars
<1>3. \/ pc'[t] = "contains" /\ call[t].op = "add"
      \/ pc'[t] = "pass" /\ call[t].op \in {"iterate", "for_each"}
      \/ pc'[t] = "look_up" /\ call[t].op \notin {"add", "iterate", "for_each"}
  BY <1>1 DEF HeapInv, Typed
<1>4. OpInPlace(t)'
  BY <1>1, <1>3 DEF HeapInv, OpInPlace, OpsAt
<1>5. FoundUnderMutex(t)' /\ (Owns(t)' = {} \/ Owns(t)' = Owns(t))
  BY <1>1, <1>2, <1>3 DEF FoundUnderMutex, Owns, At
<1>6. MutualExclusion'
  BY <1>1, <1>2, MutexChanges
<1> QED BY <1>1, <1>2, <1>4, <1>5, <1>6, QuietKeeps

LEMMA UnlockKeeps ==
  ASSUME HeapInv, NEW t \in Threads, Unlock(t)
  PROVE  HeapInv'
<1>1. /\ pc[t] = "unlock" /\ Inside(t) /\ UNCHANGED << heapVars, made >>
  BY DEF Unlock, SameHeap, Inside
<1>2. CASE MustFree(t)
  <2>1. pc' = [pc EXCEPT ![t] = "free"] /\ UNCHANGED << call, loc >>
    BY <1>2 DEF Unlock, Goto
  <2>2. OnlyMoves(t) /\ pc'[t] = "free" /\ Typed'
    BY <1>1, <2>1 DEF HeapInv, Typed, LocalsTyped, Locals, OnlyMoves, Places, heapVars
  <2>3. OpInPlace(t)'
    BY <1>1, <1>2, <2>1, <2>2 DEF HeapInv, OpInPlace, OpsAt, MustFree
  <2>4. ~Inside(t)' /\ FoundUnderMutex(t)'
    BY <2>2 DEF Inside, FoundUnderMutex, At
  <2>5. Owns(t)' = Owns(t)
    BY <1>1, <1>2, <2>1, <2>2 DEF Owns, At, MustFree
  <2>6. MutualExclusion'
    BY <1>1, <2>2, <2>4, MutexChanges
  <2> QED BY <1>1, <2>1, <2>2, <2>3, <2>4, <2>5, <2>6, QuietKeeps
<1>3. CASE ~MustFree(t)
  <2>1. Home(t)
    BY <1>3 DEF Unlock
  <2>2. Typed'
    BY <1>1, <2>1, HomeMoves DEF HeapInv, Typed, heapVars
  <2>3. MutualExclusion'
    BY <1>1, <2>1, HomeMoves, MutexChanges DEF HeapInv
  <2> QED BY <1>1, <2>1, <2>2, <2>3, HomeMoves, QuietKeeps DEF HeapInv
<1> QED BY <1>2, <1>3

LEMMA ContainsKeeps ==
  ASSUME HeapInv, NEW t \in Threads, Contains(t)
  PROVE  HeapInv'
<1>1. /\ pc[t] = "contains" /\ Inside(t)
      /\ UNCHANGED << heapVars, holder, made, call >>
  BY DEF Contains, SameHeap, SameCall, Inside
<1>2. call[t].op = "add"
  BY <1>1 DEF HeapInv, OpInPlace, OpsAt
<1>3. CASE call[t].name \in DOMAIN table
  <2>1. Returning(t, "unlock", FALSE)
    BY <1>3 DEF Contains
  <2>2. OnlyMoves(t) /\ pc'[t] = "unlock" /\ loc'[t].ptr = loc[t].ptr /\ Typed'
    BY <1>1, <2>1, ReturningMoves DEF HeapInv, Typed, heapVars, Places
  <2>3. OpInPlace(t)' /\ FoundUnderMutex(t)'
    BY <1>1, <1>2, <2>2 DEF HeapInv, OpInPlace, OpsAt, FoundUnderMutex, At
  <2>4. Owns(t)' \subseteq Owns(t)
    BY <1>1, <2>2 DEF Owns
  <2>5. MutualExclusion'
    BY <1>1, <2>2, SameHolder DEF HeapInv
  <2> QED BY <1>1, <2>2, <2>3, <2>4, <2>5, QuietKeeps
<1>4. CASE call[t].name \notin DOMAIN table
  <2>1. pc' = [pc EXCEPT ![t] = "insert"] /\ loc' = loc
    BY <1>4 DEF Contains, Goto
  <2>2. OnlyMoves(t) /\ pc'[t] = "insert" /\ Typed'
    BY <1>1, <2>1 DEF HeapInv, Typed, LocalsTyped, Locals, OnlyMoves, heapVars, Places
  <2>3. OpInPlace(t)' /\ FoundUnderMutex(t)'
    BY <1>1, <1>2, <1>4, <2>2 DEF HeapInv, OpInPlace, OpsAt, FoundUnderMutex, At, heapVars
  <2>4. Owns(t)' \subseteq Owns(t)
    BY <1>1, <2>1, <2>2 DEF Owns
  <2>5. MutualExclusion'
    BY <1>1, <2>2, SameHolder DEF HeapInv
  <2> QED BY <1>1, <2>2, <2>3, <2>4, <2>5, QuietKeeps
<1> QED BY <1>3, <1>4

\* A user found by a name or a descriptor is in the table.
LEMMA LookUpKeeps ==
  ASSUME HeapInv, NEW t \in Threads, LookUp(t)
  PROVE  HeapInv'
<1> DEFINE found == Get(IF call[t].by = "username" THEN table ELSE index, call[t].key)
<1>1. /\ pc[t] = "look_up" /\ Inside(t)
      /\ UNCHANGED << heapVars, holder, made, call >>
  BY DEF LookUp, SameHeap, SameCall, Inside
<1>2. /\ call[t].op \in {"contains", "find", "change_status", "remove"}
      /\ call[t] \in TableCalls \cup SendCalls
  BY <1>1 DEF HeapInv, OpInPlace, OpsAt
<1>3. ASSUME NEW out, Returning(t, "unlock", out)
      PROVE  HeapInv'
  <2>1. OnlyMoves(t) /\ pc'[t] = "unlock" /\ loc'[t].ptr = loc[t].ptr /\ Typed'
    BY <1>1, <1>3, ReturningMoves DEF HeapInv, Typed, heapVars, Places
  <2>2. OpInPlace(t)' /\ FoundUnderMutex(t)' /\ Owns(t)' = {}
    BY <1>1, <1>2, <2>1 DEF HeapInv, OpInPlace, OpsAt, FoundUnderMutex, Owns, At
  <2>3. MutualExclusion'
    BY <1>1, <2>1, SameHolder DEF HeapInv
  <2> QED BY <1>1, <2>1, <2>2, <2>3, QuietKeeps
<1>4. CASE found # None /\ call[t].op # "contains"
  <2>1. pc' = [pc EXCEPT ![t] = call[t].op] /\ loc' = [loc EXCEPT ![t].ptr = found]
    BY <1>4 DEF LookUp, Goto
  <2>2. OnlyMoves(t) /\ pc'[t] = call[t].op /\ loc'[t].ptr = found /\ Typed'
    <3> HIDE DEF found
    <3>1. /\ loc'[t] = Locals(found, loc[t].out, loc[t].passed, loc[t].fd, loc[t].part)
          /\ \A u \in Threads \ {t} : loc'[u] = loc[u]
          /\ loc' = [u \in Threads |-> loc'[u]]
      BY <2>1, SMTT(20) DEF HeapInv, Typed, LocalsTyped, Locals
    <3>2. LocalsTyped' /\ loc'[t].ptr = found
      BY <3>1 DEF HeapInv, Typed, LocalsTyped, Locals
    <3>3. pc' \in [Threads -> Places] /\ pc'[t] = call[t].op
          /\ \A u \in Threads \ {t} : pc'[u] = pc[u]
      <4>1. call[t].op \in Places
        BY <1>2, <1>4 DEF Places
      <4> QED BY <2>1, <4>1 DEF HeapInv, Typed
    <3> QED BY <1>1, <3>1, <3>2, <3>3 DEF HeapInv, Typed, OnlyMoves, heapVars
  <2>3. InTable(found)
    BY <1>4 DEF Get, HeapInv, Typed, TableLive, IndexLive, InTable
  <2>4. call[t].op = "remove" => heap[found].name = call[t].key
    BY <1>2, <1>4, CallFields DEF Get, HeapInv, TableLive
  <2>5. OpInPlace(t)'
    <3>1. pc'[t] \in {"find", "change_status", "remove"} /\ call'[t] = call[t]
      BY <1>1, <1>2, <1>4, <2>2
    <3> QED BY <1>2, <2>2, <3>1 DEF OpInPlace, OpsAt
  <2>6. FoundUnderMutex(t)' /\ Owns(t)' = {}
    BY <1>1, <1>2, <1>4, <2>2, <2>3, <2>4 DEF FoundUnderMutex, InTable, Owns, At, heapVars
  <2>7. MutualExclusion'
    BY <1>1, <2>2, SameHolder DEF HeapInv
  <2> QED BY <1>1, <2>2, <2>5, <2>6, <2>7, QuietKeeps
<1> QED BY <1>3, <1>4 DEF LookUp

LEMMA CopyKeeps ==
  ASSUME HeapInv, NEW t \in Threads, Copy(t)
  PROVE  HeapInv'
<1>1. /\ pc[t] = "find" /\ Inside(t) /\ Returning(t, "unlock", heap[loc[t].ptr])
      /\ UNCHANGED << heapVars, holder, made, call >>
  BY DEF Copy, SameHeap, SameCall, Inside
<1>2. call[t].op = "find" /\ call[t] \in TableCalls \cup SendCalls
  BY <1>1 DEF HeapInv, OpInPlace, OpsAt
<1>3. OnlyMoves(t) /\ pc'[t] = "unlock" /\ Typed'
  BY <1>1, ReturningMoves DEF HeapInv, Typed, heapVars, Places
<1>4. OpInPlace(t)' /\ FoundUnderMutex(t)' /\ Owns(t)' = {}
  BY <1>1, <1>2, <1>3 DEF OpInPlace, OpsAt, FoundUnderMutex, Owns, At
<1>5. MutualExclusion'
  BY <1>1, <1>3, SameHolder DEF HeapInv
<1> QED BY <1>1, <1>3, <1>4, <1>5, QuietKeeps

\* The user an iteration has come to is in the table.
LEMMA PassKeeps ==
  ASSUME HeapInv, NEW t \in Threads, Pass(t)
  PROVE  HeapInv'
<1>1. PICK n \in DOMAIN table \ loc[t].passed :
        /\ loc' = [loc EXCEPT ![t] = Locals(table[n], loc[t].out \cup {heap[table[n]]},
                                            loc[t].passed \cup {n}, heap[table[n]].fd, 0)]
        /\ Goto(t, IF call[t].op = "for_each" /\ heap[table[n]].fd # call[t].skip
                   THEN "send" ELSE "pass")
  BY DEF Pass
<1>2. /\ pc[t] = "pass" /\ Inside(t)
      /\ UNCHANGED << heapVars, holder, made, call >>
  BY DEF Pass, SameHeap, SameCall, Inside
<1>3. call[t].op \in {"iterate", "for_each"} /\ call[t] \in TableCalls \cup SendCalls
  BY <1>2 DEF HeapInv, OpInPlace, OpsAt
<1>4. /\ loc'[t] = Locals(table[n], loc[t].out \cup {heap[table[n]]},
                          loc[t].passed \cup {n}, heap[table[n]].fd, 0)
      /\ \A u \in Threads \ {t} : loc'[u] = loc[u]
      /\ loc' = [u \in Threads |-> loc'[u]]
  BY <1>1 DEF HeapInv, Typed, LocalsTyped, Locals
<1>5. LocalsTyped' /\ loc'[t].ptr = table[n]
  BY <1>4 DEF HeapInv, Typed, LocalsTyped, Locals
<1>6. /\ pc' \in [Threads -> Places]
      /\ \A u \in Threads \ {t} : pc'[u] = pc[u]
      /\ pc'[t] = "pass" \/ (pc'[t] = "send" /\ call[t].op = "for_each")
  BY <1>1 DEF HeapInv, Typed, Goto, Places
<1>7. OnlyMoves(t) /\ Typed'
  BY <1>2, <1>4, <1>5, <1>6 DEF HeapInv, Typed, OnlyMoves, heapVars
<1>8. OpInPlace(t)'
  BY <1>2, <1>3, <1>6 DEF OpInPlace, OpsAt
<1>9. InTable(table[n])
  BY DEF HeapInv, Typed, TableLive, InTable
<1>10. FoundUnderMutex(t)' /\ Owns(t)' = {}
  BY <1>2, <1>5, <1>6, <1>9 DEF FoundUnderMutex, InTable, Owns, At, heapVars
<1>11. MutualExclusion'
  BY <1>2, <1>7, SameHolder DEF HeapInv
<1> QED BY <1>2, <1>7, <1>8, <1>10, <1>11, QuietKeeps

LEMMA PassedAllKeeps ==
  ASSUME HeapInv, NEW t \in Threads, PassedAll(t)
  PROVE  HeapInv'
<1>1. /\ pc[t] = "pass" /\ Inside(t) /\ pc' = [pc EXCEPT ![t] = "unlock"]
      /\ UNCHANGED << heapVars, holder, made, call, loc >>
  BY DEF PassedAll, Goto, SameHeap, SameCall, Inside
<1>2. call[t].op \in {"iterate", "for_each"} /\ call[t] \in TableCalls \cup SendCalls
  BY <1>1 DEF HeapInv, OpInPlace, OpsAt
<1>3. OnlyMoves(t) /\ pc'[t] = "unlock" /\ Typed'
  BY <1>1 DEF HeapInv, Typed, LocalsTyped, Locals, OnlyMoves, Places, heapVars
<1>4. OpInPlace(t)' /\ FoundUnderMutex(t)' /\ Owns(t)' = {}
  BY <1>1, <1>2, <1>3 DEF OpInPlace, OpsAt, FoundUnderMutex, Owns, At
<1>5. MutualExclusion'
  BY <1>1, <1>3, SameHolder DEF HeapInv
<1> QED BY <1>1, <1>3, <1>4, <1>5, QuietKeeps

\* A send blocks and is cut in pieces; the mutex, if it is held, stays held.
LEMMA SendKeeps ==
  ASSUME HeapInv, NEW t \in Threads, Send(t)
  PROVE  HeapInv'
<1>1. pc[t] = "send" /\ UNCHANGED << heapVars, holder, made >>
  BY DEF Send
<1>2. call[t].op \in {"for_each", "send"} /\ call[t] \in TableCalls \cup SendCalls
  BY <1>1 DEF HeapInv, OpInPlace, OpsAt
<1>3. CASE loc' = [loc EXCEPT ![t].part = loc[t].part + 1] /\ UNCHANGED << pc, call >>
  <2>1. OnlyMoves(t) /\ LocalsTyped' /\ loc'[t].ptr = loc[t].ptr
    <3>1. /\ loc'[t] = Locals(loc[t].ptr, loc[t].out, loc[t].passed, loc[t].fd, loc[t].part + 1)
          /\ \A u \in Threads \ {t} : loc'[u] = loc[u]
          /\ loc' = [u \in Threads |-> loc'[u]]
      BY <1>3 DEF HeapInv, Typed, LocalsTyped, Locals
    <3>2. LocalsTyped' /\ loc'[t].ptr = loc[t].ptr
      BY <3>1 DEF LocalsTyped, Locals, HeapInv, Typed
    <3> QED BY <1>3, <3>1, <3>2 DEF OnlyMoves
  <2>2. Typed'
    BY <1>1, <1>3, <2>1 DEF HeapInv, Typed, heapVars
  <2>3. OpInPlace(t)' /\ FoundUnderMutex(t)' /\ Owns(t)' = {}
    BY <1>1, <1>3, <2>1 DEF HeapInv, OpInPlace, FoundUnderMutex, InTable, Owns, At, heapVars
  <2>4. MutualExclusion'
    BY <1>1, <1>3, <2>1, SameHolder DEF HeapInv, Inside, At
  <2> QED BY <1>1, <2>1, <2>2, <2>3, <2>4, QuietKeeps
<1>4. CASE Home(t) /\ call[t].op = "send"
  <2>1. Typed'
    BY <1>1, <1>4, HomeMoves DEF HeapInv, Typed, heapVars
  <2>2. MutualExclusion'
    BY <1>1, <1>4, HomeMoves, SameHolder DEF HeapInv
  <2> QED BY <1>1, <1>4, <2>1, <2>2, HomeMoves, QuietKeeps DEF HeapInv
<1>5. CASE /\ pc' = [pc EXCEPT ![t] = "pass"] /\ UNCHANGED call
           /\ loc' = [loc EXCEPT ![t] = Locals(loc[t].ptr, loc[t].out, loc[t].passed, None, 0)]
           /\ call[t].op # "send"
  <2>1. /\ loc'[t] = Locals(loc[t].ptr, loc[t].out, loc[t].passed, None, 0)
        /\ \A u \in Threads \ {t} : loc'[u] = loc[u]
        /\ loc' = [u \in Threads |-> loc'[u]]
    BY <1>5 DEF HeapInv, Typed, LocalsTyped, Locals
  <2>2. LocalsTyped'
    BY <2>1 DEF HeapInv, Typed, LocalsTyped, Locals
  <2>3. OnlyMoves(t) /\ pc'[t] = "pass" /\ Typed'
    BY <1>1, <1>5, <2>1, <2>2 DEF HeapInv, Typed, OnlyMoves, Places, heapVars
  <2>4. OpInPlace(t)' /\ FoundUnderMutex(t)' /\ Owns(t)' = {}
    BY <1>1, <1>2, <1>5, <2>3 DEF OpInPlace, OpsAt, FoundUnderMutex, Owns, At
  <2>5. MutualExclusion'
    BY <1>1, <1>2, <1>5, <2>3, SameHolder DEF HeapInv, Inside, At
  <2> QED BY <1>1, <1>5, <2>3, <2>4, <2>5, QuietKeeps
<1> QED BY <1>3, <1>4, <1>5 DEF Send, Goto

-----------------------------------------------------------------------------
(* The steps that change the heap.  A new user is in a cell that nobody points
   to.                                                                      *)
LEMMA MallocKeeps ==
  ASSUME HeapInv, NEW t \in Threads, Malloc(t)
  PROVE  HeapInv'
<1> DEFINE user == [name |-> call[t].name, fd |-> call[t].fd, status |-> call[t].status]
           place == IF call[t].name \in Refused THEN "free" ELSE "lock"
           out == IF call[t].name \in Refused THEN FALSE ELSE None
<1>1. PICK a \in Cells :
        /\ heap[a] = None /\ heap' = [heap EXCEPT ![a] = user]
        /\ loc' = [loc EXCEPT ![t] = Locals(a, out, {}, None, 0)]
  BY DEF Malloc
<1>2. /\ pc[t] = "malloc" /\ pc' = [pc EXCEPT ![t] = place]
      /\ UNCHANGED << table, index, holder, made, call >>
  BY DEF Malloc, Goto, SameCall
<1>3. call[t] \in TableCalls \cup SendCalls /\ call[t].op = "add"
  BY <1>2 DEF HeapInv, OpInPlace, OpsAt
<1>4. user \in Users /\ user # None
  BY <1>3, CallFields, HeapAssumption DEF Users
<1> HIDE DEF user, out
<1>5. /\ heap'[a] = user /\ \A b \in Cells \ {a} : heap'[b] = heap[b]
      /\ heap' \in [Cells -> Users \cup {None}]
  BY <1>1, <1>4 DEF HeapInv, Typed
<1>6. loc'[t] = Locals(a, out, {}, None, 0) /\ \A u \in Threads \ {t} : loc'[u] = loc[u]
  BY <1>1 DEF HeapInv, Typed, LocalsTyped
<1>7. LocalsTyped'
  BY <1>1, <1>6 DEF HeapInv, Typed, LocalsTyped, Locals
<1>8. pc'[t] \in {"free", "lock"} /\ OnlyMoves(t)
  BY <1>2, <1>6 DEF HeapInv, Typed, OnlyMoves
<1>9. Typed'
  BY <1>2, <1>5, <1>7 DEF HeapInv, Typed, Places
<1>10. MutualExclusion'
  BY <1>2, <1>8, SameHolder DEF HeapInv, Inside, At
<1>11. \A b \in Cells : InTable(b) => b # a /\ InTable(b)' /\ heap'[b] = heap[b]
  BY <1>1, <1>2, <1>5 DEF InTable
<1>12. TableLive' /\ IndexLive'
  <2>1. \A n \in DOMAIN table : InTable(table[n])
    BY DEF HeapInv, Typed, TableLive, InTable
  <2>2. TableLive'
    BY <1>2, <1>11, <2>1 DEF HeapInv, TableLive, InTable
  <2>3. IndexLive'
    BY <1>2, <1>11 DEF HeapInv, Typed, IndexLive
  <2> QED BY <2>2, <2>3
<1>13. OpInPlace(t)' /\ FoundUnderMutex(t)'
  BY <1>2, <1>3, <1>8 DEF OpInPlace, OpsAt, FoundUnderMutex, At
<1>14. Owns(t)' \subseteq {a}
  BY <1>6 DEF Owns, Locals
<1>15. \A u \in Threads : a \notin Owns(u)
  BY <1>1 DEF HeapInv, OwnedApart
<1>16. \A n \in DOMAIN table : table[n] # a
  BY <1>1 DEF HeapInv, TableLive
<1>17. OwnedApart(t)'
  <2>1. \A u \in Threads \ {t} : a \notin Owns(u)'
    BY <1>8, <1>15, OthersStay
  <2>2. heap'[a].name = call'[t].name /\ heap'[a].fd = call'[t].fd
    BY <1>2, <1>5 DEF user
  <2> QED BY <1>2, <1>4, <1>5, <1>14, <1>16, <2>1, <2>2 DEF OwnedApart
<1>18. ASSUME NEW u \in Threads \ {t}
       PROVE  OpInPlace(u)' /\ OwnedApart(u)' /\ FoundUnderMutex(u)'
  <2>1. Owns(u)' = Owns(u) /\ OpInPlace(u)'
    BY <1>8, OthersStay DEF HeapInv
  <2>2. OwnedApart(u)'
    <3>1. ASSUME NEW b \in Owns(u) PROVE heap'[b] = heap[b] /\ b \notin Owns(t)'
      BY <1>5, <1>14, <1>15, <3>1 DEF HeapInv, OwnedApart
    <3>2. \A w \in Threads \ {u} : \A b \in Owns(u) : b \notin Owns(w)'
      BY <1>8, <3>1, OthersStay DEF HeapInv, OwnedApart
    <3> QED BY <1>2, <2>1, <3>1, <3>2, <1>8 DEF HeapInv, OwnedApart, OnlyMoves
  <2>3. FoundUnderMutex(u)'
    BY <1>2, <1>8, <1>11 DEF HeapInv, FoundUnderMutex, OnlyMoves, At, InTable
  <2> QED BY <2>1, <2>2, <2>3
<1> QED BY <1>9, <1>10, <1>12, <1>13, <1>17, <1>18 DEF HeapInv

\* Only a user that is in no table is freed by the thread that made it.
LEMMA FreeKeeps ==
  ASSUME HeapInv, NEW t \in Threads, Free(t)
  PROVE  HeapInv'
<1> DEFINE a == loc[t].ptr
<1>1. /\ pc[t] = "free" /\ heap' = [heap EXCEPT ![a] = None] /\ Home(t)
      /\ UNCHANGED << table, index, holder, made >>
  BY DEF Free
<1>2. /\ a \in Owns(t) /\ a \in Cells /\ heap[a] # None
      /\ \A n \in DOMAIN table : table[n] # a
      /\ \A u \in Threads \ {t} : a \notin Owns(u)
  BY <1>1 DEF HeapInv, OwnedApart, Owns
<1> HIDE DEF a
<1>3. /\ \A b \in Cells \ {a} : heap'[b] = heap[b]
      /\ heap' \in [Cells -> Users \cup {None}]
  BY <1>1, <1>2 DEF HeapInv, Typed
<1>4. Typed'
  BY <1>1, <1>3, HomeMoves DEF HeapInv, Typed
<1>5. MutualExclusion'
  BY <1>1, HomeMoves, SameHolder DEF HeapInv
<1>6. \A b \in Cells : InTable(b) => InTable(b)' /\ heap'[b] = heap[b]
  BY <1>1, <1>2, <1>3 DEF InTable
<1>7. TableLive' /\ IndexLive'
  <2>1. \A n \in DOMAIN table : InTable(table[n])
    BY DEF HeapInv, Typed, TableLive, InTable
  <2>2. TableLive'
    BY <1>1, <1>6, <2>1 DEF HeapInv, TableLive, InTable
  <2>3. IndexLive'
    BY <1>1, <1>6 DEF HeapInv, Typed, IndexLive
  <2> QED BY <2>2, <2>3
<1>8. OpInPlace(t)' /\ FoundUnderMutex(t)' /\ OwnedApart(t)'
  BY <1>1, HomeMoves DEF HeapInv, OwnedApart
<1>9. ASSUME NEW u \in Threads \ {t}
      PROVE  OpInPlace(u)' /\ OwnedApart(u)' /\ FoundUnderMutex(u)'
  <2>1. /\ OnlyMoves(t) /\ Owns(t)' = {}
        /\ \A w \in Threads \ {t} : Owns(w)' = Owns(w) /\ OpInPlace(w)'
    BY <1>1, HomeMoves, OthersStay DEF HeapInv
  <2>2. OwnedApart(u)'
    BY <1>1, <1>2, <1>3, <2>1 DEF HeapInv, OwnedApart, OnlyMoves
  <2>3. FoundUnderMutex(u)'
    BY <1>1, <1>6, <2>1 DEF HeapInv, FoundUnderMutex, OnlyMoves, At, InTable
  <2> QED BY <2>1, <2>2, <2>3
<1> QED BY <1>4, <1>5, <1>7, <1>8, <1>9 DEF HeapInv

\* The others are outside while a thread is inside, so they rely on nothing.
LEMMA OthersRelyOnNothing ==
  ASSUME HeapInv, NEW t \in Threads, Inside(t), OnlyMoves(t), NEW u \in Threads \ {t}
  PROVE  OpInPlace(u)' /\ FoundUnderMutex(u)' /\ Owns(u)' = Owns(u) /\ call'[u] = call[u]
<1>1. ~Inside(u)'
  BY Alone, OthersStay
<1> QED BY <1>1, OthersStay DEF HeapInv, FoundUnderMutex, Inside, OnlyMoves, At

\* The user a thread made passes to the table.
LEMMA InsertKeeps ==
  ASSUME HeapInv, NEW t \in Threads, Insert(t)
  PROVE  HeapInv'
<1> DEFINE a == loc[t].ptr
           n == call[t].name
<1>1. /\ pc[t] = "insert" /\ Inside(t) /\ Returning(t, "insert_fd", TRUE)
      /\ table' = Put(table, n, a)
      /\ UNCHANGED << index, heap, holder, made, call >>
  BY DEF Insert, SameCall, Inside
<1>2. call[t].op = "add" /\ n \notin DOMAIN table /\ a \in Owns(t)
  BY <1>1 DEF HeapInv, OpInPlace, OpsAt, FoundUnderMutex, Owns
<1>3. /\ a \in Cells /\ heap[a] # None /\ heap[a].name = n /\ heap[a].fd = call[t].fd
      /\ \A m \in DOMAIN table : table[m] # a
      /\ \A u \in Threads \ {t} : a \notin Owns(u)
  BY <1>2 DEF HeapInv, OwnedApart
<1>4. OnlyMoves(t) /\ pc'[t] = "insert_fd" /\ loc'[t].ptr = a /\ loc'[t].out = TRUE
      /\ LocalsTyped' /\ pc' \in [Threads -> Places]
  BY <1>1, ReturningMoves DEF HeapInv, Places
<1> HIDE DEF a, n
<1>5. /\ DOMAIN table' = DOMAIN table \cup {n} /\ table'[n] = a
      /\ \A m \in DOMAIN table : table'[m] = table[m]
  BY <1>1, <1>2 DEF Put
<1>6. Typed'
  BY <1>1, <1>3, <1>4, <1>5 DEF HeapInv, Typed
<1>7. MutualExclusion'
  BY <1>1, <1>4, SameHolder DEF HeapInv
<1>8. TableLive' /\ IndexLive' /\ InTable(loc[t].ptr)'
  <2>1. TableLive'
    BY <1>1, <1>3, <1>5 DEF HeapInv, TableLive
  <2>2. IndexLive'
    BY <1>1, <1>5 DEF HeapInv, IndexLive, InTable
  <2>3. InTable(loc[t].ptr)'
    BY <1>1, <1>3, <1>4, <1>5 DEF InTable
  <2> QED BY <2>1, <2>2, <2>3
<1>9. OpInPlace(t)' /\ Owns(t)' = {}
  BY <1>1, <1>2, <1>4 DEF HeapInv, OpInPlace, OpsAt, Owns, At
<1>10. FoundUnderMutex(t)' /\ OwnedApart(t)'
  BY <1>1, <1>3, <1>4, <1>8, <1>9 DEF FoundUnderMutex, OwnedApart, At
<1>11. ASSUME NEW u \in Threads \ {t} PROVE OwnedApart(u)'
  BY <1>1, <1>3, <1>4, <1>5, <1>9, OthersRelyOnNothing DEF HeapInv, OwnedApart
<1> QED BY <1>1, <1>4, <1>6, <1>7, <1>8, <1>9, <1>10, <1>11, OthersRelyOnNothing DEF HeapInv

\* The table leaves the heap alone while the index changes.
LEMMA IndexStepKeeps ==
  ASSUME HeapInv, NEW t \in Threads, Inside(t), OnlyMoves(t),
         UNCHANGED << table, heap, holder, call >>,
         Typed', IndexLive', Inside(t)', OpInPlace(t)', FoundUnderMutex(t)', Owns(t)' = {}
  PROVE  HeapInv'
<1>1. TableLive' /\ MutualExclusion'
  BY SameHolder DEF HeapInv, TableLive
<1>2. OwnedApart(t)'
  BY DEF OwnedApart
<1>3. ASSUME NEW u \in Threads \ {t} PROVE OwnedApart(u)'
  BY OthersRelyOnNothing DEF HeapInv, OwnedApart
<1> QED BY <1>1, <1>2, <1>3, OthersRelyOnNothing DEF HeapInv

LEMMA InsertByFdKeeps ==
  ASSUME HeapInv, NEW t \in Threads, InsertByFd(t)
  PROVE  HeapInv'
<1>1. /\ pc[t] = "insert_fd" /\ Inside(t) /\ pc' = [pc EXCEPT ![t] = "unlock"]
      /\ index' = Put(index, call[t].fd, loc[t].ptr)
      /\ UNCHANGED << table, heap, holder, made, call, loc >>
  BY DEF InsertByFd, Goto, SameCall, Inside
<1>2. InTable(loc[t].ptr) /\ heap[loc[t].ptr].fd = call[t].fd /\ call[t].op = "add"
      /\ call[t] \in TableCalls \cup SendCalls
  BY <1>1 DEF HeapInv, OpInPlace, OpsAt, FoundUnderMutex
<1>3. OnlyMoves(t) /\ pc'[t] = "unlock" /\ LocalsTyped' /\ pc' \in [Threads -> Places]
  BY <1>1 DEF HeapInv, Typed, LocalsTyped, OnlyMoves, Places
<1>4. /\ DOMAIN index' = DOMAIN index \cup {call[t].fd}
      /\ \A f \in DOMAIN index' :
           index'[f] = IF f = call[t].fd THEN loc[t].ptr ELSE index[f]
  BY <1>1 DEF Put
<1>5. Typed' /\ IndexLive'
  <2>1. \A f \in DOMAIN index' :
          index'[f] \in Cells /\ InTable(index'[f]) /\ heap[index'[f]].fd = f
    BY <1>2, <1>4 DEF HeapInv, IndexLive, InTable
  <2>2. Typed'
    BY <1>1, <1>3, <2>1 DEF HeapInv, Typed
  <2>3. IndexLive'
    BY <1>1, <2>1 DEF IndexLive, InTable
  <2> QED BY <2>2, <2>3
<1>6. Inside(t)' /\ OpInPlace(t)' /\ FoundUnderMutex(t)'
  BY <1>1, <1>2, <1>3 DEF Inside, OpInPlace, OpsAt, FoundUnderMutex, At
<1>7. Owns(t)' = {}
  BY <1>1, <1>3 DEF HeapInv, FoundUnderMutex, Owns, At
<1> QED BY <1>1, <1>3, <1>5, <1>6, <1>7, IndexStepKeeps

\* The descriptor of a user that is about to be removed leads to nobody.
LEMMA RemoveByFdKeeps ==
  ASSUME HeapInv, NEW t \in Threads, RemoveByFd(t)
  PROVE  HeapInv'
<1> DEFINE a == loc[t].ptr
<1>1. /\ pc[t] = "remove" /\ Inside(t) /\ Returning(t, "remove_name", TRUE)
      /\ index' = Drop(index, heap[a].fd)
      /\ UNCHANGED << table, heap, holder, made, call >>
  BY DEF RemoveByFd, SameCall, Inside
<1>2. /\ InTable(a) /\ heap[a].name = call[t].key
      /\ call[t].op = "remove" /\ call[t] \in TableCalls \cup SendCalls
  BY <1>1 DEF HeapInv, OpInPlace, OpsAt, FoundUnderMutex
<1>3. OnlyMoves(t) /\ pc'[t] = "remove_name" /\ LocalsTyped' /\ pc' \in [Threads -> Places]
  BY <1>1, ReturningMoves DEF HeapInv, Places
<1> HIDE DEF a
<1>4. /\ DOMAIN index' = DOMAIN index \ {heap[a].fd}
      /\ \A f \in DOMAIN index' : index'[f] = index[f]
  BY <1>1 DEF Drop
<1>5. Typed' /\ IndexLive'
  BY <1>1, <1>3, <1>4 DEF HeapInv, Typed, IndexLive, InTable
<1>6. Inside(t)' /\ OpInPlace(t)' /\ Owns(t)' = {}
  BY <1>1, <1>2, <1>3 DEF Inside, OpInPlace, OpsAt, Owns, At
<1>7. FoundUnderMutex(t)'
  <2>1. call[t].key \in DOMAIN table /\ table[call[t].key] = a
    BY <1>2 DEF InTable
  <2>2. \A f \in DOMAIN index' : index'[f] # a
    BY <1>4 DEF HeapInv, IndexLive
  <2> QED BY <1>1, <1>3, <2>1, <2>2 DEF FoundUnderMutex, At
<1> QED BY <1>1, <1>3, <1>5, <1>6, <1>7, IndexStepKeeps

LEMMA RemoveByNameKeeps ==
  ASSUME HeapInv, NEW t \in Threads, RemoveByName(t)
  PROVE  HeapInv'
<1> DEFINE n == call[t].key
           a == table[n]
<1>1. /\ pc[t] = "remove_name" /\ Inside(t) /\ pc' = [pc EXCEPT ![t] = "unlock"]
      /\ heap' = [heap EXCEPT ![a] = None] /\ table' = Drop(table, n)
      /\ UNCHANGED << index, holder, made, call, loc >>
  BY DEF RemoveByName, Goto, SameCall, Inside
<1>2. /\ n \in DOMAIN table /\ \A f \in DOMAIN index : index[f] # a
      /\ call[t].op = "remove" /\ call[t] \in TableCalls \cup SendCalls
  BY <1>1 DEF HeapInv, OpInPlace, OpsAt, FoundUnderMutex
<1>3. OnlyMoves(t) /\ pc'[t] = "unlock" /\ LocalsTyped' /\ pc' \in [Threads -> Places]
  BY <1>1 DEF HeapInv, Typed, LocalsTyped, OnlyMoves, Places
<1>4. a \in Cells /\ heap[a].name = n
  BY <1>2 DEF HeapInv, Typed, TableLive
<1> HIDE DEF a, n
<1>5. /\ DOMAIN table' = DOMAIN table \ {n}
      /\ \A m \in DOMAIN table' : table'[m] = table[m]
      /\ heap' \in [Cells -> Users \cup {None}]
      /\ \A b \in Cells \ {a} : heap'[b] = heap[b]
  BY <1>1, <1>4 DEF HeapInv, Typed, Drop
<1>6. Typed'
  BY <1>1, <1>3, <1>5 DEF HeapInv, Typed
<1>7. MutualExclusion'
  BY <1>1, <1>3, SameHolder DEF HeapInv
<1>8. \A m \in DOMAIN table' : table'[m] # a
  BY <1>4, <1>5 DEF HeapInv, TableLive
<1>9. TableLive'
  BY <1>5, <1>8 DEF HeapInv, Typed, TableLive
<1>10. \A b \in Cells \ {a} : InTable(b) => InTable(b)'
  BY <1>4, <1>5, a = table[n] DEF InTable, a
<1>11. IndexLive'
  BY <1>1, <1>2, <1>5, <1>10 DEF HeapInv, Typed, IndexLive
<1>12. OpInPlace(t)' /\ Owns(t)' = {} /\ FoundUnderMutex(t)'
  BY <1>1, <1>2, <1>3 DEF OpInPlace, OpsAt, Owns, FoundUnderMutex, At
<1>13. ASSUME NEW u \in Threads \ {t} PROVE OwnedApart(u)'
  <2>1. a \notin Owns(u)
    BY <1>2 DEF HeapInv, OwnedApart, a
  <2> QED BY <1>1, <1>3, <1>5, <1>12, <2>1, OthersRelyOnNothing DEF HeapInv, OwnedApart
<1> QED BY <1>1, <1>3, <1>6, <1>7, <1>9, <1>11, <1>12, <1>13, OthersRelyOnNothing
        DEF HeapInv, OwnedApart

\* A status changes in place.
LEMMA ChangeStatusKeeps ==
  ASSUME HeapInv, NEW t \in Threads, ChangeStatus(t)
  PROVE  HeapInv'
<1> DEFINE a == loc[t].ptr
<1>1. /\ pc[t] = "change_status" /\ Inside(t) /\ Returning(t, "unlock", TRUE)
      /\ heap' = [heap EXCEPT ![a].status = call[t].status]
      /\ UNCHANGED << table, index, holder, made, call >>
  BY DEF ChangeStatus, SameCall, Inside
<1>2. /\ InTable(a) /\ call[t].op = "change_status"
      /\ call[t] \in TableCalls \cup SendCalls /\ call[t].status \in Statuses
  BY <1>1, CallFields DEF HeapInv, OpInPlace, OpsAt, FoundUnderMutex
<1>3. OnlyMoves(t) /\ pc'[t] = "unlock" /\ LocalsTyped' /\ pc' \in [Threads -> Places]
  BY <1>1, ReturningMoves DEF HeapInv, Places
<1> HIDE DEF a
<1>4. /\ a \in Cells /\ heap[a] \in Users
      /\ heap'[a] = [name |-> heap[a].name, fd |-> heap[a].fd, status |-> call[t].status]
      /\ \A b \in Cells \ {a} : heap'[b] = heap[b]
  BY <1>1, <1>2 DEF HeapInv, Typed, InTable, Users
<1>5. heap' \in [Cells -> Users \cup {None}] /\ heap'[a] # None
  <2>1. heap'[a] \in Users
    BY <1>2, <1>4 DEF Users
  <2> QED BY <1>1, <1>4, <2>1, HeapAssumption DEF HeapInv, Typed
<1>6. \A b \in Cells : heap[b] # None =>
        heap'[b] # None /\ heap'[b].name = heap[b].name /\ heap'[b].fd = heap[b].fd
  BY <1>4, <1>5
<1>7. Typed'
  BY <1>1, <1>3, <1>5 DEF HeapInv, Typed
<1>8. MutualExclusion'
  BY <1>1, <1>3, SameHolder DEF HeapInv
<1>9. TableLive' /\ IndexLive'
  BY <1>1, <1>6 DEF HeapInv, Typed, TableLive, IndexLive, InTable
<1>10. OpInPlace(t)' /\ Owns(t)' = {} /\ FoundUnderMutex(t)'
  BY <1>1, <1>2, <1>3 DEF OpInPlace, OpsAt, Owns, FoundUnderMutex, At
<1>11. ASSUME NEW u \in Threads \ {t} PROVE OwnedApart(u)'
  BY <1>1, <1>3, <1>6, <1>10, OthersRelyOnNothing DEF HeapInv, OwnedApart
<1> QED BY <1>1, <1>3, <1>7, <1>8, <1>9, <1>10, <1>11, OthersRelyOnNothing
        DEF HeapInv, OwnedApart

-----------------------------------------------------------------------------
LEMMA HeapInit == Init => HeapInv
  BY HeapAssumption
  DEF Init, HeapInv, Typed, LocalsTyped, Locals, Fresh, Places, MutualExclusion, Inside, At,
      TableLive, IndexLive, OpInPlace, OwnedApart, Owns, FoundUnderMutex

LEMMA HeapStepKeeps == HeapInv /\ [Next]_vars => HeapInv'
<1> SUFFICES ASSUME HeapInv, [Next]_vars PROVE HeapInv'
  OBVIOUS
<1>1. ASSUME NEW t \in Threads, Thread(t) PROVE HeapInv'
  BY <1>1, CallKeeps, MallocKeeps, NoMemoryKeeps, GiveUpKeeps, FreeKeeps, LockKeeps,
     UnlockKeeps, ContainsKeeps, InsertKeeps, InsertByFdKeeps, LookUpKeeps, CopyKeeps,
     ChangeStatusKeeps, RemoveByFdKeeps, RemoveByNameKeeps, PassKeeps, PassedAllKeeps,
     SendKeeps DEF Thread
<1>2. ASSUME UNCHANGED << heapVars, holder, made, call, pc, loc >> PROVE HeapInv'
  <2>1. Typed' /\ MutualExclusion' /\ TableLive' /\ IndexLive'
    BY <1>2 DEF HeapInv, Typed, LocalsTyped, MutualExclusion, Inside, At, TableLive,
         IndexLive, InTable, heapVars
  <2>2. ASSUME NEW t \in Threads PROVE OpInPlace(t)' /\ OwnedApart(t)' /\ FoundUnderMutex(t)'
    <3>1. \A u \in Threads : Owns(u)' = Owns(u)
      BY <1>2 DEF Owns, At
    <3>2. OpInPlace(t)' /\ FoundUnderMutex(t)'
      BY <1>2 DEF HeapInv, OpInPlace, FoundUnderMutex, InTable, At, heapVars
    <3>3. OwnedApart(t)'
      BY <1>2, <3>1 DEF HeapInv, OwnedApart, heapVars
    <3> QED BY <3>2, <3>3
  <2> QED BY <2>1, <2>2 DEF HeapInv
<1>3. ASSUME NEW f \in Fds, Read(f) PROVE HeapInv'
  BY <1>2, <1>3 DEF Read
<1> QED BY <1>1, <1>2, <1>3 DEF Next, Finished, vars, heapVars

(* What holds of the two hash tables, the heap and the threads in users_table.c
   together: who is inside the mutex, and which cells are whose.            *)
THEOREM HeapInvariance == Spec => []HeapInv
  BY HeapInit, HeapStepKeeps, PTL DEF Spec

(* No pointer of users_table.c outlives its user, neither in a hash table nor in
   a thread that is about to follow it, for any number of threads, cells and
   names, any calls, and descriptor numbers that several users record.      *)
THEOREM NoUseAfterFreeHolds == Spec => []NoUseAfterFree
<1>1. HeapInv => NoUseAfterFree
  BY DEF HeapInv, TableLive, IndexLive, FoundUnderMutex, InTable, NoUseAfterFree
<1> QED BY <1>1, HeapInvariance, PTL

-----------------------------------------------------------------------------
\* The order of broadcasts.

Lines == [by : Threads, no : Nat, op : {"for_each", "send"}]
Pieces == [line : Lines, part : Nat]
StreamsTyped == heard \in [Fds -> Seq(Pieces)] /\ socket \in [Fds -> Seq(Pieces)]

\* What reached a socket belongs to a call that was made.
NumbersPast ==
  \A f \in Fds : \A i \in 1..Len(Stream(f)) :
    Stream(f)[i].line.no <= made[Stream(f)[i].line.by]

\* A broadcast that waits for the mutex has sent nothing.
NothingSent ==
  \A t \in Threads : At(t, "for_each", "lock") =>
    \A f \in Fds : \A i \in 1..Len(Stream(f)) : Stream(f)[i].line # Line(t)

\* The broadcast under way comes last, in every socket it has reached.
Broadcasting(t) == Inside(t) /\ call[t].op = "for_each"
LatestLast ==
  \A t \in Threads : Broadcasting(t) =>
    \A f \in Fds : \A i, j \in 1..Len(Stream(f)) :
      i < j /\ Stream(f)[i].line = Line(t) /\ Stream(f)[j].line.op = "for_each"
        => Stream(f)[j].line = Line(t)

\* A thread that sends, or may begin to, counts the pieces it has sent.
Counts(t) == pc[t] \in {"idle", "send"} => loc[t].part \in Nat

OneOrder ==
  /\ \A t \in Threads : Counts(t)
  /\ StreamsTyped /\ NumbersPast /\ NothingSent /\ LatestLast /\ BroadcastsInOneOrder

\* A line that comes before or after another one is a line of the streams.
LEMMA WhatComes ==
  ASSUME StreamsTyped, NEW f \in Fds, NEW l, NEW m, Comes(f, l, m)
  PROVE  /\ l \in Lines /\ m \in Lines
         /\ l.op = "for_each" => l \in Broadcasts
         /\ m.op = "for_each" => m \in Broadcasts
<1>1. Stream(f) \in Seq(Pieces)
  BY DEF StreamsTyped, Stream
<1>2. PICK i, j \in 1..Len(Stream(f)) : Stream(f)[i].line = l /\ Stream(f)[j].line = m
  BY DEF Comes
<1>3. /\ Stream(f)[i] \in Range(Stream(f)) /\ Stream(f)[j] \in Range(Stream(f))
      /\ Stream(f)[i] \in Pieces /\ Stream(f)[j] \in Pieces
  BY <1>1, <1>2 DEF Range
<1> HIDE DEF Pieces, Stream
<1>4. l \in {p.line : p \in Range(Stream(f))} /\ m \in {p.line : p \in Range(Stream(f))}
  BY <1>2, <1>3
<1>5. l \in Lines /\ m \in Lines
  BY <1>2, <1>3 DEF Pieces
<1> QED BY <1>4, <1>5 DEF Broadcasts

\* Where a sequence is cut, and at which end it grows, makes no difference.
LEMMA CutElsewhere ==
  ASSUME NEW S, NEW h \in Seq(S), NEW s \in Seq(S), s # << >>
  PROVE  Append(h, Head(s)) \o Tail(s) = h \o s
<1>1. /\ Head(s) \in S /\ Tail(s) \in Seq(S) /\ Len(Tail(s)) = Len(s) - 1
      /\ \A i \in 1..Len(Tail(s)) : Tail(s)[i] = s[i + 1]
      /\ Head(s) = s[1] /\ Len(s) \in Nat \ {0}
  BY HeadTailProperties, EmptySeq
<1>2. /\ Append(h, Head(s)) \in Seq(S) /\ Len(Append(h, Head(s))) = Len(h) + 1
      /\ \A i \in 1..Len(h) : Append(h, Head(s))[i] = h[i]
      /\ Append(h, Head(s))[Len(h) + 1] = Head(s)
  BY <1>1, AppendProperties
<1>3. Len(h) \in Nat
  BY LenProperties
<1>4. PICK a : a = Append(h, Head(s))
  OBVIOUS
<1>5. PICK r : r = Tail(s)
  OBVIOUS
<1>6. /\ a \o r \in Seq(S) /\ Len(a \o r) = Len(h) + Len(s)
      /\ \A i \in 1..(Len(h) + Len(s)) :
           (a \o r)[i] = IF i <= Len(h) + 1 THEN a[i] ELSE r[i - (Len(h) + 1)]
  BY <1>1, <1>2, <1>3, <1>4, <1>5, ConcatProperties
<1>7. /\ h \o s \in Seq(S) /\ Len(h \o s) = Len(h) + Len(s)
      /\ \A i \in 1..(Len(h) + Len(s)) :
           (h \o s)[i] = IF i <= Len(h) THEN h[i] ELSE s[i - Len(h)]
  BY ConcatProperties
<1>8. ASSUME NEW i \in 1..(Len(h) + Len(s)) PROVE (a \o r)[i] = (h \o s)[i]
  <2>1. CASE i <= Len(h)
    BY <1>2, <1>3, <1>4, <1>6, <1>7, <2>1
  <2>2. CASE i = Len(h) + 1
    BY <1>1, <1>2, <1>3, <1>4, <1>6, <1>7, <2>2
  <2>3. CASE i > Len(h) + 1
    <3>1. i - (Len(h) + 1) \in 1..Len(r) /\ (i - (Len(h) + 1)) + 1 = i - Len(h)
      BY <1>1, <1>3, <1>5, <2>3
    <3>2. r[i - (Len(h) + 1)] = s[i - Len(h)]
      BY <1>1, <1>5, <3>1
    <3> QED BY <1>3, <1>6, <1>7, <2>3, <3>2
  <2>4. i <= Len(h) \/ i = Len(h) + 1 \/ i > Len(h) + 1
    BY <1>1, <1>3
  <2> QED BY <2>1, <2>2, <2>3, <2>4
<1>9. a \o r = h \o s
  BY <1>6, <1>7, <1>8, SeqEqual
<1> QED BY <1>4, <1>5, <1>9

LEMMA GrowsAtTheEnd ==
  ASSUME NEW S, NEW h \in Seq(S), NEW s \in Seq(S), NEW p \in S
  PROVE  h \o Append(s, p) = Append(h \o s, p)
<1>1. << p >> \in Seq(S) /\ h \o s \in Seq(S)
  BY ConcatProperties
<1>2. Append(s, p) = s \o << p >> /\ Append(h \o s, p) = (h \o s) \o << p >>
  BY <1>1, AppendIsConcat
<1> QED BY <1>1, <1>2, ConcatAssociative

\* A peer that reads changes nothing in what has reached its socket.
LEMMA ReadKeepsStreams ==
  ASSUME StreamsTyped, NEW f \in Fds, Read(f)
  PROVE  StreamsTyped' /\ \A g \in Fds : Stream(g)' = Stream(g)
<1>1. /\ socket[f] \in Seq(Pieces) /\ heard[f] \in Seq(Pieces) /\ socket[f] # << >>
      /\ heard' = [heard EXCEPT ![f] = Append(heard[f], Head(socket[f]))]
      /\ socket' = [socket EXCEPT ![f] = Tail(socket[f])]
  BY DEF StreamsTyped, Read
<1> HIDE DEF Pieces
<1>2. /\ Head(socket[f]) \in Pieces /\ Tail(socket[f]) \in Seq(Pieces)
      /\ Append(heard[f], Head(socket[f])) \in Seq(Pieces)
  BY <1>1
<1>3. StreamsTyped'
  BY <1>1, <1>2 DEF StreamsTyped
<1>4. Append(heard[f], Head(socket[f])) \o Tail(socket[f]) = heard[f] \o socket[f]
  BY <1>1, CutElsewhere
<1> QED BY <1>1, <1>3, <1>4 DEF StreamsTyped, Stream

\* A send puts a piece of its thread's line at the end of one stream.
LEMMA SendAppends ==
  ASSUME HeapInv, StreamsTyped, NEW t \in Threads, Counts(t), Send(t)
  PROVE  /\ StreamsTyped' /\ Line(t) \in Lines
         /\ \E p \in Pieces : /\ p.line = Line(t)
                              /\ \A g \in Fds : \/ Stream(g)' = Stream(g)
                                                \/ Stream(g)' = Append(Stream(g), p)
<1>1. Line(t) \in Lines
  BY DEF HeapInv, Typed, OpInPlace, OpsAt, Send, Line, Lines
<1>2. PICK p : p = [line |-> Line(t), part |-> loc[t].part + 1]
  OBVIOUS
<1>3. p.line = Line(t) /\ p \in Pieces
  BY <1>1, <1>2 DEF Pieces, Counts, Send
<1>4. socket' = [socket EXCEPT ![Target(t)] = Append(socket[Target(t)], p)] /\ heard' = heard
  BY <1>2 DEF Send
<1> HIDE DEF Pieces, Target
<1>5. StreamsTyped'
  <2>1. CASE Target(t) \in Fds
    <3>1. Append(socket[Target(t)], p) \in Seq(Pieces)
      BY <1>3, <2>1, AppendProperties DEF StreamsTyped
    <3> QED BY <1>4, <3>1 DEF StreamsTyped
  <2>2. CASE Target(t) \notin Fds
    BY <1>4, <2>2 DEF StreamsTyped
  <2> QED BY <2>1, <2>2
<1>6. ASSUME NEW g \in Fds PROVE Stream(g)' = Stream(g) \/ Stream(g)' = Append(Stream(g), p)
  <2>1. socket[g] \in Seq(Pieces) /\ heard[g] \in Seq(Pieces)
    BY DEF StreamsTyped
  <2>2. socket'[g] = socket[g] \/ socket'[g] = Append(socket[g], p)
    BY <1>4 DEF StreamsTyped
  <2>3. heard[g] \o Append(socket[g], p) = Append(heard[g] \o socket[g], p)
    <3>1. \A h, s \in Seq(Pieces) : h \o Append(s, p) = Append(h \o s, p)
      BY <1>3, GrowsAtTheEnd
    <3> QED BY <2>1, <3>1
  <2> QED BY <1>4, <2>2, <2>3 DEF Stream
<1> QED BY <1>1, <1>3, <1>5, <1>6

\* How the steps of a thread count calls and go in and out of broadcasts.
LEMMA ThreadSteps ==
  ASSUME HeapInv, NEW t \in Threads, Thread(t), Counts(t)
  PROVE  /\ OnlyMoves(t) /\ Counts(t)'
         /\ \A u \in Threads : made'[u] = made[u] \/ (u = t /\ Call(t) /\ made'[u] = made[u] + 1)
         /\ Send(t) \/ UNCHANGED lineVars
         /\ Broadcasting(t)' => Broadcasting(t) \/ At(t, "for_each", "lock")
         /\ At(t, "for_each", "lock")' => Call(t)
         /\ Broadcasting(t)' => Line(t)' = Line(t)
<1>1. CASE Call(t)
  BY <1>1, CallFields DEF Call, HeapInv, Typed, LocalsTyped, OpInPlace, OnlyMoves, Counts,
     Broadcasting, Inside, At, Line, Goto, SameHeap, SameCall
<1>6. CASE Malloc(t)
  BY <1>6 DEF Malloc, HeapInv, Typed, LocalsTyped, Locals, OpInPlace, OpsAt, OnlyMoves,
     Counts, Broadcasting, Inside, At, Line, Goto, SameCall
<1>7. CASE NoMemory(t)
  BY <1>7 DEF NoMemory, HeapInv, Typed, LocalsTyped, Locals, OpInPlace, OpsAt, OnlyMoves,
     Counts, Broadcasting, Inside, At, Line, Goto, Returning, SameHeap, SameCall
<1>8. CASE GiveUp(t) \/ Free(t)
  BY <1>8 DEF GiveUp, Free, HeapInv, Typed, LocalsTyped, Locals, Fresh, OpInPlace, OpsAt, OnlyMoves,
     Counts, Broadcasting, Inside, At, Line, Goto, Returning, Home, SameHeap, SameCall
<1>2. CASE Lock(t) \/ Unlock(t) \/ Contains(t) \/ Insert(t) \/ InsertByFd(t)
  BY <1>2 DEF HeapInv, Typed, LocalsTyped, Locals, Fresh, OpInPlace, OpsAt, OnlyMoves, Counts, Broadcasting, Inside,
     At, Line, Lock, Unlock, Contains, Insert, InsertByFd, Goto, Returning, Home, SameHeap, SameCall
<1>3. CASE LookUp(t) \/ Copy(t) \/ ChangeStatus(t) \/ RemoveByFd(t) \/ RemoveByName(t)
  BY <1>3 DEF HeapInv, Typed, LocalsTyped, Locals, Fresh, OpInPlace, OpsAt, OnlyMoves, Counts, Broadcasting, Inside,
     At, Line, LookUp, Copy, ChangeStatus, RemoveByFd, RemoveByName, Goto, Returning, Home, SameHeap, SameCall
<1>4. CASE Pass(t) \/ PassedAll(t)
  BY <1>4 DEF HeapInv, Typed, LocalsTyped, Locals, Fresh, OpInPlace, OpsAt, OnlyMoves, Counts, Broadcasting, Inside,
     At, Line, Pass, PassedAll, Goto, Returning, Home, SameHeap, SameCall
<1>5. CASE Send(t)
  BY <1>5 DEF HeapInv, Typed, LocalsTyped, Locals, Fresh, OpInPlace, OpsAt, OnlyMoves, Counts, Broadcasting, Inside,
     At, Line, Send, Goto, Returning, Home
<1> QED BY <1>1, <1>2, <1>3, <1>4, <1>5, <1>6, <1>7, <1>8 DEF Thread

\* The streams with a piece more at their ends, or none.
Grow(p) == \A f \in Fds : Stream(f)' = Stream(f) \/ Stream(f)' = Append(Stream(f), p)

LEMMA GrownStream ==
  ASSUME StreamsTyped, StreamsTyped', NEW p \in Pieces, Grow(p), NEW f \in Fds
  PROVE  /\ Len(Stream(f)) \in Nat /\ Len(Stream(f))' \in Nat
         /\ Len(Stream(f))' = Len(Stream(f)) \/ Len(Stream(f))' = Len(Stream(f)) + 1
         /\ \A i \in 1..Len(Stream(f)) : Stream(f)'[i] = Stream(f)[i]
         /\ \A i \in 1..Len(Stream(f))' :
              i \in 1..Len(Stream(f)) \/ (i = Len(Stream(f))' /\ Stream(f)'[i] = p)
<1>1. Stream(f) \in Seq(Pieces) /\ Stream(f)' \in Seq(Pieces)
  BY ConcatProperties DEF StreamsTyped, Stream
<1>2. PICK s : s = Stream(f)
  OBVIOUS
<1>3. PICK r : r = Stream(f)'
  OBVIOUS
<1>4. s \in Seq(Pieces) /\ (r = s \/ r = Append(s, p))
  BY <1>1, <1>2, <1>3 DEF Grow
<1>5. /\ Len(s) \in Nat /\ Len(r) \in Nat
      /\ Len(r) = Len(s) \/ Len(r) = Len(s) + 1
      /\ \A i \in 1..Len(s) : r[i] = s[i]
      /\ \A i \in 1..Len(r) : i \in 1..Len(s) \/ (i = Len(r) /\ r[i] = p)
  BY <1>4, AppendProperties, LenProperties
<1> QED BY <1>2, <1>3, <1>5

\* What comes after a new piece was there before.
LEMMA GrownComes ==
  ASSUME StreamsTyped, StreamsTyped', NEW p \in Pieces, Grow(p), NEW f \in Fds,
         NEW l, NEW m, Comes(f, l, m)'
  PROVE  Comes(f, l, m) \/ (m = p.line /\ (l # m => \E i \in 1..Len(Stream(f)) : Stream(f)[i].line = l))
<1>1. PICK i, j \in 1..Len(Stream(f))' :
        i < j /\ Stream(f)'[i].line = l /\ Stream(f)'[j].line = m
  BY DEF Comes
<1>2. i \in 1..Len(Stream(f)) /\ Stream(f)'[i] = Stream(f)[i]
  BY <1>1, GrownStream
<1>3. CASE j \in 1..Len(Stream(f))
  BY <1>1, <1>2, <1>3, GrownStream DEF Comes
<1>4. CASE j \notin 1..Len(Stream(f))
  BY <1>1, <1>2, <1>4, GrownStream
<1> QED BY <1>3, <1>4

\* A thread's send keeps broadcasts in order: it holds the mutex if it broadcasts.
LEMMA SendKeepsOrder ==
  ASSUME HeapInv, OneOrder, NEW t \in Threads, Send(t)
  PROVE  BroadcastsInOneOrder'
<1>1. StreamsTyped /\ StreamsTyped' /\ Counts(t)
  BY SendAppends DEF OneOrder
<1>2. PICK p \in Pieces : p.line = Line(t) /\ Grow(p)
  BY <1>1, SendAppends DEF Grow
<1>3. Line(t).op = "for_each" => Broadcasting(t)
  BY DEF Send, Line, Broadcasting, Inside, At
<1>4. ASSUME NEW f \in Fds, NEW g \in Fds, NEW l, NEW m, l.op = "for_each", m.op = "for_each",
             l # m, Comes(f, l, m)', Comes(g, m, l)'
      PROVE  FALSE
  <2>1. Comes(f, l, m) \/ m = Line(t)
    BY <1>1, <1>2, <1>4, GrownComes
  <2>2. Comes(g, m, l) \/ l = Line(t)
    BY <1>1, <1>2, <1>4, GrownComes
  <2>3. ASSUME NEW h \in Fds, NEW n, n # Line(t), n.op = "for_each", Comes(h, Line(t), n),
               Broadcasting(t)
        PROVE  FALSE
    BY <2>3 DEF OneOrder, LatestLast, Comes
  <2>4. CASE Comes(f, l, m) /\ Comes(g, m, l)
    BY <1>1, <1>4, <2>4, WhatComes DEF OneOrder, BroadcastsInOneOrder
  <2>5. CASE m = Line(t) /\ l # Line(t)
    BY <1>3, <1>4, <2>2, <2>3, <2>5
  <2>6. CASE l = Line(t) /\ m # Line(t)
    BY <1>3, <1>4, <2>1, <2>3, <2>6
  <2> QED BY <1>4, <2>1, <2>2, <2>4, <2>5, <2>6
<1>5. \A l \in Broadcasts' : l.op = "for_each"
  BY DEF Broadcasts
<1> QED BY <1>4, <1>5 DEF BroadcastsInOneOrder

\* A step that leaves the streams as they are, seen by its thread.
SameStreams == \A f \in Fds : Stream(f)' = Stream(f)

LEMMA SameStreamsSameOrder ==
  ASSUME StreamsTyped, BroadcastsInOneOrder, SameStreams
  PROVE  BroadcastsInOneOrder'
<1>1. \A f \in Fds : \A l, m : Comes(f, l, m)' <=> Comes(f, l, m)
  BY DEF SameStreams, Comes
<1>2. \A l \in Broadcasts' : l.op = "for_each"
  BY DEF Broadcasts
<1> QED BY <1>1, <1>2, WhatComes DEF BroadcastsInOneOrder

LEMMA ThreadKeepsOrder ==
  ASSUME HeapInv, HeapInv', OneOrder, NEW t \in Threads, Thread(t)
  PROVE  OneOrder'
<1>1. Counts(t) /\ StreamsTyped /\ made \in [Threads -> Nat] /\ made' \in [Threads -> Nat]
  BY DEF OneOrder, HeapInv, Typed
<1>2. /\ OnlyMoves(t) /\ Counts(t)'
      /\ \A u \in Threads : made'[u] = made[u] \/ (u = t /\ Call(t) /\ made'[u] = made[u] + 1)
      /\ Send(t) \/ UNCHANGED lineVars
      /\ Broadcasting(t)' => Broadcasting(t) \/ At(t, "for_each", "lock")
      /\ At(t, "for_each", "lock")' => Call(t)
      /\ Broadcasting(t)' => Line(t)' = Line(t)
  BY <1>1, ThreadSteps
<1>3. ASSUME NEW u \in Threads \ {t}
      PROVE  /\ Counts(u)' = Counts(u) /\ Line(u)' = Line(u)
             /\ Broadcasting(u)' = Broadcasting(u)
             /\ At(u, "for_each", "lock")' = At(u, "for_each", "lock")
  BY <1>2 DEF OnlyMoves, Counts, Line, Broadcasting, Inside, At
<1>4. \A u \in Threads : Counts(u)'
  BY <1>2, <1>3 DEF OneOrder
<1>5. CASE Send(t)
  <2>1. StreamsTyped'
    BY <1>1, <1>5, SendAppends
  <2>2. PICK p \in Pieces : p.line = Line(t) /\ Grow(p)
    BY <1>1, <1>5, SendAppends DEF Grow
  <2>3. made' = made /\ pc[t] = "send" /\ OpInPlace(t)
    BY <1>5 DEF Send, HeapInv
  <2>4. NumbersPast'
    <3> SUFFICES ASSUME NEW f \in Fds, NEW i \in 1..Len(Stream(f))'
                 PROVE  Stream(f)'[i].line.no <= made'[Stream(f)'[i].line.by]
      BY DEF NumbersPast
    <3>1. CASE i \in 1..Len(Stream(f))
      BY <1>1, <2>1, <2>2, <2>3, <3>1, GrownStream DEF OneOrder, NumbersPast
    <3>2. CASE Stream(f)'[i] = p
      BY <1>1, <2>2, <2>3, <3>2 DEF Line
    <3> QED BY <1>1, <2>1, <2>2, <3>1, <3>2, GrownStream
  <2>5. NothingSent'
    <3> SUFFICES ASSUME NEW u \in Threads, At(u, "for_each", "lock")',
                        NEW f \in Fds, NEW i \in 1..Len(Stream(f))'
                 PROVE  Stream(f)'[i].line # Line(u)'
      BY DEF NothingSent
    <3>1. u # t
      BY <1>2, <1>5 DEF Call, Send
    <3>2. CASE i \in 1..Len(Stream(f))
      BY <1>1, <1>3, <2>1, <2>2, <3>1, <3>2, GrownStream DEF OneOrder, NothingSent
    <3>3. CASE Stream(f)'[i] = p
      BY <1>3, <2>2, <3>1, <3>3 DEF Line
    <3> QED BY <1>1, <2>1, <2>2, <3>2, <3>3, GrownStream
  <2>6. LatestLast'
    <3> SUFFICES ASSUME NEW u \in Threads, Broadcasting(u)', NEW f \in Fds,
                        NEW i \in 1..Len(Stream(f))', NEW j \in 1..Len(Stream(f))',
                        i < j, Stream(f)'[i].line = Line(u)',
                        Stream(f)'[j].line.op = "for_each"
                 PROVE  Stream(f)'[j].line = Line(u)'
      BY DEF LatestLast
    <3>1. i \in 1..Len(Stream(f)) /\ Stream(f)'[i] = Stream(f)[i]
      BY <1>1, <2>1, <2>2, GrownStream
    <3>2. Broadcasting(u) /\ Line(u)' = Line(u)
      BY <1>2, <1>3, <1>5 DEF Send, At
    <3>3. CASE j \in 1..Len(Stream(f))
      BY <1>1, <2>1, <2>2, <3>1, <3>2, <3>3, GrownStream DEF OneOrder, LatestLast
    <3>4. CASE Stream(f)'[j] = p
      <4>1. Inside(t)
        BY <2>2, <2>3, <3>4 DEF Line, Inside, At
      <4>2. u = t
        BY <3>2, <4>1, Alone DEF Broadcasting
      <4> QED BY <2>2, <3>2, <3>4, <4>2
    <3> QED BY <1>1, <2>1, <2>2, <3>3, <3>4, GrownStream
  <2> QED BY <1>4, <1>5, <2>1, <2>4, <2>5, <2>6, SendKeepsOrder DEF OneOrder
<1>6. CASE UNCHANGED lineVars
  <2>1. StreamsTyped' /\ SameStreams
    BY <1>1, <1>6 DEF lineVars, StreamsTyped, SameStreams, Stream
  <2>2. ASSUME NEW f \in Fds, NEW i \in 1..Len(Stream(f))
        PROVE  /\ Stream(f)[i].line \in Lines /\ Stream(f)[i].line.no \in Nat
               /\ Stream(f)[i].line.by \in Threads
    <3>1. Stream(f) \in Seq(Pieces)
      BY <1>1, ConcatProperties DEF StreamsTyped, Stream
    <3>2. Stream(f)[i] \in Pieces
      BY <3>1, ElementOfSeq
    <3> QED BY <3>2 DEF Pieces, Lines
  <2>3. NumbersPast'
    BY <1>1, <1>2, <2>1, <2>2 DEF OneOrder, NumbersPast, SameStreams
  <2>4. NothingSent'
    <3> SUFFICES ASSUME NEW u \in Threads, At(u, "for_each", "lock")',
                        NEW f \in Fds, NEW i \in 1..Len(Stream(f))
                 PROVE  Stream(f)[i].line # Line(u)'
      BY <2>1 DEF NothingSent, SameStreams
    <3>1. CASE u # t
      BY <1>3, <3>1 DEF OneOrder, NothingSent
    <3>2. CASE u = t
      <4>1. made'[t] = made[t] + 1
        BY <1>1, <1>2, <3>2 DEF Call
      <4> QED BY <1>1, <2>2, <3>2, <4>1 DEF OneOrder, NumbersPast, Line
    <3> QED BY <3>1, <3>2
  <2>5. LatestLast'
    <3> SUFFICES ASSUME NEW u \in Threads, Broadcasting(u)', NEW f \in Fds,
                        NEW i \in 1..Len(Stream(f)), NEW j \in 1..Len(Stream(f)),
                        i < j, Stream(f)[i].line = Line(u)', Stream(f)[j].line.op = "for_each"
                 PROVE  Stream(f)[j].line = Line(u)'
      BY <2>1 DEF LatestLast, SameStreams
    <3>1. Line(u)' = Line(u)
      BY <1>2, <1>3
    <3>2. CASE Broadcasting(u)
      BY <3>1, <3>2 DEF OneOrder, LatestLast
    <3>3. CASE At(u, "for_each", "lock")
      BY <3>1, <3>3 DEF OneOrder, NothingSent
    <3> QED BY <1>2, <1>3, <3>2, <3>3
  <2> QED BY <1>1, <1>4, <2>1, <2>3, <2>4, <2>5, SameStreamsSameOrder DEF OneOrder
<1> QED BY <1>2, <1>5, <1>6

LEMMA OneOrderInit == Init => OneOrder
<1> SUFFICES ASSUME Init PROVE OneOrder
  OBVIOUS
<1>1. StreamsTyped /\ \A f \in Fds : Stream(f) = << >>
  BY DEF Init, StreamsTyped, Stream
<1>2. \A f \in Fds : Len(Stream(f)) = 0
  BY <1>1
<1>3. \A t \in Threads : Counts(t)
  BY DEF Init, Counts, Fresh, Locals
<1> QED BY <1>1, <1>2, <1>3
        DEF OneOrder, NumbersPast, NothingSent, LatestLast, BroadcastsInOneOrder, Comes

LEMMA OneOrderKept == HeapInv /\ HeapInv' /\ OneOrder /\ [Next]_vars => OneOrder'
<1> SUFFICES ASSUME HeapInv, HeapInv', OneOrder, [Next]_vars PROVE OneOrder'
  OBVIOUS
<1>1. ASSUME NEW t \in Threads, Thread(t) PROVE OneOrder'
  BY <1>1, ThreadKeepsOrder
<1>2. ASSUME StreamsTyped', SameStreams, UNCHANGED << made, call, pc, loc >> PROVE OneOrder'
  <2>1. (\A t \in Threads : Counts(t)') /\ NumbersPast' /\ NothingSent' /\ LatestLast'
    BY <1>2 DEF OneOrder, Counts, NumbersPast, NothingSent, LatestLast, Broadcasting, Inside,
         At, Line, SameStreams
  <2> QED BY <1>2, <2>1, SameStreamsSameOrder DEF OneOrder
<1>3. ASSUME NEW f \in Fds, Read(f) PROVE OneOrder'
  BY <1>2, <1>3, ReadKeepsStreams DEF Read, OneOrder, SameStreams
<1>4. CASE UNCHANGED vars
  <2>1. StreamsTyped' /\ SameStreams
    BY <1>4 DEF vars, lineVars, OneOrder, StreamsTyped, SameStreams, Stream
  <2> QED BY <1>2, <1>4, <2>1 DEF vars
<1> QED BY <1>1, <1>3, <1>4 DEF Next, Finished

(* Two broadcasts reach all who get both in the same order, and neither is cut
   by the other, for any number of threads and sockets, however the kernel
   cuts a line and whoever does not read: a thread holds the mutex while its
   broadcast is the last in every socket it has reached.                    *)
THEOREM BroadcastsInOneOrderHolds == Spec => []BroadcastsInOneOrder
<1>1. OneOrder => BroadcastsInOneOrder
  BY DEF OneOrder
<1> QED BY <1>1, HeapInvariance, OneOrderInit, OneOrderKept, PTL DEF Spec
=============================================================================
