----------------------------- MODULE AtomicTable -----------------------------
(***************************************************************************)
(* What a Users_Table promises to the threads that share it: every call      *)
(* takes effect at one instant between its start and its return, as the      *)
(* functions of UsersTable say, and every call returns.  This is what        *)
(* ChatServer takes a table operation for.                                   *)
(***************************************************************************)
EXTENDS UsersTable

CONSTANTS Threads, Calls, Refused, None

VARIABLES
  value,   \* the table
  phase,   \* "idle", "called" or "answered", for each thread
  call,    \* what a thread asked for
  answer   \* what it will be told

atomicVars == << value, phase, call, answer >>

(* How a call changes table t, and what it returns: whether a user was found,
   added or removed; a copy of the user; or copies of all of them.          *)
Found(t, c) == IF c.by = "username" THEN ContainsName(t, c.key) ELSE ContainsFd(t, c.key)
FindBy(t, c) == IF c.by = "username" THEN FindByName(t, c.key) ELSE FindByFd(t, c.key)

WithStatus(t, n, status) ==
  [byName |-> [m \in Usernames(t) |->
                 IF m = n THEN [fd |-> t.byName[m].fd, status |-> status] ELSE t.byName[m]],
   byFd   |-> t.byFd]

After(t, c) ==
  IF c.op = "add" /\ c.name \notin Refused THEN AddUser(t, c.name, c.fd, c.status)
  ELSE IF c.op = "remove" THEN RemoveUser(t, c.key)
  ELSE IF c.op = "change_status" /\ Found(t, c) THEN WithStatus(t, FindBy(t, c).name, c.status)
  ELSE t

Answer(t, c) ==
  IF c.op = "add" THEN c.name \notin Refused /\ ~ContainsName(t, c.name)
  ELSE IF c.op \in {"contains", "remove", "change_status"} THEN Found(t, c)
  ELSE IF c.op = "find" THEN (IF Found(t, c) THEN FindBy(t, c) ELSE FALSE)
  ELSE UsersOf(t)

AtomicInit ==
  /\ value = EmptyTable
  /\ phase = [t \in Threads |-> "idle"]
  /\ call = [t \in Threads |-> None]
  /\ answer = [t \in Threads |-> None]

Start(t) ==
  /\ phase[t] = "idle"
  /\ phase' = [phase EXCEPT ![t] = "called"]
  /\ \E c \in Calls : call' = [call EXCEPT ![t] = c]
  /\ UNCHANGED << value, answer >>

\* A user needs memory.
OutOfMemory(t) ==
  /\ phase[t] = "called" /\ call[t].op = "add"
  /\ phase' = [phase EXCEPT ![t] = "answered"]
  /\ answer' = [answer EXCEPT ![t] = FALSE]
  /\ UNCHANGED << value, call >>

TakeEffect(t) ==
  /\ phase[t] = "called"
  /\ phase' = [phase EXCEPT ![t] = "answered"]
  /\ value' = After(value, call[t])
  /\ answer' = [answer EXCEPT ![t] = Answer(value, call[t])]
  /\ UNCHANGED call

Return(t) ==
  /\ phase[t] = "answered"
  /\ phase' = [phase EXCEPT ![t] = "idle"]
  /\ call' = [call EXCEPT ![t] = None]
  /\ answer' = [answer EXCEPT ![t] = None]
  /\ UNCHANGED value

AtomicNext == \E t \in Threads : Start(t) \/ TakeEffect(t) \/ OutOfMemory(t) \/ Return(t)

AtomicSafety == AtomicInit /\ [][AtomicNext]_atomicVars
AtomicProgress ==
  \A t \in Threads : WF_atomicVars(TakeEffect(t) \/ OutOfMemory(t) \/ Return(t))

AtomicSpec == AtomicSafety /\ AtomicProgress
=============================================================================
