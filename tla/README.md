# OjalvoChat: specification and proofs

OjalvoChat is a chat: a server in C (`src/server`), one detached thread per
connection, and a console client in C# (`src/client`). This directory holds a
TLA+ model of the server, from the bytes of a line to the whole process, and of
the client's two loops; small instances of it for TLC; and theorems about it
that TLAPS checks for every instance.

## Inventory

| Part | State it keeps | Operations | Correct when |
|---|---|---|---|
| Accept loop (`main.c`) | listening socket, `errno`, `g_shutdown_requested` | accept, start a detached thread, stop on SIGINT or when accept fails | every descriptor it opens is served or closed; SIGINT stops it |
| Receive loop (`client_handler.c`) | `client_fd`, a `Message_Buffer`, the line being served | recv, extract and serve lines, end | it serves its own client and nobody else |
| Message handlers (`message_handler.c`) | locals only: copies of users, a list of descriptors to disconnect | one handler per request; broadcast; disconnect | the protocol: names are unique, others hear the truth, rooms are private |
| `Users_Table` (`users_table.c`) | two hash tables over one set of users, a mutex | add, remove, find, contains, change status, iterate, for each | both hash tables describe the same users |
| `Room`, `Room_Table` (`room.c`, `room_table.c`) | rooms, each with copies of its members and guests; one mutex | add, remove, contains, with, for each | copies agree with the users table |
| `Message_Buffer` | `SERVER_BUFFER_SIZE` bytes, filled by chunks of `RECV_CHUNK_SIZE` | append, extract, sanitize | lines come out whole, in order and once each |
| `Message` (`message.c`) | - | to and from JSON | a request has the fields of its type |
| Sockets (`server.c`) | the process's descriptors, each with a queue of limited room | send, which may block and may be cut in pieces; close; set-up | each answer is one line, and broadcasts come in one order |
| C# client | two tasks, a cancellation source, the console | read and display; ask and send | ends when either side ends, with an error only if the server has closed |

How they meet. The threads share the server's users table, its rooms table and
the process's descriptors, and nothing else. Every table operation locks its
table's mutex and releases it; no handler holds a mutex between two operations,
with one exception: what runs inside `room_table_with` and
`room_table_for_each` runs under the rooms mutex. Everything a handler knows of
its client is a descriptor *number*. After a disconnection the thread does not
end: it goes on with the lines in its buffer under the same number.

A connection's two ends meet in the kernel: bytes wait in either direction,
`close` with unread bytes resets the connection, a descriptor number is free
again once it is closed. In the client, the task that reads and the task that
asks the user share one cancellation source; it interrupts a read and not a
prompt.

What is hard: two handlers interleaved between any two table operations; copies
of users that go stale between two operations; a number closed by one thread
and handed out again by `accept`; sends that fail and disconnect somebody; the
rooms mutex asked for twice; a `send` that blocks with the users mutex held; a
user owned by one hash table and pointed at by another; lines cut and joined by
`recv`; a signal that arrives between a test and a call; a client and a server
that close at the same time. `PROJECT.json` lists each such hazard at its line.

## Modules

The server's handlers, with every shared step interleaved:

| Module | Models |
|---|---|
| `UsersTable` | the value of a `Users_Table` and what each operation does to it, as functions; `Coherent` and `Agrees` |
| `ChatState` | constants, variables, `Init`; what `server_send` may return; `Room_Table` and the room visitors |
| `ChatConnections` | accept, clients, the receive loop, dispatch, replies, `notify_all_but_self`, `process_disconnect` |
| `ChatHandlers` | IDENTIFY, STATUS, USERS, TEXT, PUBLIC_TEXT |
| `ChatRooms` | NEW_ROOM, INVITE, JOIN_ROOM, ROOM_USERS, ROOM_TEXT, LEAVE_ROOM |
| `ChatServer` | `Next`, `Fairness`, `Spec`, every property, and the mappings to `Lobby` and `Chat` |
| `Lobby`, `Chat` | abstract: who is in the chat under which name; who is in which room, guest or member |

What the handlers stand on, each in more detail than they see it:

| Module | Models |
|---|---|
| `AtomicTable` | abstract: a table whose calls take effect at one instant and return |
| `TableHeap` | `users_table.c` as threads execute it: cells of the heap, two hash tables of pointers, the mutex, one step per access; and `server_send` with its blocking and its pieces, inside `users_table_for_each` and outside |
| `MessageLines` | one connection byte by byte: chunks, the `Message_Buffer`, the extraction loop of `handle_client`, the lines `server_send` writes |

The process and its clients:

| Module | Models |
|---|---|
| `SessionState` | the connections as the kernel sees them, shared by the two ends; constants and `Init` |
| `ServerMain` | `main`'s accept loop, SIGINT, the start of the threads, and `handle_client` as seen from outside: a thread that knows a number, reads lines, serves the ones it has, closes the number, and ends |
| `ChatClient` | `Controller.cs`: `RunAsync`, `ReceiveLoopAsync`, `SendLoopAsync`, cancellation |
| `ChatSession` | the composition of the two, its `Spec` and properties |

`MCChatServer`, `MCTableHeap`, `MCMessageLines` and `MCChatSession` give the
constants their values for TLC. The theorems are in modules of their own:

| Module | Proves about |
|---|---|
| `ChatServerProofs` | `UsersTable`: what each operation does to the names, and that it keeps `Coherent`; `ChatServer`: types, locals and coherence, whatever happens |
| `PresenceProofs` | `ChatServer`: one name per client, the refinement of `Lobby`, who was told of whom, that nobody who has gone stays, and that what clients were told of each other is true |
| `GoodClientsProofs` | `ChatServer`: why clients are sent away, and that a client that keeps to the protocol keeps its name |
| `RoomsProofs` | `ChatServer`: the rooms, and the refinement of `Chat`, with one request at a time |
| `TableHeapProofs` | `TableHeap`: no use after free, and the order of broadcasts |
| `TableAtomicProofs` | `TableHeap`: nothing leaks, and the refinement of `AtomicTable` |
| `MessageLinesProofs` | `MessageLines`: the buffers hold, lines and answers are whole, lines are served in the order they were written |
| `SessionProofs` | `ChatSession`: why clients fail, and which descriptors are lost |

How they fit. `ChatServer` takes three things for granted: a table operation is
one step, a broadcast is one step, a client's line arrives whole and once.
`TableHeap` earns the first two: its threads implement `AtomicTable`, whose
functions are those of `UsersTable`, and no two broadcasts are told apart by the
order in which they reach their addressees. `MessageLines` earns the third.
`ChatSession` looks at the same threads from outside, as things that answer,
close or end, and asks what becomes of connections, processes and descriptors.

### State of `ChatServer`

| Variable | In the code |
|---|---|
| `peer`, `sent`, `wire` | the clients and the network: no line of `src/server` |
| `fdt` | the kernel's descriptor table; `fdt[f] = None` when `f` is closed |
| `pc`, `loc` | where a thread is in `handle_client` or in a handler, and the locals that outlive a call |
| `fdOf` | `client_fd` in `handle_client` |
| `bound` | the socket a blocked `recv` resolved its number to |
| `buf` | whole lines of the `Message_Buffer` not yet extracted |
| `users`, `rooms` | `server->users`, `server->rooms` |
| `roomsLock` | the rooms mutex, recorded only when a thread keeps it for ever |
| `self`, `seen` | observers: the name a connection's own IDENTIFY registered; the last notification it got about a name. No action reads them |

### Actions of `ChatServer`

A step is one call that touches shared state: one operation on a table, or one
`server_send`. What lies between two such calls belongs to the earlier step, so
each handler is a chain of places (`id_find_fd`, `id_find_name`, `id_add`,
`reply`, `notify_size`, ...) in the order of its calls. Handlers share what the
code repeats: `Reply*` is the send of a response and what follows it,
`Notify*`/`Evict*` are `notify_all_but_self`, `Disconnect*` are
`process_disconnect`, and `RoomContains`, `RoomFindSender`, `RoomMember` open
the five requests about an existing room.

### What `ChatServer` abstracts

- Lines are records; a client's line arrives whole (`MessageLines` shows that it
  does). `BAD_JSON`, `TOO_LONG`, `UNKNOWN`, `SERVER_SIDE` stand for what the
  parser and the buffer refuse.
- Cutting a name to 8 or 16 bytes is a function (`Clip8`, `Clip16`); `Blank` is
  the empty name. A text is `Oversized` when the line that forwards it no longer
  fits `SERVER_BUFFER_SIZE`; a name or a room when the reply that echoes it, as
  it was typed, does not (`Echo`, `ReplyIsBig`). The send then fails.
- `USER_LIST` and `ROOM_USER_LIST` are taken to fit a line: names are cut to
  8 bytes, and 1 MiB holds tens of thousands of them.
- A failed `malloc` is left out, and a send is never partial (`TableHeap` has
  both). A send to a peer that is gone fails or not, as the reset has arrived or
  not.
- `send` blocks when the client's socket is full. To a client that reads it
  returns later, which is a step taken later. To one that does not (`Reading`)
  it may never return: `Waits` says which threads are held up by it, the one that
  sends and, when it sends under a table's mutex, any other; fairness promises
  nothing of them. Safety properties cover such executions like all others.
  `TableHeap` has the full socket itself.
- A broadcast's sends are one step: they run inside `users_table_for_each`,
  under the mutex, and the order in which one broadcast reaches its addressees
  is visible to nobody (`BroadcastsInOneOrder`). Broadcasts do interleave with
  everything else.
- `USER_LIST` and `ROOM_USER_LIST` are read and sent; their content stays in the
  thread that built it.
- In a room's broadcast the failed sends are the failures of that room's
  members; one of them is enough for the thread to wait for itself.
- With more failures than its array has slots the C program is undefined: the
  thread stops at `overrun`.
- `Vanishing` clients may lose what they had under way when they go.
- `Calm[c]` names the steps of client `c` that wait until the server rests. It
  restricts clients, never the server, and serves to set a scene in which only
  the requests of interest overlap.
- `accept` returns the lowest free number. `Reuse = TRUE` is just that, the
  kernel's rule. `Reuse = FALSE` keeps the executions in which the process has
  forgotten what the number stood for before: no running thread has it as its
  `client_fd`, no local and no table mentions it (`Remembered`). Clients may still
  connect after others have left, with the same numbers.

### The other models

`TableHeap`. A thread's `call` is the function of `users_table.h` it is in, `pc`
the access it makes next, `loc` its locals: `ptr` is `found` or the user `add`
has allocated, `out` what the call will return. `table` and `index` are the two
`GHashTable`s, as maps to `heap`; `holder` is the mutex. A line on its way is
`Parts` pieces; a socket holds `Capacity` of them until its peer reads. The
visitor of `users_table_for_each` is the one the handlers pass, which sends.

`MessageLines`. A byte is ordinary, a control byte that
`message_buffer_sanitize` drops, or a newline; what a client writes is any
sequence of them, and `recv` returns any piece of it up to `RECV_CHUNK_SIZE`.
A line is answered with one object of some length: what the object says is
`ChatServer`'s subject. A line that is no request would end the thread there.

`ServerMain`, `ChatClient`. A line is a request, a request longer than the
server's buffer, or DISCONNECT; `Types` says which of them a client's user, or
the file the console reads from, may type. (The console client writes no
malformed line.) A request is answered, told to everybody, disconnects the
thread's own client, or an invited one that cannot be reached; which of them is
free. As in the code a thread knows a number and nothing else: after closing it,
it serves the lines it still has, and what it sends or closes then is whoever
has the number by now (`Holder`, `Closes`). `recv` resolves the number when it is
called, and a connection closed meanwhile ends when that `recv` returns
(`Releases`). A line that overflows the `Message_Buffer` ends the thread with the
number in use and the client running (`ThreadOverflows`). `main` leaves its loop
when accept fails with the flag set or with anything but EINTR: with all numbers
in use, accept fails at once and the server ends (`main.c:72-77`); a process that
has ended has forgotten everything. The branch that tries again after EINTR is
never taken, since SIGINT is the only signal with a handler and sets the flag
first. SIGINT goes to the thread that runs `main`, which is Linux's choice as
long as that thread does not block it. The thread's own first `malloc` failing is
`ThreadFails`. The client's writes are whole lines (`AutoFlush`); an exception
that nobody catches ends it (`crash`).

## Runs

The instances of `ChatServer` have two or three connections (`a`, `b`, `e`), one
descriptor each, one room, and menus of two to four requests per client. Two
clients are enough for every pairwise race; the third is a witness, a newcomer
that takes over a descriptor number, or a stranger to a room. A handler keeps no
state from one request to the next, so a menu needs the requests that set a
scene and the one or two that may overlap.

Runs that pass:

| Run | Instance | Shows |
|---|---|---|
| `Users` | two clients, all interleavings, no rooms; one changes status or lists, the other does not read, asks for a second name, writes nonsense or vanishes | names and descriptors correspond one to one; no name is left with a closed descriptor; notifications end with the truth; of any two users one was told of the other; copies are taken before they are used; the users table implements `Lobby`; a client that is there and sent nothing wrong keeps its name; every handler returns unless a send to the client that does not read may hold it |
| `Handover` | a name changes hands while a third client, calm, listens and writes to whoever has it | the notifications are still true when DISCONNECTED and NEW_USER of one name come from different threads; a handler acts for the client that asked |
| `Rooms` | three clients, every room request, one at a time | rooms follow the users table; nobody is guest and member or joins uninvited; users and rooms together implement `Chat` |
| `Faults` | vanishing clients, malformed, unknown and oversized lines, a name too long to be echoed, repeated numbers | types, and no dangling index, after any failure |
| `Table` | three threads, two cells, three descriptors, lines of two pieces, sockets with room for one | no pointer outlives its user; every user is owned once; no user leaks; broadcasts come in one order; `users_table.c` implements `AtomicTable`; every call returns |
| `Lines` | every text of up to six bytes, buffer of four, chunks of up to two | no array is overrun; lines leave the buffer whole and in the order they were written; short ones are all served; every answer is one line |
| `Session` | two clients, two numbers, one SIGINT; one client's user types a request, perhaps too long, and disconnect, the other's leaves with Ctrl-C | clients end once cancelled or closed; they fail only if the server has closed; every number in use is accounted for, and DISCONNECT frees its client's unless a line overflowed the buffer |

Why the bounds are enough. `Table`: two cells and three threads let an add run
out of memory, two adds compete for a name and for a number, and a removal meet
both; with one piece of room in a socket and lines of two, every line can be cut
and every sender blocked. `Lines`: the constants keep the order of the real ones
(a newline and a terminator fit, two chunks fill the buffer, three overflow it),
and six bytes give two lines of every length up to the buffer's together with
lines that overflow it. `Session`: with two numbers the server runs out of them,
and hands the first one out again to the second client while the first one's
thread still has lines; one request and one disconnect put a line before, in and
after every closing. What two users that both type do to each other's numbers is
proved (`SessionInvariance`) rather than checked on every run: it is some millions
of states, and the safety properties hold there as well. `Users`: one client
reads and stays, the other may not read or may vanish, so that every step of the
one meets every way in which the other can fail it.

`Faults`, `LostMember`, `Session` and `SigintLost` do not check for deadlock:
in the first two a thread that waits for the mutex it holds, or has overrun its
array, does stop; in the others the server exits and the clients end. In the
other runs of `ChatServer` the only state without a thread to run is one where
everybody waits for a client, which `Idling` marks; `TableHeap` and
`MessageLines` end in `Finished` and `Ended`.

Properties about what holds "once the server rests" are stated on `Quiet`
states: no thread has anything to do until a client acts. In between, a copy or
a notification may lag by design.

Runs that end in a violation, each a disagreement between the code and what the
report, the client's help or a comment says of it (quoted in `PROJECT.json`):

| Run | What happens |
|---|---|
| `LostMember` | a failed send inside a room locks the rooms mutex for ever |
| `Overrun` | the array of failed sends overflows past its guard |
| `StrangersLine` | a buffered line is served in the name of the number's next owner |
| `SigintLost` | a SIGINT that finds `main` outside accept does not stop the server |
| `LongText` | who is put out of the chat because a send failed stays connected, without a name, and is told nothing |

Some properties hold in a passing run because its instance leaves out the one
ingredient the violation needs: `Users` and `Handover` hand out forgotten numbers
only, `Rooms` does not overlap room requests, `Users` has no TEXT, nothing that is
too long, no third client, and no DISCONNECT of the client whose table the other
enters twice (its broadcast would overrun, as in `Overrun`), in `Table` the peers
read. `MCChatServer` and
`MCTableHeap` have a scene for each; put in place of a run's menu (with the `Calm`
of the same name, `ObserverCalm` for `HandoverMenu`, `Never` for `GhostMenu` and
`Always` for the others, and the property as the only one), TLC finds:

| Property | Scene | What happens |
|---|---|---|
| `RoomsForgetTheGone` | `InviteRaceMenu` | INVITE adds a user that has left meanwhile; the copy stays in the room |
| `RoomsForgetTheGone` | `FounderGoneMenu`, `a` vanishing | NEW_ROOM adds a creator that was evicted after it was looked up (`message_handler.c:485-494`) |
| `RoomsKnowTheStatus` | `InviteRaceMenu` | the invitee changed status instead, and enters the room with its old one |
| `ServesTheChat` | `InviteRaceMenu`, `NamesakeMenu` | as for `RoomsForgetTheGone` and `NobodyJoinsUninvited`: somebody enters a room who is no longer in the chat, or was not its guest |
| `NoSuchRoomIsTrue` | `LongRoomMenu` | a room with a long name is registered cut and looked up as typed |
| `GoodClientsStay` | `LostAddresseeMenu`, `b` vanishing | TEXT to a lost client disconnects the sender |
| `GoodClientsStay` | `LongTextMenu`, its long text `Oversized` | a public text that no longer fits its line with its sender's name in it is refused for every addressee, and everybody else is taken out of the chat (`message_handler.c:46-50`) |
| `GoodClientsStay` | `EchoMenu`, its long name `Oversized` | the answer to a TEXT echoes a name that nobody has and does not fit its line, so the sender is disconnected (`message_handler.c:349-361`, `message.c:196`) |
| `GoodClientsStay` | `HandoverMenu`, `a` vanishing | a failed broadcast evicts by name, and the name has passed to another client (`message_handler.c:80-84`; the same copy is used at `:105`) |
| `NotificationsAccurate` | `HandoverMenu`, `a` vanishing | `a` is evicted while its thread is about to tell everybody its new status; another client gets the name, and then the status goes out under it |
| `TextReachesItsAddressee` | `WrongAddresseeMenu`, numbers repeated | a private text reaches the next owner of the number |
| `OneNamePerClient` | `ReuseMenu`, numbers repeated | the buffered line is an IDENTIFY, and the number's next owner gets a second name |
| `NoGhosts` | `GhostMenu`, `b` vanishing | a failed INVITE disconnects its addressee, whose own thread registers it again before the close (`message_handler.c:623`) |
| `NobodyJoinsUninvited` | `NamesakeMenu` | JOIN_ROOM overlaps with LEAVE_ROOM and a stranger's NEW_ROOM of the same name: the guest of the dropped room joins its namesake (`message_handler.c:695-704`) |
| `JoinedMeansMember` | `NamesakeMenu` | the room is dropped under JOIN_ROOM's feet, which answers SUCCESS all the same (`message_handler.c:698-704`, `:1016`) |
| `WholeLines` | `MixedMenu` | a reply lands between two pieces of a broadcast to the same socket, once its buffer is full |
| `CallsReturn` | `TableMenu`, one peer not in `Reading` | one client that does not read stops every thread that needs the table |

### Fairness

`ChatServer`: weak fairness of each thread, but for those that a client which
does not read may hold up. The kernel schedules every runnable thread, `recv`
returns when something has arrived or the peer has closed, a mutex that is free
is eventually given to a waiter, and a send to a client that reads returns.
Clients owe nothing: they may stop at any point, and one outside `Reading` may
leave its socket full for good; then the thread that writes to it, and with a
broadcast every thread, is excused (`Waits`). `HandlersReturn` says that a
thread comes back from its handler or gets into such a wait, and nothing else
keeps it.

`TableHeap`: the same for threads, and peers in `Reading` go on reading; without
that no call need return, as the last row above shows. Nothing is assumed of the
mutex beyond it: each thread makes finitely many calls, so whoever waits is
overtaken finitely often.

`MessageLines`: the thread goes on and `recv` returns what has arrived.

`ChatSession`: `main`, the threads and the client's tasks run when they can, and
a user answers a prompt sooner or later, with whatever command. Nobody owes a
connection, a Ctrl-C, a SIGINT or a goodbye. Here a send waits only while the
client that is written to has not displayed its lines, which its task does, and
a thread never waits for a mutex: the self-deadlock of `LostMember` and a send
that is blocked for good are left out, as `ClientsEnd` and
`GoodbyesFreeDescriptors` need.

### Refinements

`TableHeap` implements `AtomicTable`: an `add` takes effect when its user enters
the first hash table, although the index is still to follow, and a `remove` when
its user leaves the index, although the table is still to follow; `Value`
completes the one and carries out the other. A lookup takes effect at its copy,
an iteration at its last step, a refused `add` where it is refused. The steps
are `TableIsAtomic`, which is proved; that a call which has begun returns is
`CallsReturn`, which TLC checks on the same run.

`ChatServer` implements `Lobby` with the users table itself for `online`:
IDENTIFY's three critical sections are as good as one. With room requests one at
a time it implements `Chat`, where a handler takes a few of Chat's steps (a room
opens before its founder is in, a client leaves its rooms before the chat).

## Proofs

The theorems, each for every instance of its specification's constants:

| Theorem | Statement |
|---|---|
| `TypeCorrect` | `Spec => []TypeOK` |
| `LocalsAlwaysReady` | `Spec => []LocalsReady`: a handler uses a copy only after taking it, and serves only its own type of request |
| `TablesStayCoherent` | `Spec => []TablesCoherent`: no lookup by descriptor follows a dangling pointer, in the users table or in any room, whatever fails and whatever numbers are reused |
| `OneNamePerClientHolds` | `Spec => []OneNamePerClient` if `~Reuse`: names and descriptors correspond one to one |
| `ServerImplementsLobby` | `Spec => ServesTheLobby` if `~Reuse` |
| `EveryPairIntroducedHolds` | `Spec => []EveryPairIntroduced` if `~Reuse`: at rest, of two users one was told of the other |
| `NoGhostsHolds` | `Spec => []NoGhosts` if `~Reuse` and nobody sends an INVITE: at rest, nobody is in the chat with a closed descriptor |
| `NotificationsAccurateHolds` | `Spec /\ []NobodyIsEvicted => []NotificationsAccurate` if `~Reuse` and nobody sends an INVITE: at rest, what a client was last told of a connected user is true |
| `GroundsHold` | `Spec /\ []TextsArrive /\ []EchoesFit => []Grounds` if `~Reuse`: whom a thread sends away has gone, or broke the protocol in the request it serves |
| `GoodClientsStayHolds` | `Spec /\ []TextsArrive /\ []EchoesFit /\ []NobodyInherits => GoodClientsStay` if `~Reuse`: a client that is there and keeps to the protocol keeps its name |
| `GoodClientsStayByTheMenu` | `Spec => GoodClientsStay` if `~Reuse`, no two clients ask for one name, nobody writes in private, and texts, names and rooms fit a line |
| `GuestOrMemberHolds` | `Spec /\ []OneAtATime => []GuestOrMember` |
| `RoomsForgetTheGoneHolds` | `Spec /\ []OneAtATime => []RoomsForgetTheGone`: at every step, who is in a room is in the chat |
| `RoomsKnowTheStatusHolds` | `Spec /\ []OneAtATime => []RoomsKnowTheStatus` |
| `NobodyJoinsUninvitedHolds` | `Spec /\ []OneAtATime => NobodyJoinsUninvited`: a member was a guest one step before, or founded the room |
| `ServerImplementsChat` | `Spec /\ []OneAtATime => ServesTheChat` |
| `NoUseAfterFreeHolds` | `Spec => []NoUseAfterFree` (`TableHeap`): no pointer outlives its user |
| `NothingLeaksHolds` | `Spec => []NothingLeaks` (`TableHeap`): every user in the heap has one owner |
| `TableIsAtomicHolds` | `Spec => TableIsAtomic` (`TableHeap`): each call of `users_table.h` takes effect at one instant between its call and its return |
| `BroadcastsInOneOrderHolds` | `Spec => []BroadcastsInOneOrder` (`TableHeap`): all who get two broadcasts get them in one order, none cut by the other |
| `BuffersHoldAlways` | `Spec => []BuffersHold` (`MessageLines`): no chunk, line or message overruns its array |
| `LinesAreWholeAlways` | `Spec => []LinesAreWhole` (`MessageLines`): a line taken out is what the client wrote from one newline to the next, sanitized and not cut |
| `LinesServedInOrderHolds` | `Spec => []LinesServedInOrder` (`MessageLines`): the lines served are the client's, each once and in order, without those that sanitising leaves empty, and none that has arrived is left waiting |
| `AnswersAreLinesAlways` | `Spec => []AnswersAreLines` (`MessageLines`): what a send leaves on the socket is one line |
| `CrashesMeanClosed` | `Spec => []CrashMeansClosed` (`ChatSession`): a client fails only if the server has closed its connection |
| `DescriptorsAreAccountedFor` | `Spec => []DescriptorsAccountedFor` (`ChatSession`): a number in use that no thread serves is main's newcomer, the leftover of a client that ended without DISCONNECT, or of a thread whose buffer overflowed |

`ChatServerProofs` opens with lemmas on each table operation: what it does to the
names, and that it keeps `Coherent` (every entry of the index by descriptor leads
to a user of the table that records that descriptor). Its inductive invariant is
`IInv == TypeOK /\ LocalsReady /\ TablesCoherent`. None of the three is inductive
alone. A handler adds to a table what it finds in its locals, so types need
`LocalsReady`; what a lookup by descriptor puts there is a user only if the
index does not dangle, so `LocalsReady` needs `TablesCoherent`; and the tables
stay coherent because what is added to them is typed. The invariant is split
into what a thread keeps to itself (`Threads`) and what is shared (`Sockets`,
`Tables`, `Observers`). A few lemmas say how a thread may go on (`GoesKeeps`,
`DoneKeeps`, `ReplyKeeps`, `DisconnectKeeps`, `BroadcastKeeps`,
`FindsItselfKeeps`); the proof of each action then names the one that applies
and, where it changes a table, the lemma on that operation. The assumptions used
are those of `ChatAssumption`: there are enough descriptor numbers, cutting a
name yields a name, menus hold requests, the set of names is finite (a broadcast
counts them); `GoodClientsProofs` also uses `NoUserIsNone`, that no user is the
value that stands for none.

`PresenceProofs` first adds to `IInv` the invariant `Registration`: the table's two
directions agree; no two threads have the same `client_fd` (`OwnDescriptors`,
where `~Reuse` is used); and a thread between its lookup by descriptor and its
add is not in the table (`Unregistered`). The last is what makes three critical
sections as good as one: only a thread with the same descriptor could break it.
With `Reuse` the theorem is false, as the scene above shows: the code relies on
`accept` not returning a number that a thread or a table still goes by, which
nothing enforces. That what `accept` returns is a number nobody remembers is
`AcceptTakesForgotten`; clients may otherwise come, go and come again. `ServerImplementsLobby` takes the same invariant and
finds for each action the step of `Lobby` it is: an `id_add` that succeeds is `ComesIn`,
because `Registration` says that the descriptor has no other name; every other
step changes one status, removes one name, or leaves `users.byName` alone.

The same module has three more invariants. `Introduction`, for `EveryPairIntroduced`: a
pair that was not introduced is about to be, by the thread of one of the two
(`Introduced`). It needs that descriptors in the table lead to the connections
that have them (`Owned`), and that what a broadcast says is something to know
(`NotesTell`). The pair is asymmetric: who is added first may never be announced
to the other, but then the other is still to be announced to it, since a
broadcast goes to whoever is in the table when it is made.

`Departure`, for `NoGhosts`: a thread serves its own client's requests and
disconnects nobody else (`OwnRequest`); on its way out it takes from the table
every name under its number (`TakesItsOwn`), which is one because of
`Registration`; it closes the socket after that (`ClosesLast`); and a name whose
socket is closed belongs to a thread that is on its way out (`ClosedDeparts`).
INVITE is excluded because it breaks the first part, and with it the theorem: a
failed invitation disconnects the *addressee*, from the sender's thread, so that
the addressee's own thread can serve one more IDENTIFY between the removal from
the table and the close, and the new name stays (the scene `GhostMenu`).

`Accuracy`, for `NotificationsAccurate`: a thread that is about to announce
something speaks of its own user, who is still recorded, and says what the table
says (`SpeaksTheTruth`); a client has heard nothing before it comes in, and does
not come in twice (`HearsFromTheStart`); and what a client that is there has
heard of another user is what the table says, or that user's own thread is about
to correct it (`KnowsTheTruth`, `Corrects`). The announcements about one name
are in the right order because one thread makes them all, and between two
critical sections of that thread nobody else changes or removes its user. The
hypothesis `NobodyIsEvicted`, that no send of a broadcast fails so as to evict
somebody, is what makes that so (`RecordStays`): an eviction is by a name that
was copied earlier, and in the scene `HandoverMenu` with `a` vanishing the name
has passed to another client by then. Clients may still connect, vanish and
break the protocol at any time, and replies may fail.

`GoodClientsProofs` is about what a client that keeps to the protocol can count
on; all of it needs `~Reuse`, and the scenes above show what fails without. First,
a thread's lines are its own client's (`OwnLines`), since a recv waits on its own
socket or on none (`Owned`); so a fault in a line is that client's fault.

`Grounds` then joins why a thread sends somebody away (`SendsAwayForAReason`: they
have gone, or it is its own client, which broke the protocol), why a broadcast
evicts (`EvictsTheUnreachable`: the send failed because the client has gone), that
whoever is invited is or was a user (`InvitesUsers`), and that nothing follows a
client's DISCONNECT (`Farewell`), so that a request to disconnect is served only
once its client is leaving. `GoodClientsStayHolds` has three hypotheses, which are
the three ways in which the code takes out a client that did nothing wrong.
`TextsArrive`: a private text that cannot be written disconnects its *sender* (the
scene `LostAddresseeMenu`), and a public one that no longer fits evicts *everybody
else* (`LongTextMenu`). `EchoesFit`: a reply that repeats a name or a room as it was
typed may not fit its line, and that disconnects who asked (`EchoMenu`).
`NobodyInherits`: a removal is by a name that was read earlier, and the name may
have passed to somebody else (`HandoverMenu`). All three are about executions;
`GoodClientsStayByTheMenu` has none such, only what clients may ask: with the
invariant `ByTheMenu` (every name stays with a client that asks for it) it derives
them from `NamesApart`, `TextsFit` and `LinesFit`. It covers INVITEs, evictions,
failures and any number of clients.

`RoomsProofs` is about executions in which `OneAtATime` holds: a thread that
serves a request is the only one that does. That restricts when clients speak
and no step of the server, and the theorems need it: the scenes `InviteRaceMenu`,
`FounderGoneMenu` and `NamesakeMenu` break what they state, each with two
requests that overlap. Clients may still connect and vanish at any time, any send
may fail and evict others, and numbers may be handed out again. The invariant
`RoomsInv` has two parts. `RoomsInOrder`: every copy in a room is of a user of the
table with the same descriptor, because who leaves the chat is taken out of the
rooms before it leaves the table; its status is the table's, unless its own thread is between
changing it in the table and in the rooms (`Changing`); no name is guest and
member of a room. `Informed`: what a thread has learnt from the tables still
holds when it acts on it (the sender it copied is still in the table as copied, a
room it found still exists, a member it saw is still one, a room it opened is
still empty). Nothing but `OneAtATime` keeps that true, and without it the proof
fails where the scenes say: at `InviteAdd` and `NewRoomAddCreator`, where a copy goes
into a room after its original has left. `GuestOrMember`,
`RoomsForgetTheGone` and `RoomsKnowTheStatus` are parts of `RoomsInv`; `NobodyJoinsUninvited` and the refinement of `Chat` compare the
rooms before and after each action, with one lemma per table operation on what
it does to a room (`Copy*`, `Original*`).

That requests do not overlap is nothing the code or its clients ensure: it is the
case these theorems are about, and they say nothing of the others.

`TableHeapProofs`: the inductive invariant `HeapInv` says who is inside the mutex
(`MutualExclusion`, from places alone) and whose each cell is. A cell of the
table is under its own name (`TableLive`) and an index entry leads to a cell of
the table that records its key (`IndexLive`); what a thread has made and not yet
given away is in no table and nobody else's (`OwnedApart`); what it found under
the mutex is still so (`FoundUnderMutex`). A step under the mutex may assume that
the others are outside and rely on nothing; a step outside it, `malloc` or
`free`, touches a cell that no table points to. The index entry leaves before the
user is freed: without `remove_name`'s part of `FoundUnderMutex`, or with the two
removals in the other order, the proof fails at `RemoveByNameKeeps`. Descriptors
that several users record are allowed, as the code allows them.

The same module proves the order of broadcasts. `OneOrder` says that a line's
number is one its thread has used (`NumbersPast`), that a broadcast still waiting
for the mutex has reached nobody (`NothingSent`), and that one under way is the
last broadcast in every socket it has reached (`LatestLast`). It holds the mutex
meanwhile: no other broadcast can come between two of its addressees, or between
two pieces of its line.

`TableAtomicProofs` adds to `HeapInv` that no cell is lost (`NothingLost`) and
that what a thread has worked out of its call is what the call says it should be
(`Faithful`): the user it found is the one its key leads to, the user it is
adding has the name and the status it was called with, the entries it has
gathered are those it has passed. With that each step under the mutex is the instant
at which the abstract call takes effect, or changes nothing the abstract table
shows: `ValueKnown` gives the abstract table from the heap when no insertion or
removal is half done, and `InsertImplements`, `RemoveByFdImplements` and their
like compare it before and after.

`MessageLinesProofs`: `LineInv` says that the buffer holds exactly what `recv` has
returned and no line has used (`Gathered`), and starts where a line starts. That
a message is not cut (`LinesAreWhole`) follows because the array a line is copied
to is as large as the buffer it comes from. `UpToNow` says how far the served lines
have come: they are the lines (`LinesOf`) of as much of the text as has been taken
out of the buffer, the one under way apart. `LinesOf` goes through the text byte
by byte; that it adds nothing where there is no newline (`NoNewlineNoLine`) is an
induction on the text's length, made by way of a least counterexample.

`SessionProofs`: the invariant `SInv` joins what is known of a client's two loops
(`Lives`), that they fail on nothing but a reset and a reset means closed
(`FailuresMeanClosed`), that a number belongs to the connection that was accepted
with it and never comes back to one that lost it (`Numbering`), what a recv may
wait on (`Waiting`), that a connection which has a number has its thread, is the
newcomer, or was left behind (`Served`), and where a DISCONNECT is until it is
served (`GoodbyeOnItsWay`): in the connection, or in the buffer of a thread that
knows the client's number. The last two are what `DescriptorsAccountedFor` needs:
a thread may find its client gone and nothing to read although DISCONNECT was
sent, because another thread, left over from the number's former owner, has
received the line; but that thread still has it, and will close the number.

Only model-checked:

- `NotificationsAccurate` when clients invite each other or broadcasts evict
  somebody: it is proved for the other executions (above), and with evictions it
  is false in general (the `HandoverMenu` scene with `a` vanishing).
- `GoodClientsStay` on `Users`, whose two clients may ask for the same name: the
  hypothesis `NobodyInherits` of `GoodClientsStayHolds` is about its executions, and
  that two clients are too few to break it is what the run shows. With three it is
  false (`HandoverMenu` with `a` vanishing).
- `ActsForItsClient` on `Handover`: it is false by the kernel's rule for numbers,
  which is what `StrangersLine` shows, and is not stated as a theorem.
- everything with liveness, which is beyond this prover: `HandlersReturn`,
  `CallsReturn`, `ClientsEnd`, `GoodbyesFreeDescriptors`, `ShortLinesServed`, and
  the violated `RoomsMutexIsReleased` and `SigintStops`.

## Plan

Done: the server's core, the users table's mutex and heap, the line buffer, the
process and its shutdown, the client, and the abstract specifications `Lobby`,
`Chat` and `AtomicTable`; the invariants that passing runs check are proved under
the hypotheses named above, `ActsForItsClient` apart, and all three refinements:
those of `AtomicTable`, of `Lobby` (while only forgotten descriptor numbers are
handed out again) and of `Chat` (with one request at a time). Next:

1. Overlapping room requests as passing runs where the code is right, with a `Chat`
   weakened to what still holds then.
2. `USER_LIST` against the notifications it may contradict; requests with missing
   fields.

## Not modelled

`server_parse_args` and `server_resolve_port` (a sequential parse with its own
unit tests), `server_init` and `server_bind_and_listen` (start-up, before any
thread), `users_table_destroy` and `message_is_valid` (called by tests only),
logging and the client's view (output only), cJSON and glib (third party;
modelled by what the code uses of them).
