----------------------------- MODULE MCTableHeap -----------------------------
(***************************************************************************)
(* Small instances of TableHeap: what each thread may call.                  *)
(***************************************************************************)
EXTENDS TableHeap

CONSTANTS x, y, z,     \* threads
          c1, c2, c3   \* cells

Add(n, f) == [op |-> "add", name |-> n, fd |-> f, status |-> "ACTIVE"]
ByName(op, n) == [op |-> op, by |-> "username", key |-> n]
ByFd(op, f) == [op |-> op, by |-> "client_fd", key |-> f]
ChangeByName(n) == [op |-> "change_status", by |-> "username", key |-> n, status |-> "AWAY"]
ChangeByFd(f) == [op |-> "change_status", by |-> "client_fd", key |-> f, status |-> "AWAY"]
Iterate == [op |-> "iterate"]
ForEach(f) == [op |-> "for_each", skip |-> f]
Reply(f) == [op |-> "send", fd |-> f]

(* Two clients that compete for a name or for a descriptor number, then tell
   everybody something; a third thread reads, changes and removes what they
   add.  Descriptor 3 belongs to nobody in the table.                       *)
TableMenu == [t \in Threads |->
  IF t = x THEN << {Add("ana", 1)}, {ForEach(3)} >>
  ELSE IF t = y THEN << {Add("ana", 2), Add("luz", 1), Add("luz", 2)},
                        {ForEach(3), ByFd("contains", 1)} >>
  ELSE << {ByName("remove", "ana"), ChangeByFd(1), ChangeByName("luz"), Add("", 3)},
          {ByFd("find", 1), Iterate, Reply(2)} >>]

\* A reply to the client of x meets what y tells everybody.
MixedMenu == [t \in Threads |->
  IF t = x THEN << {Add("ana", 1)}, {Reply(1)} >> ELSE << {ForEach(2)} >>]
=============================================================================
