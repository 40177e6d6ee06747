----------------------------- MODULE UsersTable -----------------------------
(***************************************************************************)
(* The value of a Users_Table (server/src/users_table.c) and what each of   *)
(* its operations does to it.  A table holds one heap-allocated User under   *)
(* two hash tables: `table` owns it under its name, `table_by_fd` points at  *)
(* it under its socket descriptor.  The second hash table is modelled as a   *)
(* map from descriptors to names, not to users: that is exact as long as     *)
(* every pointer in it is live, and Coherent says that it is.                *)
(*                                                                           *)
(* Every operation of users_table.c runs with the table's mutex held, so at  *)
(* this level an operation is one function of the table's value; TableHeap    *)
(* takes the operations apart and shows that they are no more than that.     *)
(***************************************************************************)
EXTENDS Naturals

\* g_hash_table_new for both directions.
EmptyTable == [byName |-> << >>, byFd |-> << >>]

Usernames(t) == DOMAIN t.byName

\* g_hash_table_lookup(table, username) and what *out_user receives
ContainsName(t, n) == n \in DOMAIN t.byName
ContainsFd(t, fd) == fd \in DOMAIN t.byFd
FindByName(t, n) == [name |-> n, fd |-> t.byName[n].fd, status |-> t.byName[n].status]
FindByFd(t, fd) == FindByName(t, t.byFd[fd])

\* Copies of all the users of the table, in no particular order.
UsersOf(t) == {FindByName(t, n) : n \in Usernames(t)}

(* users_table_add and users_table_add_with_status: refused when the name is
   taken, otherwise entered in both directions.  Nothing checks whether the
   descriptor is already indexed: the newcomer replaces it.                 *)
AddUser(t, n, fd, status) ==
  IF ContainsName(t, n) THEN t
  ELSE [byName |-> [m \in Usernames(t) \cup {n} |->
                      IF m = n THEN [fd |-> fd, status |-> status] ELSE t.byName[m]],
        byFd   |-> [f \in DOMAIN t.byFd \cup {fd} |-> IF f = fd THEN n ELSE t.byFd[f]]]

\* A mistake: the user is freed and its index entry stays.
RemoveUserKeepingIndex(t, n) ==
  [t EXCEPT !.byName = [m \in Usernames(t) \ {n} |-> t.byName[m]]]

\* users_table_remove: by name; the index entry of the user's descriptor goes
\* first, then the user.
RemoveUser(t, n) ==
  IF ~ContainsName(t, n) THEN t
  ELSE [byName |-> [m \in Usernames(t) \ {n} |-> t.byName[m]],
        byFd   |-> [f \in DOMAIN t.byFd \ {t.byName[n].fd} |-> t.byFd[f]]]

\* users_table_change_status_by_client_fd
ChangeStatusByFd(t, fd, status) ==
  IF ~ContainsFd(t, fd) THEN t
  ELSE [byName |-> [m \in Usernames(t) |->
                      IF m = t.byFd[fd] THEN [fd |-> t.byName[m].fd, status |-> status]
                      ELSE t.byName[m]],
        byFd   |-> t.byFd]

-----------------------------------------------------------------------------
(* The pointers of table_by_fd are live and point at a user that records that
   very descriptor.  A dangling one would be a use after free at the next
   users_table_find_by_client_fd.                                           *)
Coherent(t) ==
  \A fd \in DOMAIN t.byFd : /\ t.byFd[fd] \in Usernames(t)
                            /\ t.byName[t.byFd[fd]].fd = fd

\* The two directions describe the same users: no descriptor is recorded by
\* two users and every user can be found by its descriptor.
Agrees(t) ==
  /\ Coherent(t)
  /\ \A n \in Usernames(t) : /\ ContainsFd(t, t.byName[n].fd)
                             /\ t.byFd[t.byName[n].fd] = n
=============================================================================
