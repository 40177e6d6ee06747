---------------------------- MODULE MCChatSession ----------------------------
(***************************************************************************)
(* A server and two clients; one of them types, both may leave.               *)
(***************************************************************************)
EXTENDS ChatSession

CONSTANTS ana, luis    \* clients

\* The other user only watches, and leaves by Ctrl-C if at all.
OneTalks == [k \in Clients |-> IF k = ana THEN Lines ELSE {}]
=============================================================================
