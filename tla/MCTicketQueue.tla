--------------------------- MODULE MCTicketQueue ----------------------------
(* TicketQueue.tla with two users who hold a token of the external issuer,   *)
(* and a token of the service for one of them.  In the instance for          *)
(* liveness the users wait in different queues, and the one the service      *)
(* issues a token for has no row.                                            *)
EXTENDS TicketQueue

CONSTANTS e1, e2, i1
MCUuids == {e1, e2, i1}
MCExternal == {e1, e2}
MCUsers == 1 .. 2
MCFirst == {1}
MCHolder == [i \in MCUuids |-> IF i = e2 THEN 2 ELSE 1]
MCStranger == [i \in MCUuids |-> IF i = e1 THEN 1 ELSE 2]
MCOneQueue == [i \in MCExternal |-> 0]
MCTwoQueues == [i \in MCExternal |-> IF i = e1 THEN 0 ELSE 1]

Symmetry == Permutations(Requests) \cup Permutations(Runs)
=============================================================================
