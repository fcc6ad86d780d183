--------------------------- MODULE MCReservation ----------------------------
(* Reservation.tla with enough calls for a seat to be reserved, confirmed    *)
(* and reserved again.  Calls are interchangeable, so Init needs only one    *)
(* order of every bag of jobs: a symmetry reduction liveness can live with.  *)
(* Nobody reads the user of a message, nor the seat of a rollback, so one    *)
(* job stands for those that differ only there.                              *)
EXTENDS Reservation

CONSTANT N
MCRequests == 1 .. N
MCUsers == 1 .. 2

Rank(j) == 10 * [reserve |-> 1, book |-> 2, rollback |-> 3][j.kind]
           + 2 * j.user + (IF j.seat = None THEN 0 ELSE 1)

MCInit ==
    /\ Init
    /\ \A r \in Requests :
          /\ job[r].kind # "reserve" => job[r].user = 1
          /\ job[r].kind = "rollback" => job[r].seat = None
    /\ \A r \in 1 .. N - 1 : Rank(job[r]) <= Rank(job[r + 1])

MCSpec == MCInit /\ [][Next]_vars /\ Fairness
=============================================================================
