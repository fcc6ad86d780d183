------------------------------ MODULE SeatBook -------------------------------
(***************************************************************************)
(* What the reservation component promises of its rows: a reserve or a book *)
(* of a seat is applied at most once, in one step and to the row as it is   *)
(* then; a call that ended without effect is never applied later; and       *)
(* nothing else, a rollback least of all, changes a row.  Nothing is said   *)
(* of transactions, locks or event boxes.  That a seat is free when it is   *)
(* reserved is not promised.                                                *)
(* Reservation.tla is shown to implement this specification.                *)
(***************************************************************************)
CONSTANTS
    Requests,      \* the calls made over a behaviour
    Seats,         \* the rows of the reservation table
    Jobs,          \* what a call may ask for
    None           \* no holder

VARIABLES
    row,           \* status and holder of each seat
    job,           \* what each call asks for
    status         \* "open", "applied" or "closed"

bookVars == <<row, job, status>>

BookInit ==
    /\ row = [s \in Seats |-> [status |-> "available", holder |-> None]]
    /\ job \in [Requests -> Jobs]
    /\ status = [r \in Requests |-> "open"]

\* A reserve takes the seat for its user, a book confirms whoever has it.
Reserved(r) == [status |-> "temp", holder |-> job[r].user]
Confirmed(s) == [row[s] EXCEPT !.status = "confimed"]

Apply(r, s) ==
    /\ status[r] = "open"
    /\ job[r].seat = s
    /\ \/ job[r].kind = "reserve" /\ row' = [row EXCEPT ![s] = Reserved(r)]
       \/ job[r].kind = "book" /\ row' = [row EXCEPT ![s] = Confirmed(s)]
    /\ status' = [status EXCEPT ![r] = "applied"]
    /\ UNCHANGED job

\* Calls end without touching a row: refusals, swallowed errors, rollbacks, and
\* whatever was under way when the process died.
Close(S) ==
    /\ \A r \in S : status[r] = "open"
    /\ status' = [r \in Requests |-> IF r \in S THEN "closed" ELSE status[r]]
    /\ UNCHANGED <<row, job>>

BookNext ==
    \/ \E r \in Requests, s \in Seats : Apply(r, s)
    \/ \E S \in SUBSET Requests : Close(S)

BookSpec == BookInit /\ [][BookNext]_bookVars
=============================================================================
