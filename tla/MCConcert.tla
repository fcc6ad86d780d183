----------------------------- MODULE MCConcert -----------------------------
(***************************************************************************)
(* Two concerts and two plans, each plan with two seats: every content of   *)
(* the tables and every request, with or without a concert and a plan.      *)
(***************************************************************************)
EXTENDS Concert

MCIds == 1..2

MCSeats == 1..2
=============================================================================
