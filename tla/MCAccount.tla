----------------------------- MODULE MCAccount ------------------------------
(* Account.tla on a small instance.  The amounts include one that is refused *)
(* by validation, one that fits the balance and one that does not (NaN).     *)
(* Jobs that are refused end alike, so one of a kind stands for each reason; *)
(* and calls are interchangeable, so Init needs only one order of every bag  *)
(* of jobs: symmetry reductions that liveness can live with.  A point has no *)
(* amount.                                                                   *)
EXTENDS Account

CONSTANT N
MCRequests == 1 .. N
MCUsers == 0 .. 2
MCAccounts == {1}
MCBadIds == {0}
MCAmounts == {-1, 2}
MCPositive == {2}

\* One refused job for each test of validate(), and one refused message.
RefusedJobs ==
    {[kind |-> k, user |-> 1, amount |-> -1, extra |-> "usable"] : k \in Movements} \cup
    {[kind |-> "point", user |-> 0, amount |-> NaN, extra |-> "usable"],
     [kind |-> "charge", user |-> 1, amount |-> Text, extra |-> "usable"],
     [kind |-> "charge", user |-> 1, amount |-> 2, extra |-> "unusable"]}

Rank(j) == 40 * (CASE j.kind = "charge" -> 1 [] j.kind = "use" -> 2 [] OTHER -> 3)
           + 10 * j.user
           + (IF j.extra = "unusable" THEN 5 ELSE 0)
           + (CASE j.amount = NaN -> 0 [] j.amount = Text -> 3 [] OTHER -> j.amount)

MCInit ==
    /\ Init
    /\ \A r \in Requests : Valid(job[r]) \/ job[r] \in RefusedJobs
    /\ \A r \in Requests : job[r].kind = "point" => job[r].amount = NaN
    /\ \A r \in 1 .. N - 1 : Rank(job[r]) <= Rank(job[r + 1])

MCSpec == MCInit /\ [][Next]_vars
MCFairSpec == MCSpec /\ Fairness
=============================================================================
