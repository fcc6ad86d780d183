---------------------------- MODULE MCTicketing -----------------------------
(* Ticketing.tla with two payments, points for two debits but not for three, *)
(* and an amount and an id that the account refuses (-1 and 0).              *)
EXTENDS Ticketing

MCPayments == {1, 2}
MCUsers == {11, 12}
MCBadIds == {0}
MCAmounts == {-1, 2}

\* One order of every pair, no id refused together with an amount, and the first
\* user is the one that pays alone.
Rank(o) == <<o.userId, IF o.amount = NaN THEN 0 ELSE o.amount>>
Before(a, b) == a[1] < b[1] \/ (a[1] = b[1] /\ a[2] <= b[2])
MCInit ==
    /\ Init
    /\ \A p \in Payments : order[p].userId \in BadIds => order[p].amount = 2
    /\ Before(Rank(order[1]), Rank(order[2]))
    /\ order[2].userId = 12 => order[1].userId = 11
MCSpec == MCInit /\ [][Next]_vars /\ Fairness
=============================================================================
