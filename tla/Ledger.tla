------------------------------- MODULE Ledger -------------------------------
(***************************************************************************)
(* What the account component promises: every accepted movement of points  *)
(* is applied to the balance at most once and in one step, a movement that *)
(* was closed without effect is never applied later, and the balance of an *)
(* account stays in range.  Nothing is said of locks, retries or event     *)
(* boxes.  Account.tla is shown to implement this specification.           *)
(***************************************************************************)
EXTENDS Integers

CONSTANTS
    Requests,      \* the calls made over a behaviour
    Accounts,      \* the users that own an account
    Jobs,          \* what a call may ask for
    InitBalance, MaxBalance

VARIABLES
    balance,       \* points of each account
    job,           \* what each call asks for
    status         \* "open", "applied" or "closed"

ledgerVars == <<balance, job, status>>

LedgerInit ==
    /\ balance = [u \in Accounts |-> InitBalance]
    /\ job \in [Requests -> Jobs]
    /\ status = [r \in Requests |-> "open"]

\* The balance an account holds after the movement of call r.
After(r) ==
    IF job[r].kind = "charge"
    THEN balance[job[r].user] + job[r].amount
    ELSE balance[job[r].user] - job[r].amount

Apply(r) ==
    /\ status[r] = "open"
    /\ job[r].kind \in {"charge", "use"}
    /\ job[r].user \in Accounts
    /\ job[r].amount \in Nat
    /\ After(r) \in 0 .. MaxBalance
    /\ balance' = [balance EXCEPT ![job[r].user] = After(r)]
    /\ status' = [status EXCEPT ![r] = "applied"]
    /\ UNCHANGED job

\* Calls end without moving a point: queries, refusals, and whatever was in
\* flight when the process died.
Close(S) ==
    /\ \A r \in S : status[r] = "open"
    /\ status' = [r \in Requests |-> IF r \in S THEN "closed" ELSE status[r]]
    /\ UNCHANGED <<balance, job>>

LedgerNext ==
    \/ \E r \in Requests : Apply(r)
    \/ \E S \in SUBSET Requests : Close(S)

LedgerSpec == LedgerInit /\ [][LedgerNext]_ledgerVars
=============================================================================
