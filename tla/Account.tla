------------------------------ MODULE Account -------------------------------
(***************************************************************************)
(* The account component: AccountController, AccountUsecase,               *)
(* AccountService.updateBalance / point and the two account repositories.  *)
(*                                                                         *)
(* A request is one call of a handler: PATCH /accounts/points ("charge"),  *)
(* GET /accounts/:userId/points ("point"), or a payment.success or         *)
(* payment.fail message, both of which end in AccountUsecase.use ("use";   *)
(* the payment.fail handler passes no amount, so its amount is NaN).       *)
(* Between two awaits a handler runs alone; each await is a step of its    *)
(* own here, and pc names the await a request has reached.                 *)
(*                                                                         *)
(* AccountEntity has no index on userId, so under InnoDB's default         *)
(* isolation SELECT ... FOR UPDATE locks every row it scans on its way to  *)
(* the user's: two transactions always collide, and one lock stands for    *)
(* the table.                                                              *)
(***************************************************************************)
EXTENDS Integers, FiniteSets

CONSTANTS
    Requests,      \* the calls made over a behaviour
    Users,         \* the user ids that appear in calls
    Accounts,      \* those that own a row of the account table
    Amounts,       \* the amounts that appear in calls, negative ones too
    BadIds,        \* the ids refused: not positive, missing or no number
    NaN,           \* a JavaScript number that is not one (or undefined)
    Text,          \* an amount that is present and no number
    None,          \* no holder of the lock
    InitBalance,   \* the balance every account starts with
    MaxBalance,    \* the largest value of the int column account.balance
    PoolSize,      \* connections of the pool (db.config.ts: 20)
    RowCap         \* bound: event rows of one request are counted up to RowCap

ASSUME AccountAssumption ==
    /\ Accounts \subseteq Users
    /\ BadIds \subseteq Users \ Accounts
    /\ Amounts \subseteq Int
    /\ NaN \notin Int
    /\ Text \notin Int \cup {NaN}
    /\ None \notin Requests
    /\ InitBalance \in Nat
    /\ MaxBalance \in Nat
    /\ InitBalance <= MaxBalance
    /\ PoolSize \in Nat \ {0}
    /\ RowCap \in Nat \ {0}

MAX_RETRIES == 3

Movements == {"charge", "use"}

\* The body of a call is passed on as it came; extra tells whether its balance
\* and stat are absent or usable.  A message becomes two parsed numbers.
Jobs == [kind : Movements \cup {"point"}, user : Users,
         amount : Amounts \cup {NaN, Text}, extra : {"usable", "unusable"}]
Parsed(j) == j.kind = "use" => j.amount # Text /\ j.extra = "usable"
Numbers == Int \cup {NaN}
Transactions == [cur : Numbers, bal : Numbers, outbox : 0 .. RowCap,
                 inbox : 0 .. RowCap, retry : 0 .. MAX_RETRIES]

VARIABLES
    balance,       \* account.balance, committed
    history,       \* account_history: the sum of the rows of a user and a stat
    recorded,      \* the requests whose account_history row is committed
    outbox, inbox, \* committed event rows of each request, up to RowCap
    unacked,       \* the requests whose COMMIT was applied and not acknowledged
    lock,          \* the request whose transaction holds the account rows
    up,            \* is the server process running
    failed,        \* the requests that emitted payment.fail
    job,           \* what each request asks for
    pc,            \* the await each request has reached
    tx,            \* local variables and uncommitted rows of its transaction
    reply          \* how the request ended for its caller

tables == <<balance, history, recorded, outbox, inbox>>
durable == <<tables, unacked>>
vars == <<durable, lock, up, failed, job, pc, tx, reply>>

Holding == {"decide", "outbox", "inbox", "update", "record", "commit"}
InTx    == Holding \cup {"select"}
Active  == InTx \cup {"validate", "pool", "reply"}

NoTx == [cur |-> NaN, bal |-> NaN, outbox |-> 0, inbox |-> 0, retry |-> 0]

\* The type invariant: in particular no use counts more failures than MAX_RETRIES.
TypeOK ==
    /\ balance \in [Accounts -> Int]
    /\ history \in [Accounts -> [Movements -> Nat]]
    /\ recorded \subseteq Requests
    /\ outbox \in [Requests -> 0 .. RowCap]
    /\ inbox \in [Requests -> 0 .. RowCap]
    /\ unacked \subseteq Requests
    /\ lock \in Requests \cup {None}
    /\ up \in BOOLEAN
    /\ failed \subseteq Requests
    /\ job \in [Requests -> Jobs]
    /\ pc \in [Requests -> Active \cup {"idle", "end"}]
    /\ tx \in [Requests -> Transactions]
    /\ reply \in [Requests -> {"none", "ok", "error", "lost"}]

Init ==
    /\ balance = [u \in Accounts |-> InitBalance]
    /\ history = [u \in Accounts |-> [k \in Movements |-> 0]]
    /\ recorded = {}
    /\ outbox = [r \in Requests |-> 0]
    /\ inbox = [r \in Requests |-> 0]
    /\ unacked = {}
    /\ lock = None
    /\ up = TRUE
    /\ failed = {}
    /\ job \in [Requests -> {j \in Jobs : Parsed(j)}]
    /\ pc = [r \in Requests |-> "idle"]
    /\ tx = [r \in Requests |-> NoTx]
    /\ reply = [r \in Requests |-> "none"]

-----------------------------------------------------------------------------
(* JavaScript arithmetic and comparison: undefined and NaN are contagious,  *)
(* and every comparison with them is false.                                 *)

Plus(x, y)  == IF NaN \in {x, y} THEN NaN ELSE x + y
Minus(x, y) == IF NaN \in {x, y} THEN NaN ELSE x - y
Less(x, y)  == NaN \notin {x, y} /\ x < y

-----------------------------------------------------------------------------
(* How a request ends.                                                      *)

Http(r) == job[r].kind # "use"

\* The transaction wrapper rolls back and rethrows; Nest answers an error.
Reject(r) ==
    /\ pc' = [pc EXCEPT ![r] = "end"]
    /\ reply' = [reply EXCEPT ![r] = "error"]
    /\ tx' = [tx EXCEPT ![r] = NoTx]
    /\ lock' = IF lock = r THEN None ELSE lock
    /\ UNCHANGED up

\* The process dies: its connections close, every open transaction is rolled
\* back, and every call in flight is lost.
Die ==
    /\ pc' = [r \in Requests |-> IF pc[r] \in Active THEN "end" ELSE pc[r]]
    /\ reply' = [r \in Requests |-> IF pc[r] \in Active THEN "lost" ELSE reply[r]]
    /\ tx' = [r \in Requests |-> NoTx]
    /\ lock' = None
    /\ up' = FALSE

\* A message handler starts use() without awaiting it, so its rejection is
\* handled by nobody and ends the process.
Abandon(r) ==
    /\ IF Http(r) THEN Reject(r) ELSE Die
    /\ UNCHANGED <<failed, job>>

Fail(r) == Abandon(r) /\ UNCHANGED durable

-----------------------------------------------------------------------------
(* The steps of a request.                                                  *)

Goto(r, s) == pc' = [pc EXCEPT ![r] = s]

\* Mutant: a call that has ended is delivered again.
ReceiveAgain(r) ==
    /\ up
    /\ pc[r] \in {"idle", "end"}
    /\ Goto(r, "validate")
    /\ UNCHANGED <<durable, lock, up, failed, job, tx, reply>>

\* A call reaches its handler.
Receive(r) ==
    /\ up
    /\ pc[r] = "idle"
    /\ Goto(r, "validate")
    /\ UNCHANGED <<durable, lock, up, failed, job, tx, reply>>

\* AccountRequestModel.validate.  A missing amount passes.
Valid(j) ==
    /\ j.user \notin BadIds
    /\ j.extra = "usable"
    /\ j.amount # Text
    /\ ~ Less(j.amount, 0)

Validate(r) ==
    /\ pc[r] = "validate"
    /\ Valid(job[r])
    /\ Goto(r, "pool")
    /\ UNCHANGED <<durable, lock, up, failed, job, tx, reply>>

Invalid(r) ==
    /\ pc[r] = "validate"
    /\ ~ Valid(job[r])
    /\ Fail(r)

\* dataSource.transaction takes a connection of the pool, waiting for one.
Connect(r) ==
    /\ pc[r] = "pool"
    /\ Cardinality({q \in Requests : pc[q] \in InTx}) < PoolSize
    /\ Goto(r, "select")
    /\ UNCHANGED <<durable, lock, up, failed, job, tx, reply>>

Read(r) == IF job[r].user \in Accounts THEN balance[job[r].user] ELSE NaN

\* Mutant: a plain SELECT, without pessimistic_write.
SelectUnlocked(r) ==
    /\ pc[r] = "select"
    /\ lock' = r
    /\ tx' = [tx EXCEPT ![r].cur = Read(r)]
    /\ Goto(r, "decide")
    /\ UNCHANGED <<durable, up, failed, job, reply>>

\* SELECT ... FOR UPDATE.  A missing row becomes an empty response model, never
\* null, so the NotFoundException behind it is unreachable.
Select(r) ==
    /\ pc[r] = "select"
    /\ lock = None
    /\ lock' = r
    /\ tx' = [tx EXCEPT ![r].cur = Read(r)]
    /\ Goto(r, "decide")
    /\ UNCHANGED <<durable, up, failed, job, reply>>

\* Mutant: a lock wait without a time limit.
LockWaitNeverTimesOut(r) == FALSE /\ Fail(r)

\* innodb_lock_wait_timeout: the waiting statement fails.
LockWaitTimeout(r) ==
    /\ pc[r] = "select"
    /\ lock # None
    /\ Fail(r)

Query(r) ==
    /\ pc[r] = "decide"
    /\ job[r].kind = "point"
    /\ Goto(r, "commit")
    /\ UNCHANGED <<durable, lock, up, failed, job, tx, reply>>

Charge(r) ==
    /\ pc[r] = "decide"
    /\ job[r].kind = "charge"
    /\ tx' = [tx EXCEPT ![r].bal = Plus(job[r].amount, tx[r].cur)]
    /\ Goto(r, "update")
    /\ UNCHANGED <<durable, lock, up, failed, job, reply>>

\* Mutant: the balance is not compared with the amount.
UseUnchecked(r) ==
    /\ pc[r] = "decide"
    /\ job[r].kind = "use"
    /\ Goto(r, "outbox")
    /\ UNCHANGED <<durable, lock, up, failed, job, tx, reply>>

\* Mutant: the new balance is computed before the loop instead of behind the
\* first saved outbox row.
UseComputesEarly(r) ==
    /\ pc[r] = "decide"
    /\ job[r].kind = "use"
    /\ ~ Less(tx[r].cur, job[r].amount)
    /\ tx' = [tx EXCEPT ![r].bal = Minus(tx[r].cur, job[r].amount)]
    /\ Goto(r, "outbox")
    /\ UNCHANGED <<durable, lock, up, failed, job, reply>>

\* A use enters the retry loop when the balance is not known to be too small.
Use(r) ==
    /\ pc[r] = "decide"
    /\ job[r].kind = "use"
    /\ ~ Less(tx[r].cur, job[r].amount)
    /\ Goto(r, "outbox")
    /\ UNCHANGED <<durable, lock, up, failed, job, tx, reply>>

Insufficient(r) ==
    /\ pc[r] = "decide"
    /\ job[r].kind = "use"
    /\ Less(tx[r].cur, job[r].amount)
    /\ Fail(r)

-----------------------------------------------------------------------------
(* The retry loop of a use: while (retryCount < MAX_RETRIES).  A round that *)
(* succeeds starts the next one; only the third failure leaves the loop.    *)

OneMore(n) == IF n < RowCap THEN n + 1 ELSE RowCap

SaveOutBox(r) ==
    /\ pc[r] = "outbox"
    /\ LET t == tx[r] IN
       tx' = [tx EXCEPT ![r] = [t EXCEPT !.outbox = OneMore(t.outbox),
                                         !.bal = Minus(t.cur, job[r].amount)]]
    /\ Goto(r, "inbox")
    /\ UNCHANGED <<durable, lock, up, failed, job, reply>>

SaveInBox(r) ==
    /\ pc[r] = "inbox"
    /\ tx' = [tx EXCEPT ![r].inbox = OneMore(@)]
    /\ Goto(r, "outbox")
    /\ UNCHANGED <<durable, lock, up, failed, job, reply>>

\* Mutant: the failures are counted, but never compared with MAX_RETRIES.
SaveFailsUnbounded(r) ==
    /\ pc[r] \in {"outbox", "inbox"}
    /\ tx' = [tx EXCEPT ![r].retry = @ + 1]
    /\ Goto(r, "outbox")
    /\ UNCHANGED <<durable, lock, up, failed, job, reply>>

\* One of the two saves throws: count it, and at the third give up, emitting
\* payment.fail and falling through to the update.
SaveFails(r) ==
    /\ pc[r] \in {"outbox", "inbox"}
    /\ tx' = [tx EXCEPT ![r].retry = @ + 1]
    /\ \/ /\ tx[r].retry + 1 < MAX_RETRIES
          /\ Goto(r, "outbox")
          /\ UNCHANGED failed
       \/ /\ tx[r].retry + 1 = MAX_RETRIES
          /\ Goto(r, "update")
          /\ failed' = failed \cup {r}
    /\ UNCHANGED <<durable, lock, up, job, reply>>

-----------------------------------------------------------------------------

\* The column takes an integer in range; NaN and undefined never reach a row.
Storable(b) == b # NaN /\ b <= MaxBalance

Update(r) ==
    /\ pc[r] = "update"
    /\ Storable(tx[r].bal)
    /\ Goto(r, "record")
    /\ UNCHANGED <<durable, lock, up, failed, job, tx, reply>>

UpdateRefused(r) ==
    /\ pc[r] = "update"
    /\ ~ Storable(tx[r].bal)
    /\ Fail(r)

Record(r) ==
    /\ pc[r] = "record"
    /\ Goto(r, "commit")
    /\ UNCHANGED <<durable, lock, up, failed, job, tx, reply>>

\* The server applies the COMMIT; its acknowledgement is on the way at "reply".
Commit(r) ==
    /\ pc[r] = "commit"
    /\ IF job[r].kind = "point"
       THEN UNCHANGED tables
       ELSE LET u == job[r].user IN
            /\ balance' = [balance EXCEPT ![u] = tx[r].bal]
            /\ history' = [history EXCEPT ![u][job[r].kind] = @ + job[r].amount]
            /\ recorded' = recorded \cup {r}
            /\ outbox' = [outbox EXCEPT ![r] = tx[r].outbox]
            /\ inbox' = [inbox EXCEPT ![r] = tx[r].inbox]
    /\ lock' = None
    /\ Goto(r, "reply")
    /\ UNCHANGED <<unacked, up, failed, job, tx, reply>>

\* Mutant: a further statement is issued, and fails, behind the commit.
StatementFailsLate(r) ==
    /\ pc[r] \in {"select", "update", "record", "commit", "reply"}
    /\ Fail(r)

\* Any other statement of the transaction fails (a lost connection), the COMMIT
\* before the server has applied it.
StatementFails(r) ==
    /\ pc[r] \in {"select", "update", "record", "commit"}
    /\ Fail(r)

\* The connection is lost behind an applied COMMIT: the transaction wrapper
\* rethrows all the same.
AcknowledgementLost(r) ==
    /\ pc[r] = "reply"
    /\ unacked' = unacked \cup {r}
    /\ Abandon(r)
    /\ UNCHANGED tables

Reply(r) ==
    /\ pc[r] = "reply"
    /\ Goto(r, "end")
    /\ reply' = [reply EXCEPT ![r] = "ok"]
    /\ tx' = [tx EXCEPT ![r] = NoTx]
    /\ UNCHANGED <<durable, lock, up, failed, job>>

Crash ==
    /\ up
    /\ Die
    /\ UNCHANGED <<durable, failed, job>>

Restart ==
    /\ ~ up
    /\ up' = TRUE
    /\ UNCHANGED <<durable, lock, failed, job, pc, tx, reply>>

-----------------------------------------------------------------------------

\* What the process and the database do without anything going wrong.
Advance(r) ==
    \/ Validate(r) \/ Invalid(r) \/ Connect(r)
    \/ Select(r) \/ LockWaitTimeout(r)
    \/ Query(r) \/ Charge(r) \/ Use(r) \/ Insufficient(r)
    \/ SaveOutBox(r) \/ SaveInBox(r)
    \/ Update(r) \/ UpdateRefused(r) \/ Record(r) \/ Commit(r) \/ Reply(r)

Next ==
    \/ \E r \in Requests :
          \/ Receive(r) \/ Advance(r) \/ SaveFails(r)
          \/ StatementFails(r) \/ AcknowledgementLost(r)
    \/ Crash
    \/ Restart

Spec == Init /\ [][Next]_vars

(***************************************************************************)
(* Fairness: the event loop and the database eventually run whatever is    *)
(* ready, a lock wait eventually times out, and the process is restarted.  *)
(* No failure and no crash is fair.                                        *)
(***************************************************************************)
Fairness == WF_vars(Restart) /\ \A r \in Requests : WF_vars(Advance(r))
FairSpec == Spec /\ Fairness

-----------------------------------------------------------------------------
(* Safety.                                                                  *)

\* account.balance and account_history never drift apart, whatever runs
\* concurrently, fails or crashes: the committed balance is the initial one
\* plus every recorded charge minus every recorded use.
LedgerBalanced ==
    \A u \in Accounts :
        balance[u] = InitBalance + history[u]["charge"] - history[u]["use"]

\* No interleaving of uses overdraws an account, and none of charges pushes it
\* beyond its column: updateBalance checks the first, the database the second.
BalanceInRange == \A u \in Accounts : balance[u] \in 0 .. MaxBalance

\* The balance a transaction read is still the committed one when it writes:
\* the lock taken by AccountRepository.account is held up to the commit.
ReadIsFresh == \A r \in Requests : pc[r] \in Holding => tx[r].cur = Read(r)

\* A committed debit always comes with an outbox row of its own, and an inbox
\* row never without the outbox row it was made from, however often the two
\* saves of the retry loop failed.
DebitHasOutbox ==
    \A r \in Requests :
        /\ r \in recorded /\ job[r].kind = "use" => outbox[r] >= 1
        /\ inbox[r] <= outbox[r]

\* What the caller is told is what happened: an error means that nothing was
\* applied, unless the acknowledgement of the COMMIT itself was lost; a success
\* of a charge or a use means that it was.
AnswerIsTrue ==
    \A r \in Requests :
        /\ reply[r] = "error" /\ r \in recorded => r \in unacked
        /\ reply[r] = "ok" => job[r].kind = "point" \/ r \in recorded

-----------------------------------------------------------------------------
(* The inductive invariant behind the safety properties.                    *)

\* The holder of the rows is exactly the request inside its locked section.
LockInv == \A r \in Requests : pc[r] \in Holding <=> lock = r

\* What the local variables of a transaction hold at each of its awaits.
TxInv(r) ==
    LET amount == job[r].amount
        t == tx[r]
        at(S) == pc[r] \in S
    IN  /\ at({"idle", "validate", "pool", "select"}) => t = NoTx
        /\ at(InTx \cup {"pool"}) => Valid(job[r])
        /\ at({"decide"}) => t.bal = NaN
        /\ at({"outbox", "inbox"}) => job[r].kind = "use"
        /\ at({"update", "record"}) => job[r].kind # "point"
        /\ at(Holding) =>
              /\ t.cur = Read(r)
              /\ t.inbox <= t.outbox
              /\ t.bal # NaN => job[r].kind = "charge" \/ t.outbox >= 1
        /\ at({"inbox"}) => OneMore(t.inbox) <= t.outbox
        /\ at({"outbox", "inbox", "update", "record", "commit"}) =>
              /\ job[r].kind = "charge" => t.bal = Plus(amount, t.cur)
              /\ job[r].kind = "use" => /\ ~ Less(t.cur, amount)
                                        /\ t.bal \in {NaN, Minus(t.cur, amount)}
        /\ at({"record", "commit"}) => job[r].kind = "point" \/ Storable(t.bal)

\* What is committed for a request, and what its caller was told.
RecordInv(r) ==
    /\ r \in recorded => pc[r] \in {"reply", "end"}
    /\ pc[r] = "reply" => job[r].kind = "point" \/ r \in recorded
    /\ reply[r] # "none" => pc[r] = "end"

IndInv ==
    /\ TypeOK
    /\ LockInv
    /\ \A r \in Requests : TxInv(r) /\ RecordInv(r)
    /\ LedgerBalanced /\ BalanceInRange
    /\ DebitHasOutbox /\ AnswerIsTrue

-----------------------------------------------------------------------------
(* The account component implements the ledger.                             *)

status ==
    [r \in Requests |->
        IF r \in recorded THEN "applied"
        ELSE IF pc[r] \in {"reply", "end"} THEN "closed" ELSE "open"]

L == INSTANCE Ledger

\* Every behaviour of the component is one of Ledger.tla: movements are applied
\* atomically, at most once, and never after they were refused or lost.
ImplementsLedger == L!LedgerSpec

-----------------------------------------------------------------------------
(* Liveness.                                                                *)

\* Every HTTP call that reached its handler is answered, or lost with the
\* process: no waiting for the pool or the rows lasts for ever, although a use
\* that loops keeps both.
CallsEnd ==
    \A r \in Requests :
        (pc[r] = "validate" /\ Http(r)) ~> pc[r] = "end"

-----------------------------------------------------------------------------
(* What the tests and reports expect and the code does not do.              *)

\* STEP 16 report: payment.fail announces a payment that had no effect.
FailedPaymentNotDebited == failed \cap recorded = {}

\* payment.use-case.spec.ts: a payment event with enough balance is eventually
\* debited.  Here: once its loop is entered, the use ends at all.
UseSettles ==
    \A r \in Requests : pc[r] = "outbox" ~> pc[r] = "end"
=============================================================================
