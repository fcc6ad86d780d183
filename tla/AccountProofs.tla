--------------------------- MODULE AccountProofs ----------------------------
(***************************************************************************)
(* The safety properties of Account.tla for every value of its constants.  *)
(* IndInv is shown to be inductive: one lemma per action, each through one  *)
(* of two frame lemmas (MovesOne: a step that concerns a single request and *)
(* leaves the database alone; DieInd: the death of the process).  Commit,   *)
(* the only step that writes the database, is proved conjunct by conjunct.  *)
(***************************************************************************)
EXTENDS Account, TLAPS

\* The stages of a request are compared, and the rows kept, everywhere.
USE DEF Holding, InTx, Active, Goto, durable, tables

\* Before any call was received the invariant holds.
LEMMA InitInd == Init => IndInv
  BY AccountAssumption
  DEF Init, IndInv, TypeOK, LockInv, TxInv, RecordInv, LedgerBalanced, BalanceInRange,
      DebitHasOutbox, AnswerIsTrue, Jobs, Numbers, Transactions, Movements, NoTx, Less,
      MAX_RETRIES

-----------------------------------------------------------------------------
(* The arithmetic of the handlers stays within Numbers.                     *)

\* Sums and differences of JavaScript numbers are numbers, or NaN.
LEMMA ArithmeticType ==
    ASSUME NEW x \in Numbers, NEW y \in Numbers
    PROVE  Plus(x, y) \in Numbers /\ Minus(x, y) \in Numbers
  BY DEF Numbers, Plus, Minus

\* What TypeOK says of the operands.
LEMMA OperandType ==
    ASSUME TypeOK, NEW r \in Requests, Valid(job[r])
    PROVE  /\ job[r].amount \in Numbers
           /\ tx[r].cur \in Numbers /\ tx[r].bal \in Numbers
  BY AccountAssumption DEF TypeOK, Jobs, Numbers, Transactions, Valid

-----------------------------------------------------------------------------
(* Frame lemmas.                                                            *)

\* A step that changes nothing but the stage, the transaction and the answer of
\* request r, and the holder of the rows, only has to look after r.
MovesOne(r) ==
    /\ UNCHANGED <<tables, job>>
    /\ unacked \subseteq unacked'
    /\ \A q \in Requests \ {r} :
          pc'[q] = pc[q] /\ tx'[q] = tx[q] /\ reply'[q] = reply[q]

\* For such a step only the request that moves needs to be looked at.
LEMMA MovesOneInd ==
    ASSUME IndInv, NEW r \in Requests, MovesOne(r),
           TypeOK', LockInv', TxInv(r)', RecordInv(r)',
           reply'[r] = "error" /\ r \in recorded => r \in unacked',
           reply'[r] = "ok" => job[r].kind = "point" \/ r \in recorded
    PROVE  IndInv'
  <1>1. ASSUME NEW q \in Requests PROVE TxInv(q)' /\ RecordInv(q)'
    <2>1. CASE q = r
      BY <2>1
    <2>2. CASE q # r
      <3>1. TxInv(q) /\ RecordInv(q)
        BY DEF IndInv
      <3>2. /\ pc'[q] = pc[q] /\ tx'[q] = tx[q] /\ reply'[q] = reply[q]
            /\ job' = job /\ recorded' = recorded /\ Read(q)' = Read(q)
        BY <2>2 DEF MovesOne, Read
      <3> QED BY <3>1, <3>2 DEF TxInv, RecordInv
    <2> QED BY <2>1, <2>2
  <1>2. LedgerBalanced' /\ BalanceInRange' /\ DebitHasOutbox'
    BY DEF IndInv, MovesOne, LedgerBalanced, BalanceInRange, DebitHasOutbox
  <1>3. AnswerIsTrue'
    <2>1. \A q \in Requests \ {r} : reply'[q] = reply[q]
      BY DEF MovesOne
    <2>2. recorded' = recorded /\ job' = job /\ unacked \subseteq unacked'
      BY DEF MovesOne
    <2> QED BY <2>1, <2>2 DEF IndInv, AnswerIsTrue
  <1> QED BY <1>1, <1>2, <1>3 DEF IndInv

\* The death of the process rolls back what is open and touches nothing durable.
LEMMA DieInd ==
    ASSUME IndInv, Die, UNCHANGED <<tables, failed, job>>,
           unacked \subseteq unacked', unacked' \subseteq Requests
    PROVE  IndInv'
  <1>1. TypeOK'
    <2>1. NoTx \in Transactions
      BY AccountAssumption DEF NoTx, Transactions, Numbers, MAX_RETRIES
    <2>2. /\ pc' \in [Requests -> Active \cup {"idle", "end"}]
          /\ reply' \in [Requests -> {"none", "ok", "error", "lost"}]
      BY DEF IndInv, TypeOK, Die
    <2> QED BY <2>1, <2>2 DEF IndInv, TypeOK, Die
  <1>2. LockInv'
    BY AccountAssumption DEF IndInv, TypeOK, LockInv, Die
  <1>3. ASSUME NEW q \in Requests PROVE TxInv(q)' /\ RecordInv(q)'
    BY DEF IndInv, TypeOK, TxInv, RecordInv, Die
  <1>4. LedgerBalanced' /\ BalanceInRange' /\ DebitHasOutbox'
    BY DEF IndInv, LedgerBalanced, BalanceInRange, DebitHasOutbox
  <1>5. AnswerIsTrue'
    BY DEF IndInv, TypeOK, AnswerIsTrue, Die
  <1> QED BY <1>1, <1>2, <1>3, <1>4, <1>5 DEF IndInv

\* A call that fails before its commit leaves no trace.
LEMMA FailInd ==
    ASSUME IndInv, NEW r \in Requests, Fail(r), pc[r] \in Active \ {"reply"}
    PROVE  IndInv'
  <1>1. CASE Http(r)
    <2>1. /\ Reject(r)
          /\ UNCHANGED <<durable, failed, job>>
      BY <1>1 DEF Fail, Abandon
    <2>2. TypeOK'
      BY <2>1, AccountAssumption
      DEF IndInv, TypeOK, Reject, NoTx, Transactions, Numbers, MAX_RETRIES
    <2>3. LockInv'
      BY <2>1, AccountAssumption DEF IndInv, TypeOK, LockInv, Reject
    <2>4. TxInv(r)' /\ RecordInv(r)' /\ r \notin recorded
      BY <2>1 DEF IndInv, TypeOK, TxInv, RecordInv, Reject
    <2>5. MovesOne(r) /\ reply'[r] = "error"
      BY <2>1 DEF IndInv, TypeOK, MovesOne, Reject
    <2> QED BY <2>2, <2>3, <2>4, <2>5, MovesOneInd
  <1>2. CASE ~ Http(r)
    BY <1>2, DieInd DEF Fail, Abandon, IndInv, TypeOK
  <1> QED BY <1>1, <1>2

\* A call whose COMMIT was applied and not acknowledged ends as a failed one does.
LEMMA AcknowledgementLostInd ==
    ASSUME IndInv, NEW r \in Requests, AcknowledgementLost(r)
    PROVE  IndInv'
  <1>1. /\ pc[r] = "reply" /\ unacked' = unacked \cup {r}
        /\ UNCHANGED <<tables, failed, job>>
    BY DEF AcknowledgementLost, Abandon
  <1>2. CASE Http(r)
    <2>1. Reject(r)
      BY <1>2 DEF AcknowledgementLost, Abandon
    <2>2. TypeOK'
      BY <1>1, <2>1, AccountAssumption
      DEF IndInv, TypeOK, Reject, NoTx, Transactions, Numbers, MAX_RETRIES
    <2>3. LockInv'
      BY <1>1, <2>1, AccountAssumption DEF IndInv, TypeOK, LockInv, Reject
    <2>4. TxInv(r)' /\ RecordInv(r)'
      BY <1>1, <2>1 DEF IndInv, TypeOK, TxInv, RecordInv, Reject
    <2>5. MovesOne(r) /\ reply'[r] = "error"
      BY <1>1, <2>1 DEF IndInv, TypeOK, MovesOne, Reject
    <2> QED BY <1>1, <2>2, <2>3, <2>4, <2>5, MovesOneInd
  <1>3. CASE ~ Http(r)
    <2>1. Die
      BY <1>3 DEF AcknowledgementLost, Abandon
    <2>2. unacked \subseteq unacked' /\ unacked' \subseteq Requests
      BY <1>1 DEF IndInv, TypeOK
    <2> QED BY <1>1, <2>1, <2>2, DieInd
  <1> QED BY <1>2, <1>3

-----------------------------------------------------------------------------
(* One lemma per action.                                                    *)

LEMMA ReceiveInd == ASSUME IndInv, NEW r \in Requests, Receive(r) PROVE IndInv'
  <1>1. TypeOK'
    BY AccountAssumption DEF IndInv, TypeOK, Receive
  <1>2. LockInv'
    BY AccountAssumption DEF IndInv, TypeOK, LockInv, Receive
  <1>3. TxInv(r)' /\ RecordInv(r)'
    BY AccountAssumption DEF IndInv, TypeOK, TxInv, RecordInv, Receive
  <1>4. MovesOne(r)
    BY DEF IndInv, TypeOK, MovesOne, Receive
  <1>5. /\ reply'[r] = "error" /\ r \in recorded => r \in unacked'
        /\ reply'[r] = "ok" => job[r].kind = "point" \/ r \in recorded
    BY DEF IndInv, TypeOK, RecordInv, AnswerIsTrue, Receive
  <1> QED BY <1>1, <1>2, <1>3, <1>4, <1>5, MovesOneInd

LEMMA ValidateInd == ASSUME IndInv, NEW r \in Requests, Validate(r) PROVE IndInv'
  <1>1. TypeOK'
    BY AccountAssumption DEF IndInv, TypeOK, Validate
  <1>2. LockInv'
    BY AccountAssumption DEF IndInv, TypeOK, LockInv, Validate
  <1>3. TxInv(r)' /\ RecordInv(r)'
    BY AccountAssumption DEF IndInv, TypeOK, TxInv, RecordInv, Validate, NoTx
  <1>4. MovesOne(r)
    BY DEF IndInv, TypeOK, MovesOne, Validate
  <1>5. /\ reply'[r] = "error" /\ r \in recorded => r \in unacked'
        /\ reply'[r] = "ok" => job[r].kind = "point" \/ r \in recorded
    BY DEF IndInv, TypeOK, RecordInv, AnswerIsTrue, Validate
  <1> QED BY <1>1, <1>2, <1>3, <1>4, <1>5, MovesOneInd

LEMMA ConnectInd == ASSUME IndInv, NEW r \in Requests, Connect(r) PROVE IndInv'
  <1>1. TypeOK'
    BY AccountAssumption DEF IndInv, TypeOK, Connect
  <1>2. LockInv'
    BY AccountAssumption DEF IndInv, TypeOK, LockInv, Connect
  <1>3. TxInv(r)' /\ RecordInv(r)'
    BY AccountAssumption DEF IndInv, TypeOK, TxInv, RecordInv, Connect
  <1>4. MovesOne(r)
    BY DEF IndInv, TypeOK, MovesOne, Connect
  <1>5. /\ reply'[r] = "error" /\ r \in recorded => r \in unacked'
        /\ reply'[r] = "ok" => job[r].kind = "point" \/ r \in recorded
    BY DEF IndInv, TypeOK, RecordInv, AnswerIsTrue, Connect
  <1> QED BY <1>1, <1>2, <1>3, <1>4, <1>5, MovesOneInd

LEMMA SelectInd == ASSUME IndInv, NEW r \in Requests, Select(r) PROVE IndInv'
  <1>1. TypeOK'
    <2>1. Read(r) \in Numbers
      BY DEF IndInv, TypeOK, Read, Numbers
    <2>2. [tx[r] EXCEPT !.cur = Read(r)] \in Transactions
      BY <2>1 DEF IndInv, TypeOK, Transactions
    <2> QED BY <2>2 DEF IndInv, TypeOK, Select
  <1>2. LockInv'
    BY AccountAssumption DEF IndInv, TypeOK, LockInv, Select
  <1>3. TxInv(r)' /\ RecordInv(r)'
    BY AccountAssumption DEF IndInv, TypeOK, TxInv, RecordInv, Select, NoTx, Read
  <1>4. MovesOne(r)
    BY DEF IndInv, TypeOK, MovesOne, Select
  <1>5. /\ reply'[r] = "error" /\ r \in recorded => r \in unacked'
        /\ reply'[r] = "ok" => job[r].kind = "point" \/ r \in recorded
    BY DEF IndInv, TypeOK, RecordInv, AnswerIsTrue, Select
  <1> QED BY <1>1, <1>2, <1>3, <1>4, <1>5, MovesOneInd

LEMMA QueryInd == ASSUME IndInv, NEW r \in Requests, Query(r) PROVE IndInv'
  <1>1. TypeOK'
    BY AccountAssumption DEF IndInv, TypeOK, Query
  <1>2. LockInv'
    BY AccountAssumption DEF IndInv, TypeOK, LockInv, Query
  <1>3. TxInv(r)' /\ RecordInv(r)'
    BY AccountAssumption DEF IndInv, TypeOK, TxInv, RecordInv, Query, Read
  <1>4. MovesOne(r)
    BY DEF IndInv, TypeOK, MovesOne, Query
  <1>5. /\ reply'[r] = "error" /\ r \in recorded => r \in unacked'
        /\ reply'[r] = "ok" => job[r].kind = "point" \/ r \in recorded
    BY DEF IndInv, TypeOK, RecordInv, AnswerIsTrue, Query
  <1> QED BY <1>1, <1>2, <1>3, <1>4, <1>5, MovesOneInd

LEMMA ChargeInd == ASSUME IndInv, NEW r \in Requests, Charge(r) PROVE IndInv'
  <1>1. TypeOK'
    <2>1. Plus(job[r].amount, tx[r].cur) \in Numbers
      BY ArithmeticType, OperandType DEF IndInv, TxInv, Charge
    <2>2. [tx[r] EXCEPT !.bal = Plus(job[r].amount, tx[r].cur)] \in Transactions
      BY <2>1 DEF IndInv, TypeOK, Transactions
    <2> QED BY <2>2 DEF IndInv, TypeOK, Charge
  <1>2. LockInv'
    BY AccountAssumption DEF IndInv, TypeOK, LockInv, Charge
  <1>3. TxInv(r)' /\ RecordInv(r)'
    BY AccountAssumption DEF IndInv, TypeOK, TxInv, RecordInv, Charge,
       Read, Plus, NoTx, Jobs, Numbers
  <1>4. MovesOne(r)
    BY DEF IndInv, TypeOK, MovesOne, Charge
  <1>5. /\ reply'[r] = "error" /\ r \in recorded => r \in unacked'
        /\ reply'[r] = "ok" => job[r].kind = "point" \/ r \in recorded
    BY DEF IndInv, TypeOK, RecordInv, AnswerIsTrue, Charge
  <1> QED BY <1>1, <1>2, <1>3, <1>4, <1>5, MovesOneInd

LEMMA UseInd == ASSUME IndInv, NEW r \in Requests, Use(r) PROVE IndInv'
  <1>1. TypeOK'
    BY AccountAssumption DEF IndInv, TypeOK, Use
  <1>2. LockInv'
    BY AccountAssumption DEF IndInv, TypeOK, LockInv, Use
  <1>3. TxInv(r)' /\ RecordInv(r)'
    BY AccountAssumption DEF IndInv, TypeOK, TxInv, RecordInv, Use, Read, NoTx
  <1>4. MovesOne(r)
    BY DEF IndInv, TypeOK, MovesOne, Use
  <1>5. /\ reply'[r] = "error" /\ r \in recorded => r \in unacked'
        /\ reply'[r] = "ok" => job[r].kind = "point" \/ r \in recorded
    BY DEF IndInv, TypeOK, RecordInv, AnswerIsTrue, Use
  <1> QED BY <1>1, <1>2, <1>3, <1>4, <1>5, MovesOneInd

LEMMA SaveOutBoxInd == ASSUME IndInv, NEW r \in Requests, SaveOutBox(r) PROVE IndInv'
  <1> DEFINE t == tx[r]
             n == OneMore(t.outbox)
             b == Minus(t.cur, job[r].amount)
             new == [t EXCEPT !.outbox = n, !.bal = b]
  <1>1. tx' = [tx EXCEPT ![r] = new] /\ t \in Transactions
    BY DEF IndInv, TypeOK, SaveOutBox
  <1>2. b \in Numbers
    BY ArithmeticType, OperandType DEF IndInv, TxInv, SaveOutBox
  <1>3. n \in 0 .. RowCap /\ n >= 1 /\ n >= t.outbox /\ OneMore(t.inbox) <= n
    <2>1. t.outbox \in 0 .. RowCap /\ t.inbox \in 0 .. RowCap
      BY <1>1 DEF Transactions
    <2>2. t.inbox <= t.outbox
      BY DEF IndInv, TxInv, SaveOutBox
    <2> QED BY <2>1, <2>2, AccountAssumption DEF OneMore
  <1>4. new \in Transactions
    <2> HIDE DEF n, b
    <2> QED BY <1>1, <1>2, <1>3 DEF Transactions
  <1>5. /\ tx'[r].outbox = n /\ tx'[r].bal = b
        /\ tx'[r].cur = t.cur /\ tx'[r].inbox = t.inbox
    <2> HIDE DEF n, b
    <2> QED BY <1>1 DEF IndInv, TypeOK, Transactions
  <1>6. TypeOK'
    <2> HIDE DEF new
    <2> QED BY <1>1, <1>4 DEF IndInv, TypeOK, SaveOutBox
  <1>7. LockInv'
    BY AccountAssumption DEF IndInv, TypeOK, LockInv, SaveOutBox
  <1>8. TxInv(r)' /\ RecordInv(r)'
    <2>1. /\ pc[r] = "outbox" /\ pc'[r] = "inbox" /\ job' = job
          /\ reply' = reply /\ recorded' = recorded /\ Read(r)' = Read(r)
      BY DEF IndInv, TypeOK, SaveOutBox, Read
    <2>2. TxInv(r) /\ RecordInv(r)
      BY DEF IndInv
    <2> HIDE DEF n, b
    <2>3. RecordInv(r)'
      BY <2>1, <2>2 DEF RecordInv
    <2>4. TxInv(r)'
      <3>1. OneMore(tx[r].inbox)' = OneMore(t.inbox)
        BY <1>5 DEF OneMore
      <3>2. tx'[r].inbox <= tx'[r].outbox
        BY <1>1, <1>3, <1>5, <2>1, <2>2 DEF TxInv, Transactions
      <3>3. tx'[r].bal \in {NaN, Minus(t.cur, job[r].amount)}
        BY <1>5 DEF b
      <3> QED BY <1>3, <1>5, <2>1, <2>2, <3>1, <3>2, <3>3 DEF TxInv, Minus
    <2> QED BY <2>3, <2>4
  <1>9. MovesOne(r)
    BY DEF IndInv, TypeOK, MovesOne, SaveOutBox
  <1>10. /\ reply'[r] = "error" /\ r \in recorded => r \in unacked'
         /\ reply'[r] = "ok" => job[r].kind = "point" \/ r \in recorded
    BY DEF IndInv, TypeOK, RecordInv, AnswerIsTrue, SaveOutBox
  <1> QED BY <1>6, <1>7, <1>8, <1>9, <1>10, MovesOneInd

LEMMA SaveInBoxInd == ASSUME IndInv, NEW r \in Requests, SaveInBox(r) PROVE IndInv'
  <1>1. TypeOK'
    <2>1. OneMore(tx[r].inbox) \in 0 .. RowCap
      BY AccountAssumption DEF IndInv, TypeOK, OneMore, Transactions
    <2>2. [tx[r] EXCEPT !.inbox = OneMore(@)] \in Transactions
      BY <2>1 DEF IndInv, TypeOK, Transactions
    <2> QED BY <2>2 DEF IndInv, TypeOK, SaveInBox
  <1>2. LockInv'
    BY AccountAssumption DEF IndInv, TypeOK, LockInv, SaveInBox
  <1>3. TxInv(r)' /\ RecordInv(r)'
    BY AccountAssumption DEF IndInv, TypeOK, TxInv, RecordInv, SaveInBox,
       Read, OneMore
  <1>4. MovesOne(r)
    BY DEF IndInv, TypeOK, MovesOne, SaveInBox
  <1>5. /\ reply'[r] = "error" /\ r \in recorded => r \in unacked'
        /\ reply'[r] = "ok" => job[r].kind = "point" \/ r \in recorded
    BY DEF IndInv, TypeOK, RecordInv, AnswerIsTrue, SaveInBox
  <1> QED BY <1>1, <1>2, <1>3, <1>4, <1>5, MovesOneInd

LEMMA SaveFailsInd == ASSUME IndInv, NEW r \in Requests, SaveFails(r) PROVE IndInv'
  <1>1. TypeOK'
    <2>1. [tx[r] EXCEPT !.retry = @ + 1] \in Transactions
      BY DEF IndInv, TypeOK, SaveFails, Transactions, MAX_RETRIES
    <2> QED BY <2>1 DEF IndInv, TypeOK, SaveFails
  <1>2. LockInv'
    BY AccountAssumption DEF IndInv, TypeOK, LockInv, SaveFails
  <1>3. TxInv(r)' /\ RecordInv(r)'
    BY AccountAssumption DEF IndInv, TypeOK, TxInv, RecordInv, SaveFails,
       Read, Jobs, Numbers
  <1>4. MovesOne(r)
    BY DEF IndInv, TypeOK, MovesOne, SaveFails
  <1>5. /\ reply'[r] = "error" /\ r \in recorded => r \in unacked'
        /\ reply'[r] = "ok" => job[r].kind = "point" \/ r \in recorded
    BY DEF IndInv, TypeOK, RecordInv, AnswerIsTrue, SaveFails
  <1> QED BY <1>1, <1>2, <1>3, <1>4, <1>5, MovesOneInd

LEMMA UpdateInd == ASSUME IndInv, NEW r \in Requests, Update(r) PROVE IndInv'
  <1>1. TypeOK'
    BY AccountAssumption DEF IndInv, TypeOK, Update
  <1>2. LockInv'
    BY AccountAssumption DEF IndInv, TypeOK, LockInv, Update
  <1>3. TxInv(r)' /\ RecordInv(r)'
    BY AccountAssumption DEF IndInv, TypeOK, TxInv, RecordInv, Update, Read
  <1>4. MovesOne(r)
    BY DEF IndInv, TypeOK, MovesOne, Update
  <1>5. /\ reply'[r] = "error" /\ r \in recorded => r \in unacked'
        /\ reply'[r] = "ok" => job[r].kind = "point" \/ r \in recorded
    BY DEF IndInv, TypeOK, RecordInv, AnswerIsTrue, Update
  <1> QED BY <1>1, <1>2, <1>3, <1>4, <1>5, MovesOneInd

LEMMA RecordInd == ASSUME IndInv, NEW r \in Requests, Record(r) PROVE IndInv'
  <1>1. TypeOK'
    BY AccountAssumption DEF IndInv, TypeOK, Record
  <1>2. LockInv'
    BY AccountAssumption DEF IndInv, TypeOK, LockInv, Record
  <1>3. TxInv(r)' /\ RecordInv(r)'
    BY AccountAssumption DEF IndInv, TypeOK, TxInv, RecordInv, Record, Read
  <1>4. MovesOne(r)
    BY DEF IndInv, TypeOK, MovesOne, Record
  <1>5. /\ reply'[r] = "error" /\ r \in recorded => r \in unacked'
        /\ reply'[r] = "ok" => job[r].kind = "point" \/ r \in recorded
    BY DEF IndInv, TypeOK, RecordInv, AnswerIsTrue, Record
  <1> QED BY <1>1, <1>2, <1>3, <1>4, <1>5, MovesOneInd

LEMMA ReplyInd == ASSUME IndInv, NEW r \in Requests, Reply(r) PROVE IndInv'
  <1>1. TypeOK'
    <2>1. NoTx \in Transactions
      BY AccountAssumption DEF NoTx, Transactions, Numbers, MAX_RETRIES
    <2> QED BY <2>1 DEF IndInv, TypeOK, Reply
  <1>2. LockInv'
    BY AccountAssumption DEF IndInv, TypeOK, LockInv, Reply
  <1>3. TxInv(r)' /\ RecordInv(r)'
    BY AccountAssumption DEF IndInv, TypeOK, TxInv, RecordInv, Reply
  <1>4. MovesOne(r)
    BY DEF IndInv, TypeOK, MovesOne, Reply
  <1>5. /\ reply'[r] = "error" /\ r \in recorded => r \in unacked'
        /\ reply'[r] = "ok" => job[r].kind = "point" \/ r \in recorded
    BY DEF IndInv, TypeOK, RecordInv, AnswerIsTrue, Reply
  <1> QED BY <1>1, <1>2, <1>3, <1>4, <1>5, MovesOneInd

\* Every way a call can fail, its message handler dying with the process included.
LEMMA FailuresInd ==
    ASSUME IndInv, NEW r \in Requests,
           \/ Invalid(r) \/ LockWaitTimeout(r) \/ Insufficient(r)
           \/ UpdateRefused(r) \/ StatementFails(r)
    PROVE  IndInv'
  <1>1. pc[r] \in Active \ {"reply"} /\ Fail(r)
    BY DEF Invalid, LockWaitTimeout, Insufficient, UpdateRefused, StatementFails
  <1> QED BY <1>1, FailInd

LEMMA CrashInd == ASSUME IndInv, Crash PROVE IndInv'
  BY DieInd DEF Crash, IndInv, TypeOK

LEMMA RestartInd == ASSUME IndInv, Restart PROVE IndInv'
  BY DEF Restart, IndInv, TypeOK, LockInv, TxInv, RecordInv, LedgerBalanced,
         BalanceInRange, DebitHasOutbox, AnswerIsTrue, Read

-----------------------------------------------------------------------------
(* The commit.                                                              *)

\* What a transaction is about to commit is the movement it was asked for,
\* computed from the balance that is still committed.
LEMMA MovementIsExact ==
    ASSUME IndInv, NEW r \in Requests, pc[r] = "commit", job[r].kind # "point"
    PROVE  /\ job[r].kind \in Movements
           /\ job[r].user \in Accounts
           /\ job[r].amount \in Nat
           /\ tx[r].bal \in 0 .. MaxBalance
           /\ job[r].kind = "charge" =>
                 tx[r].bal = balance[job[r].user] + job[r].amount
           /\ job[r].kind = "use" =>
                 tx[r].bal = balance[job[r].user] - job[r].amount
  <1> DEFINE a == job[r].amount
             u == job[r].user
             t == tx[r]
  <1>1. job[r].kind \in Movements
    BY DEF IndInv, TypeOK, Jobs, Movements
  <1>2. a \in Numbers /\ t.cur \in Numbers /\ t.bal \in Numbers /\ ~ Less(a, 0)
    <2>1. Valid(job[r])
      BY DEF IndInv, TxInv
    <2> QED BY <2>1, OperandType DEF IndInv, Valid
  <1>3. /\ t.bal # NaN /\ t.bal <= MaxBalance
        /\ t.cur = Read(r)
        /\ job[r].kind = "charge" => t.bal = Plus(a, t.cur)
        /\ job[r].kind = "use" => ~ Less(t.cur, a) /\ t.bal = Minus(t.cur, a)
    BY DEF IndInv, TxInv, Storable
  <1>4. /\ a # NaN /\ t.cur # NaN
        /\ job[r].kind = "charge" => t.bal = a + t.cur
        /\ job[r].kind = "use" => t.bal = t.cur - a
    BY <1>1, <1>3 DEF Plus, Minus, Movements
  <1>5. a \in Nat /\ t.cur \in Int
    <2>1. a \in Int /\ t.cur \in Int
      BY <1>2, <1>4 DEF Numbers
    <2>2. ~ (a < 0)
      BY <1>2, <1>4, <2>1, AccountAssumption DEF Less
    <2> QED BY <2>1, <2>2
  <1>6. u \in Accounts /\ t.cur = balance[u]
    BY <1>3, <1>4 DEF Read
  <1>7. t.cur >= 0
    BY <1>6 DEF IndInv, BalanceInRange
  <1>8. job[r].kind = "use" => t.cur >= a
    BY <1>3, <1>4, <1>5, AccountAssumption DEF Less
  <1>9. t.bal >= 0 /\ t.bal \in Int
    BY <1>1, <1>4, <1>5, <1>7, <1>8 DEF Movements
  <1> QED BY <1>1, <1>3, <1>4, <1>5, <1>6, <1>9, AccountAssumption

LEMMA CommitInd == ASSUME IndInv, NEW r \in Requests, Commit(r) PROVE IndInv'
  <1> DEFINE a == job[r].amount
             u == job[r].user
             k == job[r].kind
  <1>1. LockInv'
    BY AccountAssumption DEF IndInv, TypeOK, LockInv, Commit
  <1>2. /\ pc[r] = "commit" /\ pc' = [pc EXCEPT ![r] = "reply"] /\ lock' = None
        /\ UNCHANGED <<unacked, up, failed, job, tx, reply>>
    BY DEF Commit
  <1>3. r \notin recorded /\ reply[r] = "none"
    BY <1>2 DEF IndInv, TypeOK, RecordInv
  <1>4. CASE k = "point"
    <2>1. UNCHANGED durable
      BY <1>4 DEF Commit
    <2>2. TypeOK'
      BY <1>2, <2>1 DEF IndInv, TypeOK
    <2>3. TxInv(r)' /\ RecordInv(r)'
      BY <1>2, <1>3, <1>4, <2>1 DEF IndInv, TypeOK, TxInv, RecordInv
    <2>4. MovesOne(r)
      BY <1>2, <2>1 DEF IndInv, TypeOK, MovesOne
    <2> QED BY <1>1, <1>2, <1>3, <2>2, <2>3, <2>4, MovesOneInd
  <1>5. CASE k # "point"
    <2>1. /\ balance' = [balance EXCEPT ![u] = tx[r].bal]
          /\ history' = [history EXCEPT ![u][k] = @ + a]
          /\ recorded' = recorded \cup {r}
          /\ outbox' = [outbox EXCEPT ![r] = tx[r].outbox]
          /\ inbox' = [inbox EXCEPT ![r] = tx[r].inbox]
      BY <1>5 DEF Commit
    <2>2. /\ k \in Movements /\ u \in Accounts /\ a \in Nat
          /\ tx[r].bal \in 0 .. MaxBalance
          /\ k = "charge" => tx[r].bal = balance[u] + a
          /\ k = "use" => tx[r].bal = balance[u] - a
      BY <1>2, <1>5, MovementIsExact
    <2>3. TypeOK'
      <3>1. balance' \in [Accounts -> Int] /\ history' \in [Accounts -> [Movements -> Nat]]
        BY <2>1, <2>2, AccountAssumption DEF IndInv, TypeOK
      <3>2. outbox' \in [Requests -> 0 .. RowCap] /\ inbox' \in [Requests -> 0 .. RowCap]
        BY <2>1 DEF IndInv, TypeOK, Transactions
      <3> QED BY <1>2, <2>1, <3>1, <3>2, AccountAssumption DEF IndInv, TypeOK
    <2>4. ASSUME NEW q \in Requests PROVE TxInv(q)' /\ RecordInv(q)'
      <3>1. CASE q = r
        BY <1>2, <1>3, <2>1, <3>1 DEF IndInv, TypeOK, TxInv, RecordInv
      <3>2. CASE q # r
        <4>1. /\ pc'[q] = pc[q] /\ tx'[q] = tx[q] /\ reply'[q] = reply[q]
              /\ job' = job /\ (q \in recorded' <=> q \in recorded)
          BY <1>2, <2>1, <3>2 DEF IndInv, TypeOK
        <4>2. pc[q] \notin Holding
          BY <1>2, <3>2 DEF IndInv, LockInv
        <4>3. TxInv(q) /\ RecordInv(q)
          BY DEF IndInv
        <4> QED BY <4>1, <4>2, <4>3 DEF TxInv, RecordInv
      <3> QED BY <3>1, <3>2
    <2>5. BalanceInRange'
      BY <2>1, <2>2 DEF IndInv, TypeOK, BalanceInRange
    <2>6. ASSUME NEW v \in Accounts
          PROVE  balance'[v] = InitBalance + history'[v]["charge"] - history'[v]["use"]
      <3>1. /\ balance[v] = InitBalance + history[v]["charge"] - history[v]["use"]
            /\ history[v]["charge"] \in Nat /\ history[v]["use"] \in Nat
            /\ balance[v] \in Int
        BY DEF IndInv, TypeOK, LedgerBalanced, Movements
      <3>2. CASE v # u
        BY <2>1, <2>2, <3>1, <3>2 DEF IndInv, TypeOK
      <3>3. CASE v = u /\ k = "charge"
        <4>1. /\ balance'[v] = balance[v] + a
              /\ history'[v]["charge"] = history[v]["charge"] + a
              /\ history'[v]["use"] = history[v]["use"]
          BY <2>1, <2>2, <3>3 DEF IndInv, TypeOK, Movements
        <4> QED BY <2>2, <3>1, <4>1, AccountAssumption
      <3>4. CASE v = u /\ k = "use"
        <4>1. /\ balance'[v] = balance[v] - a
              /\ history'[v]["use"] = history[v]["use"] + a
              /\ history'[v]["charge"] = history[v]["charge"]
          BY <2>1, <2>2, <3>4 DEF IndInv, TypeOK, Movements
        <4> QED BY <2>2, <3>1, <4>1, AccountAssumption
      <3> QED BY <2>2, <3>2, <3>3, <3>4 DEF Movements
    <2>7. DebitHasOutbox'
      <3>1. tx[r].inbox <= tx[r].outbox /\ (k = "use" => tx[r].outbox >= 1)
        BY <1>2, <2>2, AccountAssumption DEF IndInv, TxInv
      <3>2. job' = job
        BY <1>2
      <3> QED BY <2>1, <3>1, <3>2 DEF IndInv, TypeOK, DebitHasOutbox
    <2>8. AnswerIsTrue'
      BY <1>2, <1>3, <2>1 DEF IndInv, TypeOK, AnswerIsTrue
    <2> QED BY <1>1, <2>3, <2>4, <2>5, <2>6, <2>7, <2>8 DEF IndInv, LedgerBalanced
  <1> QED BY <1>4, <1>5

-----------------------------------------------------------------------------
(* The theorems.                                                            *)

\* The invariant is kept by every step of the component.
LEMMA NextInd == ASSUME IndInv, [Next]_vars PROVE IndInv'
  <1>1. CASE UNCHANGED vars
    BY <1>1 DEF vars, IndInv, TypeOK, LockInv, TxInv, RecordInv, LedgerBalanced,
                BalanceInRange, DebitHasOutbox, AnswerIsTrue, Read
  <1>2. ASSUME NEW r \in Requests, Advance(r) PROVE IndInv'
    BY <1>2, ValidateInd, ConnectInd, SelectInd, QueryInd, ChargeInd, UseInd, SaveOutBoxInd,
       SaveInBoxInd, UpdateInd, RecordInd, CommitInd, ReplyInd, FailuresInd DEF Advance
  <1>3. ASSUME NEW r \in Requests,
               Receive(r) \/ SaveFails(r) \/ StatementFails(r) \/ AcknowledgementLost(r)
        PROVE  IndInv'
    BY <1>3, ReceiveInd, SaveFailsInd, FailuresInd, AcknowledgementLostInd
  <1>4. CASE Crash
    BY <1>4, CrashInd
  <1>5. CASE Restart
    BY <1>5, RestartInd
  <1> QED BY <1>1, <1>2, <1>3, <1>4, <1>5 DEF Next

\* IndInv is inductive: it holds initially and every step of a handler, every
\* failure and every crash keeps it.
THEOREM Inductive == Spec => []IndInv
  <1>1. Init => IndInv
    BY InitInd
  <1>2. IndInv /\ [Next]_vars => IndInv'
    BY NextInd
  <1> QED BY <1>1, <1>2, PTL DEF Spec

\* TypeOK: the variables of the component keep their types, whatever the calls,
\* failures and crashes.
THEOREM TypeCorrect == Spec => []TypeOK
  BY Inductive, PTL DEF IndInv

\* LedgerBalanced: account.balance always equals the initial balance plus the
\* recorded charges minus the recorded uses of updateBalance.
THEOREM BalanceMatchesHistory == Spec => []LedgerBalanced
  BY Inductive, PTL DEF IndInv

\* BalanceInRange: no interleaving of updateBalance overdraws an account or
\* overflows its column.
THEOREM NoOverdraft == Spec => []BalanceInRange
  BY Inductive, PTL DEF IndInv

\* ReadIsFresh: the balance read by SELECT ... FOR UPDATE is still the committed
\* one in every later step of the transaction.
THEOREM NoStaleRead == Spec => []ReadIsFresh
  <1>1. IndInv => ReadIsFresh
    BY DEF IndInv, TxInv, ReadIsFresh
  <1> QED BY <1>1, Inductive, PTL

\* DebitHasOutbox: a debit is never committed without its outbox row, nor an
\* inbox row without the outbox row it was made from.
THEOREM DebitsLeaveEvents == Spec => []DebitHasOutbox
  BY Inductive, PTL DEF IndInv

\* AnswerIsTrue: an error answer means nothing was applied, unless it was the
\* acknowledgement of the COMMIT that was lost; a success, that the movement was.
THEOREM AnswersAreTrue == Spec => []AnswerIsTrue
  BY Inductive, PTL DEF IndInv

-----------------------------------------------------------------------------
(* The component implements the ledger.                                     *)

\* A step that commits nothing can at most close open calls.
LEMMA QuietStepCloses ==
    ASSUME UNCHANGED <<tables, job>>,
           \A q \in Requests : pc[q] \in {"reply", "end"} => pc'[q] \in {"reply", "end"}
    PROVE  L!LedgerNext
  <1> DEFINE S == {q \in Requests : status[q] = "open" /\ status'[q] = "closed"}
  <1>1. \A q \in Requests : status'[q] = IF q \in S THEN "closed" ELSE status[q]
    BY DEF status
  <1>2. L!Close(S)
    BY <1>1 DEF L!Close, status
  <1> QED BY <1>2 DEF L!LedgerNext

\* The commit of a charge or a use is the ledger's Apply.
LEMMA CommitRefines ==
    ASSUME IndInv, NEW r \in Requests, Commit(r), job[r].kind # "point"
    PROVE  L!LedgerNext
  <1>1. /\ job[r].kind \in Movements
        /\ job[r].user \in Accounts
        /\ job[r].amount \in Nat
        /\ tx[r].bal \in 0 .. MaxBalance
        /\ tx[r].bal = L!After(r)
    BY MovementIsExact DEF Commit, L!After, Movements
  <1>2. r \notin recorded /\ pc[r] = "commit"
    BY DEF IndInv, RecordInv, Commit
  <1>3. status[r] = "open"
    BY <1>2 DEF status
  <1>4. status' = [status EXCEPT ![r] = "applied"]
    <2>1. /\ recorded' = recorded \cup {r}
          /\ \A q \in Requests \ {r} : pc'[q] = pc[q]
      BY DEF Commit, IndInv, TypeOK
    <2> QED BY <2>1 DEF status
  <1>5. balance' = [balance EXCEPT ![job[r].user] = L!After(r)] /\ job' = job
    BY <1>1 DEF Commit
  <1>6. L!Apply(r)
    BY <1>1, <1>3, <1>4, <1>5 DEF L!Apply, Movements
  <1> QED BY <1>6 DEF L!LedgerNext

\* Every step of the component is a step of the ledger or leaves it unchanged.
LEMMA StepRefines == ASSUME IndInv, [Next]_vars PROVE [L!LedgerNext]_(L!ledgerVars)
  <1>1. CASE UNCHANGED vars
    BY <1>1 DEF vars, L!ledgerVars, status
  <1>2. CASE \E r \in Requests : Commit(r) /\ job[r].kind # "point"
    BY <1>2, CommitRefines
  <1>3. CASE Next /\ ~ \E r \in Requests : Commit(r) /\ job[r].kind # "point"
    <2>1. UNCHANGED <<tables, job>>
      BY <1>3 DEF Next, Advance, Receive, Validate, Invalid, Connect, Select,
         LockWaitTimeout, Query, Charge, Use, Insufficient, SaveOutBox, SaveInBox, SaveFails,
         Update, UpdateRefused, Record, Commit, StatementFails, AcknowledgementLost, Reply,
         Fail, Abandon, Crash, Restart
    <2>2. ASSUME NEW q \in Requests, pc[q] \in {"reply", "end"}
          PROVE  pc'[q] \in {"reply", "end"}
      <3>1. CASE Crash
        BY <2>2, <3>1 DEF Crash, Die
      <3>2. CASE Restart
        BY <2>2, <3>2 DEF Restart
      <3>3. ASSUME NEW r \in Requests,
                   \/ Receive(r) \/ Advance(r) \/ SaveFails(r)
                   \/ StatementFails(r) \/ AcknowledgementLost(r)
            PROVE  pc'[q] \in {"reply", "end"}
        <4>1. pc \in [Requests -> Active \cup {"idle", "end"}]
          BY DEF IndInv, TypeOK
        <4>2. CASE Reply(r)
          BY <2>2, <4>1, <4>2 DEF Reply
        <4>3. CASE Abandon(r) /\ pc[r] \in Active
          BY <2>2, <4>1, <4>3 DEF Abandon, Reject, Die
        <4>4. CASE pc[r] \notin {"reply", "end"} /\ \E s : Goto(r, s)
          BY <2>2, <4>1, <4>4
        <4> QED
          BY <3>3, <4>2, <4>3, <4>4 DEF Advance, Receive, Validate, Invalid, Connect, Select,
             LockWaitTimeout, Query, Charge, Use, Insufficient, SaveOutBox, SaveInBox,
             SaveFails, Update, UpdateRefused, Record, Commit, StatementFails,
             AcknowledgementLost, Fail
      <3> QED BY <1>3, <3>1, <3>2, <3>3 DEF Next
    <2> QED BY <2>1, <2>2, QuietStepCloses
  <1> QED BY <1>1, <1>2, <1>3

\* ImplementsLedger: whatever the locks, retries, failures and crashes, the
\* component behaves like Ledger.tla: each movement is applied in one step, at
\* most once, and never once its call was closed.
THEOREM Refinement == Spec => ImplementsLedger
  <1>1. Init => L!LedgerInit
    BY DEF Init, L!LedgerInit, status
  <1>2. IndInv /\ [Next]_vars => [L!LedgerNext]_(L!ledgerVars)
    BY StepRefines
  <1> QED BY <1>1, <1>2, Inductive, PTL DEF Spec, ImplementsLedger, L!LedgerSpec

=============================================================================
