----------------------------- MODULE Ticketing ------------------------------
(***************************************************************************)
(* A payment across the services: PaymentController, PaymentUsecase and    *)
(* PaymentService, the Kafka topics payment.success and payment.fail, and  *)
(* the handlers of the two topics in AccountController and                 *)
(* ReservationController.                                                  *)
(*                                                                         *)
(* The account component appears as the ledger it is shown to implement    *)
(* (Account.tla); a use of the ledger is one delivery of the event of a    *)
(* payment.                                                                *)
(*                                                                         *)
(* External, from the defaults of the Kafka client and docker-compose.yml: *)
(* a topic has one partition; one consumer fetches a batch of one topic,   *)
(* hands its messages to the handlers one by one, commits the offset       *)
(* behind the last one, and only then fetches again.  Its group has        *)
(* committed an offset of both topics before: a first start would read     *)
(* from their ends.                                                        *)
(***************************************************************************)
EXTENDS Integers, FiniteSets

CONSTANTS
    Payments,      \* the calls of POST /payments over a behaviour
    Users,         \* the users that pay, all with an account
    BadIds,        \* the ids the account refuses: those that are not positive
    Seats,         \* the reservation ids that are paid for
    Amounts,       \* the amounts that are paid
    NaN,           \* a JavaScript number that is not one
    InitBalance,   \* points of every account at the start
    MaxBalance,    \* the largest value of account.balance
    MaxStops,      \* bound: stops of the server process or of its consumer
    MaxFails       \* bound: messages, and uses, of payment.fail at one time

ASSUME TicketingAssumption ==
    /\ Amounts \subseteq Int
    /\ NaN \notin Int
    /\ NaN \notin Seats
    /\ Users \cap BadIds = {}
    /\ InitBalance \in Nat /\ MaxBalance \in Nat /\ InitBalance <= MaxBalance
    /\ MaxStops \in Nat /\ MaxFails \in Nat

\* A message is read again only after a stop, so there are no more deliveries.
Deliveries == 1 .. MaxStops + 1
Uses == Payments \X Deliveries

Orders == [userId : Users \cup BadIds, reservationId : Seats,
           amount : Amounts \cup {NaN}]
UseJobs == [kind : {"use"}, user : Users \cup BadIds, amount : Amounts \cup {NaN}]

VARIABLES
    order,         \* what each payment asks for
    pc,            \* the await each payment has reached
    answer,        \* how it ended for its caller
    paid,          \* payments whose payment and outbox rows are committed
    unacked,       \* those whose COMMIT was applied and not acknowledged
    flight,        \* events handed to the producer, not yet in the topic
    topic,         \* the place of each event in payment.success, 0 for none
    written,       \* the last place taken
    offset,        \* the last place the consumer has committed
    batch,         \* the topic of the batch the consumer holds
    size, done,    \* its messages, and how many of them are handled
    rolling,       \* where the rollBack it waits for is
    delivered,     \* how often each event started a use
    announced,     \* uses that emitted payment.fail
    failQ,         \* messages of payment.fail not yet committed
    failUses,      \* uses started by messages of payment.fail
    server, stops, \* the server process; how often it or its consumer stopped
    balance, job, status   \* of the ledger

ledger == <<balance, job, status>>
payment == <<order, pc, answer, paid, unacked, flight>>
log == <<topic, written>>
reading == <<batch, size, done, rolling>>
fails == <<announced, failQ, failUses>>
process == <<server, stops>>
consumer == <<log, offset, reading, delivered, fails>>
vars == <<payment, consumer, process, ledger>>

InTx == {"record", "outbox", "commit"}
Active == InTx \cup {"emit"}

L == INSTANCE Ledger WITH Requests <- Uses, Accounts <- Users, Jobs <- UseJobs

\* The type invariant: in particular no event is delivered more often than once
\* and once more for each stop.
TypeOK ==
    /\ order \in [Payments -> Orders]
    /\ pc \in [Payments -> Active \cup {"idle", "end"}]
    /\ answer \in [Payments -> {"none", "ok", "error", "lost"}]
    /\ paid \subseteq Payments /\ unacked \subseteq Payments
    /\ flight \subseteq Payments
    /\ topic \in [Payments -> Nat]
    /\ written \in Nat /\ offset \in 0 .. written
    /\ batch \in {"none", "success", "fail"}
    /\ size \in Nat /\ done \in 0 .. size
    /\ rolling \in {"no", "lookup", "delay"}
    /\ delivered \in [Payments -> 0 .. MaxStops + 1]
    /\ announced \subseteq Uses
    /\ failQ \in 0 .. MaxFails /\ failUses \in 0 .. MaxFails
    /\ server \in {"up", "doomed", "down"} /\ stops \in 0 .. MaxStops
    /\ balance \in [Users -> Int]
    /\ job \in [Uses -> UseJobs]
    /\ status \in [Uses -> {"open", "applied", "closed"}]

-----------------------------------------------------------------------------
(* The messages.                                                            *)

\* What PaymentUsecase.save emits.
Message(p) == [eventId |-> order[p].reservationId,
               amount  |-> order[p].amount,
               userId  |-> order[p].userId]

\* parseInt of a field of a message: NaN when there is no such field.
Field(msg, f) == IF f \in DOMAIN msg THEN msg[f] ELSE NaN

\* The calls the two handlers of payment.success make.
UseOf(p) == [kind |-> "use", user |-> Field(Message(p), "userId"),
             amount |-> Field(Message(p), "amount")]
BookOf(p) == [id |-> Field(Message(p), "reservationId"),
              userId |-> Field(Message(p), "userId")]

Init ==
    /\ order \in [Payments -> Orders]
    /\ pc = [p \in Payments |-> "idle"]
    /\ answer = [p \in Payments |-> "none"]
    /\ paid = {} /\ unacked = {} /\ flight = {}
    /\ topic = [p \in Payments |-> 0]
    /\ written = 0 /\ offset = 0
    /\ batch = "none" /\ size = 0 /\ done = 0 /\ rolling = "no"
    /\ delivered = [p \in Payments |-> 0]
    /\ announced = {}
    /\ failQ = 0 /\ failUses = 0
    /\ server = "up" /\ stops = 0
    /\ L!LedgerInit
    /\ \A u \in Uses : job[u] = UseOf(u[1])

-----------------------------------------------------------------------------
(* POST /payments.                                                          *)

Goto(p, s) == pc' = [pc EXCEPT ![p] = s]

At(p, s) == server = "up" /\ pc[p] = s

Pay(p) ==
    /\ At(p, "idle")
    /\ Goto(p, "record")
    /\ UNCHANGED <<order, answer, paid, unacked, flight, consumer, process, ledger>>

\* Neither the balance nor the reservation is looked at.
SaveRecord(p) ==
    /\ At(p, "record")
    /\ Goto(p, "outbox")
    /\ UNCHANGED <<order, answer, paid, unacked, flight, consumer, process, ledger>>

\* Mutant: the event is emitted inside the transaction.
SaveOutBoxAndEmit(p) ==
    /\ At(p, "outbox")
    /\ Goto(p, "commit")
    /\ flight' = flight \cup {p}
    /\ UNCHANGED <<order, answer, paid, unacked, consumer, process, ledger>>

SaveOutBox(p) ==
    /\ At(p, "outbox")
    /\ Goto(p, "commit")
    /\ UNCHANGED <<order, answer, paid, unacked, flight, consumer, process, ledger>>

\* The database applies the COMMIT.
Commit(p) ==
    /\ At(p, "commit")
    /\ paid' = paid \cup {p}
    /\ Goto(p, "emit")
    /\ UNCHANGED <<order, answer, unacked, flight, consumer, process, ledger>>

\* Mutant: the caller gets an error for what happens behind the commit.
StatementFailsLate(p) ==
    /\ \E s \in Active : At(p, s)
    /\ Goto(p, "end")
    /\ answer' = [answer EXCEPT ![p] = "error"]
    /\ UNCHANGED <<order, paid, unacked, flight, consumer, process, ledger>>

\* A statement, the COMMIT included, fails without effect.
StatementFails(p) ==
    /\ \E s \in InTx : At(p, s)
    /\ Goto(p, "end")
    /\ answer' = [answer EXCEPT ![p] = "error"]
    /\ UNCHANGED <<order, paid, unacked, flight, consumer, process, ledger>>

\* The connection breaks behind the COMMIT: the transaction rejects although its
\* rows are there, and no event is emitted.
AcknowledgementLost(p) ==
    /\ At(p, "emit")
    /\ unacked' = unacked \cup {p}
    /\ Goto(p, "end")
    /\ answer' = [answer EXCEPT ![p] = "error"]
    /\ UNCHANGED <<order, paid, flight, consumer, process, ledger>>

\* The COMMIT is acknowledged: the event is handed to the producer and the call
\* answered, without waiting for the broker.
Emit(p) ==
    /\ At(p, "emit")
    /\ Goto(p, "end")
    /\ flight' = flight \cup {p}
    /\ answer' = [answer EXCEPT ![p] = "ok"]
    /\ UNCHANGED <<order, paid, unacked, consumer, process, ledger>>

Produce(p) ==
    /\ p \in flight
    /\ flight' = flight \ {p}
    /\ topic' = [topic EXCEPT ![p] = written + 1]
    /\ written' = written + 1
    /\ UNCHANGED <<order, pc, answer, paid, unacked, offset, reading, delivered,
                   fails, process, ledger>>

\* The broker cannot be reached; nobody subscribed to the error.
SendFails(p) ==
    /\ p \in flight
    /\ flight' = flight \ {p}
    /\ UNCHANGED <<order, pc, answer, paid, unacked, consumer, process, ledger>>

-----------------------------------------------------------------------------
(* The consumer.  A refused event dooms the process: the rejection that no- *)
(* body awaits ends it once the callbacks that are ready have run, and they *)
(* may hand on messages and send the offset.  Nothing else of a doomed      *)
(* process has an effect: what a database was sent before is done before.   *)

\* AccountRequestModel.validate throws; NaN passes, being less than nothing.
Refused(p) == \/ order[p].userId \in BadIds
              \/ order[p].amount \in Int /\ order[p].amount < 0

Running(u) == u[2] <= delivered[u[1]] /\ status[u] = "open"

\* The last place that was handed on.
Position == IF batch = "success" THEN offset + done ELSE offset

\* The consumer forgets its batch.
Drop == batch' = "none" /\ size' = 0 /\ done' = 0 /\ rolling' = "no"

\* The process stops: what it held in memory is gone and every open transaction
\* rolled back.
Stop ==
    /\ server' = "down" /\ stops' = stops + 1
    /\ pc' = [p \in Payments |-> IF pc[p] \in Active THEN "end" ELSE pc[p]]
    /\ answer' = [p \in Payments |-> IF pc[p] \in Active THEN "lost" ELSE answer[p]]
    /\ flight' = {} /\ failUses' = 0
    /\ Drop
    /\ L!Close({u \in Uses : Running(u)})
    /\ UNCHANGED <<order, paid, unacked, log, offset, delivered, announced, failQ>>

\* A batch of k messages that are behind the committed offset of their topic.
Fetch(t, k) ==
    /\ server = "up" /\ batch = "none"
    /\ k <= (IF t = "success" THEN written - offset ELSE failQ)
    /\ batch' = t /\ size' = k
    /\ UNCHANGED <<payment, log, offset, done, rolling, delivered, fails, process,
                   ledger>>

FetchSome(t) ==
    \E k \in 1 .. (IF t = "success" THEN written - offset ELSE failQ) : Fetch(t, k)

\* Is p the next event the consumer hands on?
IsNext(p) ==
    /\ server # "down" /\ batch = "success" /\ done < size
    /\ topic[p] = Position + 1

\* Both handlers are called: the account's starts a use, the reservation's a
\* book, and neither waits for the transaction it starts.
Deliver(p) ==
    /\ IsNext(p)
    /\ ~ Refused(p)
    /\ done' = done + 1
    /\ delivered' = [delivered EXCEPT ![p] = @ + 1]
    /\ UNCHANGED <<payment, log, offset, batch, size, rolling, fails, process, ledger>>

\* Mutant: the handler catches the rejection and the consumer goes on.
RefusalCaught(p) ==
    /\ IsNext(p)
    /\ Refused(p)
    /\ done' = done + 1
    /\ UNCHANGED <<payment, log, offset, batch, size, rolling, delivered, fails,
                   process, ledger>>

\* The use is refused before its first await, and the handler, which does not
\* await it, returns as it does for any other event.
DeliverRefused(p) ==
    /\ IsNext(p)
    /\ Refused(p)
    /\ stops < MaxStops
    /\ done' = done + 1
    /\ server' = "doomed"
    /\ UNCHANGED <<payment, log, offset, batch, size, rolling, delivered, fails,
                   stops, ledger>>

\* Mutant: the batch is finished and its offset never sent.
CommitForgotten ==
    /\ server # "down" /\ batch # "none" /\ done = size
    /\ Drop
    /\ failQ' = IF batch = "fail" THEN failQ - size ELSE failQ
    /\ UNCHANGED <<payment, log, offset, delivered, announced, failUses, process,
                   ledger>>

\* The offset behind the batch is committed.
CommitBatch ==
    /\ server # "down" /\ batch # "none" /\ done = size
    /\ Drop
    /\ offset' = Position
    /\ failQ' = IF batch = "fail" THEN failQ - size ELSE failQ
    /\ UNCHANGED <<payment, log, delivered, announced, failUses, process, ledger>>

\* The group coordinator has given the consumer up, or its connection broke: it
\* joins again and reads from the committed offset.
Rejoin ==
    /\ server = "up" /\ batch # "none" /\ rolling = "no"
    /\ stops < MaxStops
    /\ stops' = stops + 1
    /\ Drop
    /\ UNCHANGED <<payment, log, offset, delivered, fails, server, ledger>>

\* The use commits: nothing compares it with what the inbox holds.
Debit(u) ==
    /\ server = "up" /\ Running(u)
    /\ L!Apply(u)
    /\ UNCHANGED <<payment, consumer, process>>

\* The third failed save of a use; it may still commit.
Announce(u) ==
    /\ server = "up" /\ Running(u)
    /\ u \notin announced
    /\ failQ < MaxFails
    /\ announced' = announced \cup {u}
    /\ failQ' = failQ + 1
    /\ UNCHANGED <<payment, log, offset, reading, delivered, failUses, process, ledger>>

-----------------------------------------------------------------------------
(* payment.fail.  The account's handler starts a use without an amount,     *)
(* which never commits; the reservation's awaits rollBack.  The message of  *)
(* a use carries no eventId, so rollBack never finds the event.             *)

DeliverFail ==
    /\ server = "up" /\ batch = "fail" /\ done < size /\ rolling = "no"
    /\ rolling' = "lookup"
    /\ failUses' = IF failUses < MaxFails THEN failUses + 1 ELSE MaxFails
    /\ UNCHANGED <<payment, log, offset, batch, size, done, delivered, announced,
                   failQ, process, ledger>>

\* Mutant: failed lookups are retried without a limit.
RollBackRetriesForever == FALSE /\ UNCHANGED vars

\* The third lookup failed: payment.fail is emitted again, and may fail to reach
\* the broker.
RollBackGivesUp ==
    /\ server = "up" /\ rolling = "lookup"
    /\ rolling' = "delay"
    /\ failQ' \in {failQ} \cup (IF failQ < MaxFails THEN {failQ + 1} ELSE {})
    /\ UNCHANGED <<payment, log, offset, batch, size, done, delivered, announced,
                   failUses, process, ledger>>

\* One more second, and the handler returns.
RollBackReturns ==
    /\ server = "up" /\ rolling = "delay"
    /\ rolling' = "no"
    /\ done' = done + 1
    /\ UNCHANGED <<payment, log, offset, batch, size, delivered, fails, process,
                   ledger>>

\* The saves of a use without an amount fail three times as well.
FailUseAnnounces ==
    /\ server = "up" /\ failUses > 0
    /\ failQ < MaxFails
    /\ failUses' = failUses - 1
    /\ failQ' = failQ + 1
    /\ UNCHANGED <<payment, log, offset, reading, delivered, announced, process,
                   ledger>>

-----------------------------------------------------------------------------

\* A doomed process ends.
Die == server = "doomed" /\ Stop

\* The process stops, because of a use that the account rejects later or of
\* anything else but a refused event.
Crash == server = "up" /\ stops < MaxStops /\ Stop

Restart ==
    /\ server = "down"
    /\ server' = "up"
    /\ UNCHANGED <<payment, consumer, stops, ledger>>

Step(p) == SaveRecord(p) \/ SaveOutBox(p) \/ Commit(p) \/ Emit(p)

Next ==
    \/ \E p \in Payments :
          \/ Pay(p) \/ Step(p) \/ StatementFails(p) \/ AcknowledgementLost(p)
          \/ Produce(p) \/ SendFails(p)
          \/ Deliver(p) \/ DeliverRefused(p)
    \/ \E u \in Uses : Debit(u) \/ Announce(u)
    \/ FetchSome("success") \/ FetchSome("fail") \/ CommitBatch \/ Rejoin
    \/ DeliverFail \/ RollBackGivesUp \/ RollBackReturns \/ FailUseAnnounces
    \/ Die \/ Crash \/ Restart

Spec == Init /\ [][Next]_vars

(***************************************************************************)
(* Fairness: the event loop runs what is ready, the process is restarted,  *)
(* and the consumer fetches from both topics, so that neither is passed    *)
(* over for ever.  Calls, debits and failures are not fair, and stops are  *)
(* finitely many (MaxStops).                                               *)
(***************************************************************************)
Fairness ==
    /\ WF_vars(Restart) /\ WF_vars(Die) /\ WF_vars(CommitBatch)
    /\ WF_vars(DeliverFail) /\ WF_vars(RollBackGivesUp) /\ WF_vars(RollBackReturns)
    /\ SF_vars(FetchSome("success")) /\ SF_vars(FetchSome("fail"))
    /\ \A p \in Payments :
          /\ WF_vars(Step(p))
          /\ WF_vars(Produce(p))
          /\ WF_vars(Deliver(p) \/ DeliverRefused(p))
FairSpec == Spec /\ Fairness

-----------------------------------------------------------------------------
(* Safety.                                                                  *)

\* No points move for a payment that was not recorded, or whose caller was
\* answered with an error, however its event was delayed or delivered again:
\* PaymentUsecase.save emits behind the acknowledged commit.
DebitsArePaid ==
    \A u \in Uses :
        status[u] = "applied" => u[1] \in paid /\ answer[u[1]] # "error"

\* An event is handed to the handlers again only if the process or its consumer
\* stopped since: the offset of a finished batch is committed.
RedeliveredAfterStop == \A p \in Payments : delivered[p] <= 1 + stops

\* No event is debited while a refused one stands before it in the topic, unless
\* the dying process got the offset behind the refused one committed.
NoDebitPastRefused ==
    \A u \in Uses, q \in Payments :
        status[u] = "applied" /\ Refused(q) /\ topic[q] \in 1 .. topic[u[1]]
            => topic[q] <= offset

\* The caller of a payment is told what happened to its record, unless the
\* acknowledgement of the COMMIT was lost.
AnswerIsTrue ==
    \A p \in Payments :
        /\ answer[p] = "ok" => p \in paid
        /\ answer[p] = "error" /\ p \in paid => p \in unacked

\* The points that the payments in S are worth to x, one by one.
PointsOf(S, x) ==
    UNION {{p} \X (1 .. order[p].amount) :
              p \in {q \in S : order[q].userId = x /\ order[q].amount \in Nat}}

\* What an account has lost is at most the sum of its recorded payments, once
\* for the first delivery of their events and once for each stop since.
DebitIsBounded ==
    \A x \in Users :
        InitBalance - balance[x] <= (1 + stops) * Cardinality(PointsOf(paid, x))

-----------------------------------------------------------------------------
(* The inductive invariant behind the safety properties.                    *)

\* An event follows its payment and the answer to it, and a debit its event.
EventInv ==
    /\ \A p \in flight : p \in paid /\ answer[p] = "ok"
    /\ \A p \in Payments :
          /\ topic[p] > 0 => p \in paid \ flight /\ answer[p] = "ok"
          /\ delivered[p] > 0 => topic[p] > 0
    /\ \A u \in Uses : status[u] # "open" => u[2] <= delivered[u[1]]

\* How far a payment is when it is recorded and answered.
PaymentInv(p) ==
    /\ pc[p] \in InTx \cup {"idle"} => p \notin paid
    /\ pc[p] = "emit" => p \in paid
    /\ answer[p] # "none" => pc[p] = "end"

\* Every place is taken once.
PlaceInv ==
    /\ \A p \in Payments : topic[p] <= written
    /\ \A p, q \in Payments : topic[p] = topic[q] /\ topic[p] > 0 => p = q

\* A batch is behind the offset of its topic, and every delivery of an event
\* beyond the stops is of one that was handed on since the last of them.
ConsumerInv ==
    /\ batch = "success" => offset + size <= written
    /\ batch = "fail" => size <= failQ
    /\ batch = "none" => size = 0 /\ done = 0
    /\ rolling # "no" => batch = "fail" /\ done < size
    /\ server = "doomed" => stops < MaxStops
    /\ \A p \in Payments :
          delivered[p] <= stops + (IF topic[p] \in 1 .. Position THEN 1 ELSE 0)

\* A refused event that was handed on and not committed has doomed the process,
\* and the uses of the events behind it never get to their commit.
RefusalInv ==
    \A q \in Payments : Refused(q) /\ topic[q] > offset =>
        /\ server # "doomed" => topic[q] > Position
        /\ \A u \in Uses : u[2] <= delivered[u[1]] /\ topic[q] <= topic[u[1]] =>
              status[u] = "closed" \/ (server = "doomed" /\ status[u] = "open")

\* The points that uses have taken from x, and what is left of its balance.
Debited(x) ==
    UNION {{u} \X (1 .. job[u].amount) :
              u \in {v \in Uses : status[v] = "applied" /\ job[v].user = x}}
DebitInv ==
    /\ IsFiniteSet(paid)
    /\ \A u \in Uses : /\ job[u] = UseOf(u[1])
                       /\ status[u] = "applied" => job[u].amount \in Nat
    /\ \A x \in Users : /\ IsFiniteSet(Debited(x))
                        /\ balance[x] = InitBalance - Cardinality(Debited(x))

IndInv ==
    /\ TypeOK
    /\ EventInv
    /\ \A p \in Payments : PaymentInv(p)
    /\ PlaceInv
    /\ ConsumerInv
    /\ RefusalInv
    /\ AnswerIsTrue
    /\ DebitInv

-----------------------------------------------------------------------------
(* Liveness.                                                                *)

\* An event that reached the topic is handled and its offset committed, whatever
\* messages of payment.fail circulate around it and wherever the stops fall,
\* unless a refused event before it, or behind it in its batch, keeps the offset
\* from being committed.
EventsHandled ==
    \A p \in Payments :
        topic[p] > 0 ~> \/ topic[p] <= offset
                        \/ \E q \in Payments : Refused(q) /\ topic[q] > offset

-----------------------------------------------------------------------------
(* What the tests and documents expect and the code does not do.            *)

\* payment.use-case.spec.ts: a payment confirms the reservation it is for.
BookNamesPaidSeat ==
    \A p \in Payments : delivered[p] > 0 => BookOf(p).id = order[p].reservationId
=============================================================================
