# Concert ticketing: models, checks and proofs

This directory holds TLA+ models of the ticketing server in `src/` (NestJS,
TypeORM on MySQL, Kafka, Redis), the TLC configurations that check them on small
instances, and proofs of the properties that matter most, checked by TLAPS.

## 1. The system

A user gets a token, waits in a queue, reserves a seat, charges points and pays.
A payment is recorded by one component and announced on Kafka; two others, the
account and the reservation, act on the event.

| component | state it keeps | operations | talks to |
|---|---|---|---|
| **Account** (`src/account`) | tables `account`, `account_history`, `outbox`, `inbox` | `charge` (PATCH /accounts/points), `point` (GET), `use` (both Kafka topics), `rollBack` and `history` (reached by no controller) | Kafka: reads `payment.success` and `payment.fail`, emits `payment.fail` |
| **Reservation** (`src/reservation`) | tables `reservation`, `outbox`, `inbox` | `reserve` (POST /reservations), `book` (`payment.success`), `rollBack` (`payment.fail`) | the same two topics; emits `payment.fail` |
| **Payment** (`src/payment`) | tables `payment`, `outbox` | `save` (POST /payments) | emits `payment.success` |
| **Messaging** (`common/kafka`, `main.ts`) | the topics and the consumer's offset | deliver, commit | one consumer in the server process for both topics |
| **UserToken** (`src/userToken`) | Redis: the server token `userToken:<uuid>`, with a time to live | `create` (POST /userTokens) | User, Redis |
| **Queue guard** (`common/guard`) | Redis: the lists `queue:<idx>` and `use`, tokens under `userToekn:<uuid>` | `canActivate`: let a request in, or queue its user and tell the position | Redis, shared with the scheduler and UserToken |
| **Queue scheduler** (`common/schduler`) | the same lists | `moveQueueToUseList`, every ten minutes: move thirty users from the queues to the use list | Redis |
| **Concert** (`src/concert`) | none (reads `concert`, `concert_plan`, `concert_ticket`) | `reservableDates`, `reservableSeats` | tables nothing writes |
| **User** (`src/user`) | none (reads `user`) | `user`, a step of the token issue | |
| logging, exception filter, database and Redis client | none of their own | formatting, wiring | |

What is hard here:

- *Concurrency.* Handlers are interleaved at every `await`. Charges and uses of one
  account read, compute and write in separate statements under a row lock. A
  reserve reads the seat and updates it later, and does not await the update.
- *Failure inside a transaction.* The uses retry two saves up to three times and
  fall through; the books swallow any error and commit what they have.
- *Lost acknowledgements.* A connection that breaks while the COMMIT is on its way
  makes the transaction wrapper rethrow, whether the server has applied it or not:
  the caller gets an error for something that may be there.
- *Messages.* Events are emitted behind a commit, are lost, delayed or read again,
  and are handled by code that waits for nothing and compares nothing with its
  inbox. Their offset is committed behind the whole batch they were fetched in.
  A rejection that nobody awaits ends the server process, but its handler has
  returned before: the next event may be handed on, or the offset committed, first.
- *Waiting.* A use whose saves succeed never leaves its loop and keeps the account
  rows and a connection of the pool. A run of the scheduler ends only when it has
  moved thirty users, and goes on polling ever new queues until then.
- *Check, then act on Redis.* The guard looks for a user in the use list, then in
  the queue, and pushes afterwards, each a command of its own; meanwhile the
  scheduler, or another request of the same user, moves or pushes the user. The
  scheduler reads a batch, pushes it user by user and trims the queue at the end;
  a crash, a failed command or a second run in between sees both lists.

What makes each component correct: the balance agrees with the history and is
never overdrawn (Account); a confirmation comes with its event, every row is
the work of calls that ran and each call changes its row at most once (Reservation);
points move only for recorded payments, and no more of them than the payments and
the stops explain (Payment, Messaging); no user is lost or admitted out of turn,
nobody waits behind the position in the new token, and whoever waits is admitted
(guard and scheduler); an issued token authenticates its requests (UserToken); the
seats and dates of an answer are those that can be reserved (Concert). Where the code
falls short of that, a run shows it (section 3). `PROJECT.json`
lists under `hazards`, line by line, what can go wrong and which property watches it.

### The state of the repository at this commit

The server does not start as committed: `concert.use-case.ts:22` does not parse,
`common.module` and several providers are missing, the guard and the scheduler
are registered nowhere, and no `ValidationPipe` is installed, so that the DTO
decorators check nothing. The repository of tickets that the concert service needs
does not exist, and its `ConcertRepository.info` takes its parameters in another
order than it is called with. The guard verifies tokens with other secrets than
the service signs with and expects fields the service does not write. The
handlers and services are complete enough to model; the models take each of them
as it is written and assume only what is missing: the wiring, a ticket
repository that filters as the others do, and an issuer of the tokens the guard
expects (both are named in the modules).

## 2. The modules

| module | models | proofs |
|---|---|---|
| `Ledger` | what the account component promises, without locks, retries or boxes | |
| `Account` | `AccountController`, `AccountUsecase`, `AccountService`, the account repositories, one lock, the connection pool, crash and restart | `AccountProofs` |
| `SeatBook` | what the reservation component promises of its rows, without transactions, locks or boxes | |
| `Reservation` | `ReservationController`, `ReservationUsecase`, `ReservationService`, `ReservationRepository`, row locks, crash and restart | `ReservationProofs` |
| `Ticketing` | `PaymentController`, `PaymentUsecase`, `PaymentService`, both topics, the handlers of the topics; composes with `Ledger` for the account | `TicketingProofs` |
| `WaitingLine` | what the queue promises while runs do not overlap: lines that users join at the back and enter from the front, and places that a fault gives back | |
| `TicketQueue` | `UserTokenController`, `UserTokenUsecase`, `UserTokenService`, `UserService`, `UserTokenGuard` and `QueueScheduler` over the Redis they share, crash and restart | `TicketQueueProofs` |
| `Concert` | `ConcertService` over its repositories, the status of an exception | `ConcertProofs` |
| `CountingTheorems` | nothing of the code: lemmas on the number of elements of a set put together from others, which the proofs about sums share | itself |
| `MCAccount`, `MCReservation`, `MCTicketing`, `MCTicketQueue`, `MCConcert` | instances for TLC | |

`Account` is shown to implement `Ledger`, `Reservation` to implement `SeatBook`, and
`TicketQueue`, until two runs read one queue at once, to implement `WaitingLine` (all
by TLC and by proof); `Ticketing` uses `Ledger` in the place of `Account`:
what is said of debits there rests on that refinement.
`Ticketing` does not include the reservation's rows: the one thing a payment
sends it, the id of the book, is enough to see that no row is touched.

### Account

A *request* is one call of a handler. `pc[r]` names the `await` it has reached:
`validate`, `pool` (a connection of the pool), `select` (`SELECT ... FOR UPDATE`),
`decide`, `outbox`/`inbox` (the two saves of a round of the retry loop), `update`,
`record` (the history row), `commit`, `reply`. `Commit` is the database applying the
COMMIT; at `reply` its acknowledgement is on the way, and is lost in
`AcknowledgementLost`, which ends the call as a failed statement does but leaves the
rows (`unacked`). `tx[r]` holds its local variables and
uncommitted rows; `balance`, `history`, `recorded`, `outbox` and `inbox` are what is
committed. `lock` is one lock for the table: `account.userId` has no index, so a
locking read scans, and locks, every row.

`SaveFails` is the catch block: it counts a failure, and at the third emits
`payment.fail` (`failed`) and falls through to the update. A request whose
balance was never computed carries `NaN` there; the database refuses it
(`Storable`, `UpdateRefused`). `Fail` is where HTTP and Kafka differ: a call is
answered with an error, but a use is not awaited, so its rejection ends the
process (`Die`): every open transaction is rolled back, every call lost.

JavaScript's `undefined` and `NaN` are one value, contagious in arithmetic and
false in comparisons (`Plus`, `Minus`, `Less`). `Valid` is `AccountRequestModel.validate`:
an id that is missing, no number or not positive (`BadIds`), an amount that is
present and no number (`Text`) or negative, and a balance or stat that is not usable
(`extra`) are refused; a missing amount is not. The `payment.fail` handler passes no
amount, so its use has the amount `NaN` and passes validation.

### Reservation

Same layout. `row[s]` has a status and a holder; `confimed` is spelled as the code
spells it. `item()` wraps a missing row in an empty model, so the tests behind
`Find` cannot fail and its result decides nothing; a reserve is answered with it
(`item`), and `EmptyAnswerMeansTaken` says what an answer without a row means.
`Update` takes the row's lock up to the
end of the transaction; the update of a reserve is not awaited but reaches the
connection before the COMMIT, so it stays part of the transaction, and its
rejection ends the process (`ReserveUpdateFails`). `Swallow` is the catch block of
`book`. A COMMIT whose acknowledgement is lost answers a reserve with an error, and ends
the process for a book, which nobody awaits (`AcknowledgementLost`). `LookupFails` and `LookupFinds` are a turn of the loop of `rollBack`; when the
event is found the compensation throws a TypeError nobody awaits.

### Ticketing

A payment goes `record`, `outbox`, `commit`, `emit`, `end`; `paid` are those whose
rows are committed. At `emit` the acknowledgement of the COMMIT is on its way: when it
comes, `Emit` hands the event to the producer (`flight`) and answers without waiting for
the broker; when it is lost, the caller gets an error and nothing is emitted. `Produce`
puts the event behind the last place of its topic, `SendFails` loses it. `topic[p]` is
the place of the event of `p` in `payment.success` and `delivered[p]` how often the event
started a use. A use `<<p, k>>`, the `k`-th delivery of the event of `p`, is a request
of the ledger; `Debit` is its commit, which compares nothing with the inbox, and
`Announce` its third failed save.

The consumer is modelled from the defaults of kafkajs and of Nest's Kafka server, which
sets neither `autoCommitInterval` nor `autoCommitThreshold` and uses `eachMessage`: it
holds a `batch` of one topic with `size` messages, of which `done` were handed on and
returned, and commits the offset behind the last one only then (`CommitBatch`).
`Rejoin` is a consumer that joins its group again, and reads from the committed offset.

`Refused` is a negative amount or an id that is not positive: nothing before the account
looks at either. `DeliverRefused` is the handler of such an event, which does
not await the use and returns like any other. The process is `doomed` from there on: until
`Die` it may still hand on the rest of the batch and commit its offset, as the callbacks
that are ready may, but nothing that needs an answer of the database or of a timer
has an effect any more. The restarted process reads the same batch again, unless the offset
was committed.

`payment.fail` is a count `failQ` of uncommitted messages: its messages carry no
usable id. Each one starts a use without an amount (`failUses`), which never
commits but may announce itself in turn (`FailUseAnnounces`), and a `rollBack`
that finds nothing: it emits the message again (`RollBackGivesUp`), waits another second and
returns (`RollBackReturns`), and only behind its batch the offset is committed; after
a stop in between, the old message and the new one are both there.

### TicketQueue

`entry`, `misfiled`, `queue` and `use` are what Redis holds; each command is atomic
and a step of its own, anything may happen between two of them. A token is the
secret it was signed with: `header[i]` for the client's, `entry[i]` for the server's
under the uuid `i`. `issue[i]` is the await a POST /userTokens has reached: it looks
for the user (`FindUser`, whose refusal tests a promise and never happens; a missing
row becomes a TypeError) and stores the server token (`StoreEntry`). Both forms in
which the answer offers a token are modelled, the header, which prints an object, and
the body.

No such token passes the guard, whose secrets are others. So that its queues
are reached at all, the uuids of `External` stand for an issuer that signs with the
guard's secrets and writes the `queueIdx` the guard reads; the others are refused
at the first key.

`pc[r]` of a request names the command the guard waits for: `get` (the entry), `use`
and `queue` (the two `lpos`), `push`, `position` (the `lpos` behind it, where `null + 1`
is 1), `store` (the new server token, under a misspelled key that nobody reads). `told`
is the position in the new token, the only one that an answer carries: that of a user who
waits already is written to the body of the request (`LookupQueue`), and the 403 does
without. The path is compared with a route pattern that no
request has; the path `pattern` stands for the route it is meant for, so that what is
behind the comparison is seen too.

`run[s]` is a run of the scheduler: `range` (reading the batch), `admit` (pushing its
users, `pushed` so far), `trim`, and `spin` when it is behind the last queue in use,
where it changes nothing any more. `Fire` starts a run whether or not another is
under way. `Crash` ends requests and runs and leaves Redis alone; `CommandFails`,
`IssueFails` and `RunFails` are a rejected command or query. `pushes`, `stranded`,
`overlapped` and `overtaken` only record what happened; `Moved(u)` are the places of a
user that the runs have pushed and not yet trimmed, which a fault strands in both lists.

`ImplementsLine` maps what a run has pushed and not yet trimmed (`Gone`) to the users
`passing` of the abstract line and the rest of the queue to its `line`: a push joins, a
push to the use list enters, a trim settles, and a crash or a failed run gives the
places back (`Return`); everything else is a stutter.

Two runs that read one queue at once admit its users twice, and their two trims drop
users who were never admitted. `EntriesConserved`, `ToldPositionHolds`, `ImplementsLine`
and `QueuedAreAdmitted` hold as long as that does not happen (`overlapped`); in instances
with one queue and two runs TLC refutes each of them without the condition.
`AdmittedInOrder` has the condition because its proof needs it: a run with a stale batch
admits a user who was queued again behind others, which takes more requests than
the instance has. No document says that runs must not overlap.

### Concert

A call is a sequence of queries over tables that nothing writes, one step each.
A condition whose value is undefined is left out of a query (`Matches`), and a
missing plan is wrapped in a model without fields (`NoPlan`). `reservableDates` of a
given concert throws before its first query; of all concerts it compares the plan
of a ticket with the concert of a plan (`IsReservatable`). `Info` and `InfoThrows` are
the two signatures of `ConcertRepository.info`, the declared and the implemented one;
what is said of its seats lies behind the declared one.

## 3. The runs

Passing runs:

| run | instance | shows |
|---|---|---|
| `account` | 3 calls of any kind, by a user with an account, one without and one whose id is refused, amounts -1, 2, NaN and no number, balance 2 of at most 4, pool of 2 | `LedgerBalanced`, `BalanceInRange`, `ReadIsFresh`, `DebitHasOutbox`, `AnswerIsTrue`, that every behaviour is one of `Ledger` (`ImplementsLedger`), and `CallsEnd`: no HTTP call waits for ever although loops keep rows and connections |
| `reservation` | 3 calls of any kind on one seat, with and without an id that names it, 2 users | `BoxesAtomic`, `RowExplained`, `AnswerIsTrue`, `EmptyAnswerMeansTaken`, `CallsEnd`, and that every behaviour is one of `SeatBook` (`ImplementsSeatBook`) |
| `ticketing` | 2 payments of -1, 2 or NaN by 2 users or an id that is refused, balance 4, 1 stop, 2 messages of `payment.fail` | `DebitsArePaid`, `AnswerIsTrue`, `RedeliveredAfterStop`, `DebitIsBounded`, `NoDebitPastRefused`, and `EventsHandled` under fairness |
| `queue` | 2 requests of 2 users in one queue, 2 external tokens and one issued, 2 runs that may overlap, batches of 2, 1 crash or failed run | `EntriesConserved`, `ToldPositionHolds`, `SecondEntryIsRaced`, `AdmittedInOrder`, and that every behaviour is one of `WaitingLine` until runs overlap (`ImplementsLine`) |
| `queue_liveness` | 2 requests, 2 users in two queues, one of them without a row, 1 run at a time, 1 crash or failed run | `QueuedAreAdmitted` |
| `concert` | every content of the tables and every request over 2 concerts, 2 plans and 2 seats | `OnePlanAnswered` |

The runs for safety also check the `TypeOK` of their module.

Runs that TLC refutes. Each takes a sentence of a test, a comment or a document
and shows that the code does otherwise; `findings` quotes the lines:

| run | expectation | what the code does |
|---|---|---|
| `account_failed_debit` | what fails leaves no effect | a use announces `payment.fail` and debits all the same |
| `account_loop` | a payment event is debited | a use whose saves succeed never leaves its loop |
| `reservation_twice` | one reserve of a seat succeeds | the second overwrites the first |
| `ticketing_book` | a payment confirms its reservation | the handler reads a field the event does not have |
| `queue_seats` | only an admitted user is shown seats | the guard compares the path with a pattern and lets every other path pass |
| `concert_answers` | an answer tells what can be reserved | a date is listed for the tickets of another plan |

`account_loop`, the temporal one, is refuted under the fairness stated below: its
counterexample is no system that merely stops.

### Bounds

Three calls let two of them collide while a third comes in behind them, or after
a crash between them; with one account and one seat all of them collide. The
amounts are one that is refused, one that fits, one that is missing and one that is no
number; the
balance allows one debit and one charge (`Account`), so both ends of the column
are reached. A pool of two is full with two loops. `RowCap` only bounds how far the
event rows of one request are counted; at one, the runs tell a row from none, and the
proofs count on. In `Ticketing` two payments give every
order of two events, a refused one before and behind another one, in one batch or in
two, and one stop gives a second delivery; whatever makes the process or its
consumer stop counts, refused events included, so that a refused event is handed on again
only with a larger bound, which the proofs do without. The instance keeps one order of
every pair of payments. Two messages of `payment.fail` let one
be consumed while the other waits. `MaxFails` and `MaxStops` are guards of the
actions that would exceed them. In `TicketQueue` two requests of one user race each
other, two of different users share a batch or, in `queue_liveness`, wait in
different queues, where a run that finds one of them goes on to the next queue and
ends up behind both; a batch of two is filled, half filled or empty; two runs overlap
in every way; `MAX_CRASHES` counts crashes and failed runs together, so that the
run behind a fault is always seen, and failed requests are not counted. `LastIdx` is
the last queue that occurs: a run behind it reads empty lists only. The tables of
`Concert` are all those over two keys and two seats, where the plan and the concert
of a number can and can not belong together. The MC modules of `Account` and `Reservation` keep
one order of every bag of jobs: the calls are interchangeable. `queue`, which checks
no liveness, uses the symmetry of requests and of runs.

`CHECK_DEADLOCK FALSE` appears in the `ticketing` configurations, where the system
rests after the last payment, with no message left and no stop left to happen, and
in `concert`, where the one call has ended.

### Fairness

Weak fairness of each step that is ready says that the event loop and the
database run what is ready (`Advance`, `Step`, `Produce`, `Deliver`, `CommitBatch`, the
steps of `rollBack`), that a lock wait times out, that a doomed process dies, and that
the process is restarted. In `Ticketing`, `FetchSome` of each topic is strongly fair: it is
disabled whenever the consumer holds a batch of the other topic, and the consumer
fetches from both in turn. No call, failure, loss
or debit is fair, no rejoin and no crash; `EventsHandled` assumes that stops are finitely
many, which `MaxStops` makes explicit, and leaves out events whose offset a refused one,
before them or behind them in their batch, keeps from being committed.
`TicketQueue` adds that the cron job goes on firing (`Fire`) and a run goes on with its
commands (`Move`); `QueuedAreAdmitted` rests on finitely many faults in the same way.

### Mutants

Each property of a passing run has a mutant: a definition of the module with a
bug one could plausibly write (a read without the lock, a dropped check, a
failure not counted, an event emitted inside the transaction, an offset never
committed, a rejection that is caught). They stand before the definition they
replace, and TLC finds the property violated with each of them.

## 4. The proofs

Checked by TLAPS for every value of the constants that the `ASSUME` of the module
allows: any set of calls or payments, of users, amounts and seats, any pool
and any bound. The assumptions say no more than that the bounds are numbers,
balances start in range, and `NaN` and `None` are none of the ordinary values.

`AccountProofs` proves `IndInv` of `Account` inductive. The safety properties alone
are not: that the balance written is the right one depends on the balance read
still being current, which depends on who holds the lock (`LockInv`), and on what
the local variables hold at each await (`TxInv`): between the first saved outbox
row and the update `tx.bal` is either `NaN` or the difference of what was read, and
it is a number only if an outbox row of the request is there. `RecordInv` ties the
answer to the commit, the acknowledgements that were lost (`unacked`) apart. There is a lemma per action (or per group of actions that
write the same variables), each split by the conjuncts it can disturb. From
`Inductive` follow `TypeCorrect`, `BalanceMatchesHistory`, `NoOverdraft`,
`NoStaleRead`, `DebitsLeaveEvents` and `AnswersAreTrue`; `Refinement` maps each action
to `Apply`, to `Close` or to a stutter of the ledger.

`TicketingProofs` does the same for `Ticketing`. `EventInv` orders a payment, its
event and its debit; `PlaceInv` says that each place of the topic is taken once;
`ConsumerInv` counts: an event was delivered at most once per stop, and once more only
if it is committed or was handed on in the batch the consumer holds. `RefusalInv` is why nothing
passes a refused event: once it is handed on the process is doomed, and until its
offset is committed every use of an event behind it is closed, or open in the doomed
process, which can no longer commit it; `Die` closes it. `DebitInv`
is about the sum: a fold over the payments would need induction over data, so the
points are counted instead. The debit of a use `u` stands for the points `<<u, n>>`, one
for each `n` up to its amount (`Debited`), and an account has
lost as many as it has elements; a `Debit` adds the points of one delivery, all of
them new. Since no event is delivered more than once per stop and once more, they are
part of as many copies of the points of the recorded payments (`PointsOf`). From `Inductive`
follow `TypeCorrect`, `NoUnpaidDebit`, `DeliveriesCountStops`, `RefusedEventBlocks`,
`DebitsAreBounded` and `AnswersAreTrue`.

`ReservationProofs` ties the lock of a row to the one transaction that has updated
it (`LockInv`), the uncommitted writes of a call to the await it has reached (`TxInv`),
and what is committed and answered to the calls that ended (`DoneInv`, `ItemInv`);
with `BoxesAtomic` and `RowExplained` this is inductive. `MovesOneInd` reduces every
step of one call that commits nothing to that call. From `Inductive` follow
`TypeCorrect`, `BoxesAgree`, `RowsAreExplained`, `AnswersAreTrue` and
`EmptyAnswersAreLate`; `Refinement` maps the commit of an update
to `Apply`, and every other step to `Close` or to a stutter of `SeatBook`.

`TicketQueueProofs` rests on four facts about the steps. Tokens the guard verifies
are external (`TokenInv`, `RequestInv`). The batch of a run is still the front of its
queue, since others only push at its end, and what the run has pushed is in the
use list (`RunInv`); that needs runs to be at different queues (`Apart`), which is
what `~ overlapped` buys. A request past a lookup that would now find its user was
overtaken (`OvertakenInv`). And a user who was told a position is in the use list
or within that many places (`ToldInv`): a trim moves everybody up and removes only
users who were admitted. Since TLAPS knows nothing of `SelectInSeq`, the meaning of
a position is proved first (`MinOfSet`, `PositionMeaning`, `PositionWithin`). From
`Inductive` follow `TypeCorrect`, `SecondEntriesAreRaced`, `PositionsHold` and `AdmissionInOrder`.

`EntriesAreConserved` needs `CountInv` beside these: the places of a user in the
queues, and in what the runs have moved, are finitely many, and their numbers agree
with the history. Both are unions of sets tagged with their queue or run, so that a
step that changes one queue or one run changes the count there alone (`TaggedStep`
of `CountingTheorems`; `WaitingStep`, `MovedStep`). What is left are lists: an append
adds one place (`PlacesAppend`), and a trim takes away exactly the places its run had
moved (`PlacesTrimmed`), because the batch is still the front of the queue.

`Refinement` shows that each step maps to one of `WaitingLine` as long as runs do not
overlap: what is gone from a queue is then what one run has pushed of it
(`GoneIsPushed`). `OneRunIsALine` drops the condition where at most one run is ever
under way; its hypothesis on `Runs` is what the instance of `queue_liveness` has.

`ConcertProofs` needs one fact besides the answers: a call that is about to read the
tickets holds the plan it asked for, or an empty model if there is none (`PlanInv`). From
`Inductive` follow `TypeCorrect` and `SeatsOfOnePlan`.

Only model-checked: the liveness properties (`CallsEnd`, `EventsHandled`,
`QueuedAreAdmitted`), which TLAPS does not reach. That a fold over the payments equals
the number of points counted in its place is data induction and is not stated. Every
invariant was checked by TLC on the instance of its run before it was proved.

## 5. What is not modelled

- `AccountService.rollBack` and `history`, and the queries of the reservation's
  repository no handler calls: unreachable at this commit.
- The retries of the Kafka producer itself, which may write an event twice, and
  several consumers. `RedeliveredAfterStop` and `DebitIsBounded` hold for one
  server whose producer gets its acknowledgements.
- The first start of a consumer group that has never committed an offset: it
  would read from the end of a topic (`fromBeginning` is not set) and pass over the events that
  are there. A batch that spans both topics, or partitions, does not occur: each
  topic has one partition, and batches of different topics are handed on in turn.
- A `userId` of a payment that is no number: parsed, it is NaN and passes the
  validation, and its use finds no account.
- Times: a delay, a lock wait and a consumer's poll take as long as they like; an
  entry in Redis expires whenever it likes.
- The contents of outbox and inbox rows other than whose they are, and the fields of
  a token other than its secret, its user and its queue.
- Of Concert: the use case, which does not parse, and the controller, which calls
  methods it does not have. The ticket repository is assumed.
- The Redis client's reconnects and its queue of commands that wait for one.
- The format of log lines and error bodies; the wiring of modules.
- More than one server process. Two would overlap their runs, which `Runs` covers.

The code also does some things that the documents or tests of the repository say
otherwise, and that have no run of their own. The models follow the code in each:

| the repository says | the code does | in the model |
|---|---|---|
| `account.service.spec.ts:48`: '계좌 정보가 없을 때 NotFoundException을 던져야 합니다.' | `account.service.ts:26` tests a wrapper that is never null: `point` answers a user without an account with success | `Read`, `Query` |
| `README.md:142-168`, sequence of a payment: recorded only if the balance covers it, else '잔액 충전 알림' | `payment.service.ts:20` records and announces it without reading the balance | `SaveRecord` |
| `userToken.guard.ts:76` and `README.md:21-23`: the position in the queue is returned | `userToken.guard.ts:77` writes it to the body of the request and returns false: a 403 without it | `LookupQueue` |
| `Redis 로직이관을 통한 성능 개선 보고서.md:22-35` and `README.md:216-242`: the issued token authenticates requests | `userToken.guard.ts:22` verifies with other secrets and refuses it | `Verified`, `Refuse` |
| the same report, line 18, and `README.md:50-57`: an admission ends | no code takes a user out of the use list (`queue.schduler.ts:33`) | `Admit` |
| `concert.service.spec.ts:71`, `concert.use-case.spec.ts:58`: a plan that does not exist is refused | `concert.service.ts:74` tests a wrapper that is never null | `PlanInfo`, `FindPlan` |
| `README.md:273`: the seats that can be reserved | `concert.service.ts:83` compares the status with a misspelled word | `SeatOf`; `AnswersAreAvailable` watches it too |

That the `rollBack` of the reservation announces itself again for ever, and that a
payment is recorded without a look at its reservation, no document contradicts.

## 6. Plan

Done, in this order: `Ledger`, `Account`, `AccountProofs`, `Reservation`, `Ticketing`,
`TicketingProofs`, `TicketQueue`, `Concert`, `ReservationProofs`, `TicketQueueProofs`,
`SeatBook`, `CountingTheorems`, `ConcertProofs`, `WaitingLine`. Next:

1. An abstract log of events, each read in order and again only after a stop, that
   the topics of `Ticketing` and their consumer implement, the producer's `flight`
   hidden.
2. `Ticketing` with `SeatBook` in it: it takes the id of a book to reach the handler,
   which it does not at this commit.
3. The conversions between DTO, command, model and entity, as far as a field is lost
   or renamed on the way; those of the payment event are followed so far.
