---------------------------- MODULE Reservation -----------------------------
(***************************************************************************)
(* The reservation component: ReservationController, ReservationUsecase,   *)
(* ReservationService and ReservationRepository.                           *)
(*                                                                         *)
(* A request is one call of a handler: POST /reservations ("reserve"), a   *)
(* payment.success message ("book") or a payment.fail message              *)
(* ("rollback").  Each await is a step of its own.                         *)
(*                                                                         *)
(* The repository's item() wraps a missing row in an empty model, so none  *)
(* of the three tests for a missing item can fail: the row that was found  *)
(* decides nothing.  It is what a reserve is answered with.                *)
(***************************************************************************)
EXTENDS Integers

CONSTANTS
    Requests,      \* the calls made over a behaviour
    Users,         \* the users that appear in calls
    Seats,         \* the rows of the reservation table
    None           \* no row, no holder

ASSUME ReservationAssumption ==
    /\ None \notin Requests
    /\ None \notin Users
    /\ None \notin Seats

MAX_RETRIES == 3

\* What a call asks for: the body of POST /reservations, which nothing validates,
\* or a message.  The seat is None when the category is incomplete or names no row,
\* or when the id of the message is not a number.
Jobs == [kind : {"reserve", "book", "rollback"}, user : Users, seat : Seats \cup {None}]

\* What item() returns: the row it found or a model without fields.
Items == {"row", "empty"}

VARIABLES
    row,           \* the committed row of each seat
    outbox, inbox, \* the requests with a committed row in each table
    taken,         \* the reserves whose update is committed
    booked,        \* the books whose update is committed
    unacked,       \* the requests whose COMMIT was applied and not acknowledged
    rowLock,       \* the transaction that has updated each row
    up,            \* is the server process running
    failed,        \* rollbacks that emitted payment.fail
    job,           \* what each request asks for
    pc,            \* the await each request has reached
    tx,            \* uncommitted rows and the retry count of each request
    item,          \* what the find of each reserve returned, "none" before it
    reply          \* how the request ended for its caller

tables == <<row, outbox, inbox, taken, booked>>
durable == <<tables, unacked>>
vars == <<durable, rowLock, up, failed, job, pc, tx, item, reply>>

Active == {"begin", "outbox", "find", "update", "inbox", "commit",
           "reply", "lookup"}
NoTx == [outbox |-> FALSE, updated |-> FALSE, inbox |-> FALSE, retry |-> 0]

\* The type invariant: in particular no rollBack counts more failures than
\* MAX_RETRIES.
TypeOK ==
    /\ row \in [Seats -> [status : {"available", "temp", "confimed"},
                          holder : Users \cup {None}]]
    /\ outbox \subseteq Requests /\ inbox \subseteq Requests
    /\ taken \subseteq Requests /\ booked \subseteq Requests
    /\ unacked \subseteq Requests
    /\ rowLock \in [Seats -> Requests \cup {None}]
    /\ up \in BOOLEAN
    /\ failed \subseteq Requests
    /\ job \in [Requests -> Jobs]
    /\ pc \in [Requests -> Active \cup {"idle", "end"}]
    /\ tx \in [Requests -> [outbox : BOOLEAN, updated : BOOLEAN, inbox : BOOLEAN,
                            retry : 0 .. MAX_RETRIES]]
    /\ item \in [Requests -> Items \cup {"none"}]
    /\ reply \in [Requests -> {"none", "ok", "error", "lost"}]

Init ==
    /\ row = [s \in Seats |-> [status |-> "available", holder |-> None]]
    /\ outbox = {} /\ inbox = {}
    /\ taken = {} /\ booked = {} /\ unacked = {}
    /\ rowLock = [s \in Seats |-> None]
    /\ up = TRUE
    /\ failed = {}
    /\ job \in [Requests -> Jobs]
    /\ pc = [r \in Requests |-> "idle"]
    /\ tx = [r \in Requests |-> NoTx]
    /\ item = [r \in Requests |-> "none"]
    /\ reply = [r \in Requests |-> "none"]

-----------------------------------------------------------------------------
(* How a request ends.                                                      *)

Goto(r, s) == pc' = [pc EXCEPT ![r] = s]
Unlocked(r) == [s \in Seats |-> IF rowLock[s] = r THEN None ELSE rowLock[s]]

\* The transaction is rolled back and the error answered.
Reject(r) ==
    /\ Goto(r, "end")
    /\ reply' = [reply EXCEPT ![r] = "error"]
    /\ tx' = [tx EXCEPT ![r] = NoTx]
    /\ rowLock' = Unlocked(r)
    /\ UNCHANGED up

Die ==
    /\ pc' = [r \in Requests |-> IF pc[r] \in Active THEN "end" ELSE pc[r]]
    /\ reply' = [r \in Requests |-> IF pc[r] \in Active THEN "lost" ELSE reply[r]]
    /\ tx' = [r \in Requests |-> NoTx]
    /\ rowLock' = [s \in Seats |-> None]
    /\ up' = FALSE

\* Only a reserve is awaited by somebody who answers; the transaction of a book
\* is started without an await, and its rejection ends the process.
Abandon(r) ==
    /\ IF job[r].kind = "reserve" THEN Reject(r) ELSE Die
    /\ UNCHANGED <<failed, job, item>>

Fail(r) == Abandon(r) /\ UNCHANGED durable

\* The catch block of book swallows the error and lets the transaction commit
\* what was written so far.  It counts one retry, so payment.fail is not sent.
Swallow(r) ==
    /\ Goto(r, "commit")
    /\ UNCHANGED <<durable, rowLock, up, failed, job, tx, item, reply>>

-----------------------------------------------------------------------------

Receive(r) ==
    /\ up
    /\ pc[r] = "idle"
    /\ Goto(r, IF job[r].kind = "rollback" THEN "lookup" ELSE "begin")
    /\ UNCHANGED <<durable, rowLock, up, failed, job, tx, item, reply>>

Begin(r) ==
    /\ pc[r] = "begin"
    /\ Goto(r, IF job[r].kind = "book" THEN "outbox" ELSE "find")
    /\ UNCHANGED <<durable, rowLock, up, failed, job, tx, item, reply>>

\* Mutant: the reserve looks for a row that is taken.
FoundTaken(r) ==
    LET rows == {s \in Seats : row[s].status = "temp" /\ job[r].seat \in {s, None}}
    IN  IF rows = {} THEN {"empty"}
        ELSE IF job[r].seat = None THEN Items ELSE {"row"}

\* The find of a reserve: an available row with its category.  A category that is
\* incomplete matches any available row, one that names no row matches none.
Found(r) ==
    LET rows == {s \in Seats : row[s].status = "available" /\ job[r].seat \in {s, None}}
    IN  IF rows = {} THEN {"empty"}
        ELSE IF job[r].seat = None THEN Items ELSE {"row"}

\* Whatever is found, the call goes on; a book looks at it no more.
Find(r) ==
    /\ pc[r] = "find"
    /\ \/ /\ job[r].kind = "reserve"
          /\ \E i \in Found(r) : item' = [item EXCEPT ![r] = i]
       \/ job[r].kind = "book" /\ UNCHANGED item
    /\ Goto(r, "update")
    /\ UNCHANGED <<durable, rowLock, up, failed, job, tx, reply>>

-----------------------------------------------------------------------------
(* The updates.  ReservationRepository.reserve does not await its UPDATE; it *)
(* still reaches the connection before the COMMIT, which takes more turns of *)
(* the microtask queue to be sent, so it is a step of the transaction.  What *)
(* the missing await loses is the rejection, which nobody handles.           *)

\* The status in the model when it is written.
NewStatus(r) == IF job[r].kind = "reserve" THEN "temp" ELSE "confimed"

\* Mutant: a book also writes the user of the message.
WrittenWithUser(r) == [status |-> NewStatus(r), holder |-> job[r].user]

\* The row as the update of request r leaves it, whatever its status was: only a
\* reserve writes the user.
Written(r) ==
    [status |-> NewStatus(r),
     holder |-> IF job[r].kind = "reserve" THEN job[r].user ELSE row[job[r].seat].holder]

\* Mutant: the UPDATE of a reserve does not reach the connection in time.
UpdateNotSent(r) ==
    /\ pc[r] = "update"
    /\ IF job[r].kind = "book" /\ job[r].seat \in Seats
       THEN /\ rowLock[job[r].seat] = None
            /\ rowLock' = [rowLock EXCEPT ![job[r].seat] = r]
            /\ tx' = [tx EXCEPT ![r].updated = TRUE]
       ELSE /\ job[r].kind = "reserve"
            /\ UNCHANGED <<rowLock, tx>>
    /\ Goto(r, IF job[r].kind = "book" THEN "inbox" ELSE "commit")
    /\ UNCHANGED <<durable, up, failed, job, item, reply>>

\* The update locks its row up to the end of the transaction.  A reserve that
\* matches no row does not notice.
Update(r) ==
    /\ pc[r] = "update"
    /\ IF job[r].seat \in Seats
       THEN /\ rowLock[job[r].seat] = None
            /\ rowLock' = [rowLock EXCEPT ![job[r].seat] = r]
            /\ tx' = [tx EXCEPT ![r].updated = TRUE]
       ELSE /\ job[r].kind = "reserve"
            /\ UNCHANGED <<rowLock, tx>>
    /\ Goto(r, IF job[r].kind = "book" THEN "inbox" ELSE "commit")
    /\ UNCHANGED <<durable, up, failed, job, item, reply>>

\* A lock wait timeout, or any other failure, of the UPDATE of a reserve.
ReserveUpdateFails(r) ==
    /\ pc[r] = "update"
    /\ job[r].kind = "reserve"
    /\ Die
    /\ UNCHANGED <<durable, failed, job, item>>

-----------------------------------------------------------------------------
(* Book.                                                                    *)

SaveOutBox(r) ==
    /\ pc[r] = "outbox"
    /\ tx' = [tx EXCEPT ![r].outbox = TRUE]
    /\ Goto(r, "find")
    /\ UNCHANGED <<durable, rowLock, up, failed, job, item, reply>>

\* A book that updates no row, or whose id is not a number, throws.
NothingToBook(r) ==
    /\ pc[r] = "update"
    /\ job[r].kind = "book"
    /\ job[r].seat = None
    /\ Swallow(r)

\* Mutant: the inbox row is saved although the update failed.
SwallowIntoInBox(r) ==
    /\ pc[r] \in {"outbox", "find", "update", "inbox"}
    /\ job[r].kind = "book"
    /\ Goto(r, IF pc[r] = "update" THEN "inbox" ELSE "commit")
    /\ UNCHANGED <<durable, rowLock, up, failed, job, tx, item, reply>>

\* Any statement of a book fails, a lock wait that times out included.
BookStatementFails(r) ==
    /\ pc[r] \in {"outbox", "find", "update", "inbox"}
    /\ job[r].kind = "book"
    /\ Swallow(r)

SaveInBox(r) ==
    /\ pc[r] = "inbox"
    /\ tx' = [tx EXCEPT ![r].inbox = TRUE]
    /\ Goto(r, "commit")
    /\ UNCHANGED <<durable, rowLock, up, failed, job, item, reply>>

-----------------------------------------------------------------------------

\* The server applies the COMMIT; its acknowledgement is on the way at "reply".
Commit(r) ==
    /\ pc[r] = "commit"
    /\ LET t == tx[r]
           Add(b, set) == IF b THEN set \cup {r} ELSE set
       IN  /\ outbox' = Add(t.outbox, outbox)
           /\ inbox' = Add(t.inbox, inbox)
           /\ taken' = Add(t.updated /\ job[r].kind = "reserve", taken)
           /\ booked' = Add(t.updated /\ job[r].kind = "book", booked)
           /\ row' = IF t.updated THEN [row EXCEPT ![job[r].seat] = Written(r)] ELSE row
    /\ rowLock' = Unlocked(r)
    /\ Goto(r, "reply")
    /\ tx' = [tx EXCEPT ![r] = NoTx]
    /\ UNCHANGED <<unacked, up, failed, job, item, reply>>

\* The start of a transaction or the find of a reserve fails, or a COMMIT before
\* the server has applied it.
TransactionFails(r) ==
    /\ \/ pc[r] \in {"begin", "commit"}
       \/ pc[r] = "find" /\ job[r].kind = "reserve"
    /\ Fail(r)

\* The connection is lost behind an applied COMMIT: the transaction wrapper
\* rethrows all the same, to the caller of a reserve and to nobody for a book.
AcknowledgementLost(r) ==
    /\ pc[r] = "reply"
    /\ unacked' = unacked \cup {r}
    /\ Abandon(r)
    /\ UNCHANGED tables

\* The COMMIT is acknowledged: a reserve is answered, a book is done.
Reply(r) ==
    /\ pc[r] = "reply"
    /\ Goto(r, "end")
    /\ reply' = IF job[r].kind = "reserve" THEN [reply EXCEPT ![r] = "ok"] ELSE reply
    /\ UNCHANGED <<durable, rowLock, up, failed, job, tx, item>>

-----------------------------------------------------------------------------
(* RollBack.                                                                *)

\* Mutant: a failed lookup is not counted.
LookupFailsUncounted(r) ==
    /\ pc[r] = "lookup"
    /\ tx' = [tx EXCEPT ![r].retry = IF @ = 0 THEN 1 ELSE 0]
    /\ UNCHANGED <<durable, rowLock, up, failed, job, pc, item, reply>>

\* Mutant: the failures are counted, but never compared with MAX_RETRIES.
LookupFailsUnbounded(r) ==
    /\ pc[r] = "lookup"
    /\ tx' = [tx EXCEPT ![r].retry = @ + 1]
    /\ UNCHANGED <<durable, rowLock, up, failed, job, pc, item, reply>>

\* The event is not found, or the query throws: retry, and at the third failure
\* emit payment.fail.
LookupFails(r) ==
    /\ pc[r] = "lookup"
    /\ tx' = [tx EXCEPT ![r].retry = @ + 1]
    /\ \/ /\ tx[r].retry + 1 < MAX_RETRIES
          /\ UNCHANGED <<pc, failed>>
       \/ /\ tx[r].retry + 1 = MAX_RETRIES
          /\ Goto(r, "end")
          /\ failed' = failed \cup {r}
    /\ UNCHANGED <<durable, rowLock, up, job, item, reply>>

\* The event is found: updateStatus is called without a manager and without an
\* await, and its TypeError ends the process before the loop comes round.
LookupFinds(r) ==
    /\ pc[r] = "lookup"
    /\ Die
    /\ UNCHANGED <<durable, failed, job, item>>

-----------------------------------------------------------------------------

Crash ==
    /\ up
    /\ Die
    /\ UNCHANGED <<durable, failed, job, item>>

Restart ==
    /\ ~ up
    /\ up' = TRUE
    /\ UNCHANGED <<durable, rowLock, failed, job, pc, tx, item, reply>>

Advance(r) ==
    \/ Begin(r) \/ Find(r)
    \/ SaveOutBox(r) \/ Update(r) \/ NothingToBook(r) \/ SaveInBox(r)
    \/ Commit(r) \/ Reply(r)
    \/ LookupFails(r) \/ LookupFinds(r)

Next ==
    \/ \E r \in Requests :
          \/ Receive(r) \/ Advance(r)
          \/ ReserveUpdateFails(r) \/ BookStatementFails(r) \/ TransactionFails(r)
          \/ AcknowledgementLost(r)
    \/ Crash
    \/ Restart

Spec == Init /\ [][Next]_vars

(***************************************************************************)
(* Fairness: whatever is ready is run, and the process is restarted.  An    *)
(* update waits only for a transaction that is itself under way.            *)
(***************************************************************************)
Fairness ==
    /\ WF_vars(Restart)
    /\ \A r \in Requests : WF_vars(Advance(r))
FairSpec == Spec /\ Fairness

-----------------------------------------------------------------------------
(* Safety.                                                                  *)

\* However the statements of a book fail one by one, and although its errors are
\* swallowed, a processed event (inbox) always comes with its confirmation, and
\* a confirmation with its received event (outbox).
BoxesAtomic == inbox \subseteq booked /\ booked \subseteq outbox

For(s, S) == {r \in S : job[r].seat = s}

\* Every committed row is explained by calls that ran to their end: only reserve
\* sets the holder, only book confirms, and no call gives a seat back.
RowExplained ==
    \A s \in Seats :
        /\ row[s].status = "available" <=> For(s, taken \cup booked) = {}
        /\ row[s].status = "temp" => For(s, taken) # {}
        /\ row[s].status = "confimed" => For(s, booked) # {}
        /\ IF row[s].holder = None
           THEN For(s, taken) = {}
           ELSE \E r \in For(s, taken) : job[r].user = row[s].holder

\* What a reserve is told is what happened: an error means that it wrote
\* nothing, unless the acknowledgement of the COMMIT itself was lost; a success
\* means that its update, though not awaited, was committed.
AnswerIsTrue ==
    \A r \in Requests :
        /\ reply[r] = "error" /\ r \in taken => r \in unacked
        /\ reply[r] = "ok" => r \in taken \/ job[r].seat = None

\* A reserve of a seat that is answered with success but without a row came too
\* late: another call had taken the seat or confirmed it.
EmptyAnswerMeansTaken ==
    \A r \in Requests :
        reply[r] = "ok" /\ item[r] = "empty" /\ job[r].seat \in Seats
            => For(job[r].seat, taken \cup booked) \ {r} # {}

-----------------------------------------------------------------------------
(* The component implements SeatBook.                                       *)

status ==
    [r \in Requests |->
        IF r \in taken \cup booked THEN "applied"
        ELSE IF pc[r] = "end" THEN "closed" ELSE "open"]

B == INSTANCE SeatBook

\* Every behaviour of the component is one of SeatBook.tla: a reserve or a book is
\* applied in one step, to the row as it is at its commit, at most once and never
\* after it was refused, swallowed or lost, and nothing else changes a row.
ImplementsSeatBook == B!BookSpec

-----------------------------------------------------------------------------
(* Liveness.                                                                *)

\* Every call that was received ends: the retry loop of rollBack is bounded and
\* no wait for a row lasts for ever.
CallsEnd ==
    \A r \in Requests : pc[r] \in {"begin", "lookup"} ~> pc[r] = "end"

-----------------------------------------------------------------------------
(* What the tests and reports expect and the code does not do.              *)

\* Lock report, reservation.service.spec.ts: of all the reserves of a seat only
\* the first one succeeds.
SeatTakenOnce ==
    \A r, q \in Requests :
        /\ r # q /\ job[r].seat = job[q].seat /\ job[r].seat \in Seats
        /\ job[r].kind = "reserve" /\ job[q].kind = "reserve"
        => ~ (reply[r] = "ok" /\ reply[q] = "ok")
=============================================================================
