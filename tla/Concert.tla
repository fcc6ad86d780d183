------------------------------ MODULE Concert -------------------------------
(***************************************************************************)
(* The queries of the concert component: ConcertService.reservableDates     *)
(* and reservableSeats over the tables concert, concert_plan and            *)
(* concert_ticket, which no code of the program writes.  A call is a        *)
(* sequence of queries in one transaction, one step each.                   *)
(*                                                                         *)
(* Every plan has a date of its own and stands for it.  Concerts and plans  *)
(* are numbered alike, as their generated keys are.                         *)
(*                                                                         *)
(* The service is modelled over the repositories it declares.  The program  *)
(* has no AbstractConcertTicketRepository: its ticketInfos is taken to      *)
(* filter as the others do.  Its ConcertRepository takes the parameters of  *)
(* info in the other order and throws; an info with the declared order is   *)
(* allowed as well, so that what the service does behind it is seen.        *)
(***************************************************************************)
EXTENDS Integers

CONSTANTS
    Ids,           \* the keys of concerts and plans
    Seats,         \* the seat numbers of a plan
    Undef          \* undefined: a field that is not given

ASSUME ConcertAssumption == Ids \subseteq Nat \ {0} /\ Undef \notin Ids

Opt == Ids \cup {Undef}

\* The rows of the three tables, a concert by its key.
Concerts == Ids
Plans == [id : Ids, concert : Ids]
Tickets == [plan : Ids, seat : Seats, status : {"available", "temp"}]

\* What a request carries to the service, and what the service answers: the
\* reservable dates of each concert, or the seats with their flag.
Models == [concertId : Opt, concertPlanId : Opt]
Answers == [dates : SUBSET (Concerts \X Ids),
            seats : SUBSET [seat : Seats, isReservable : BOOLEAN]]
NoAnswer == [dates |-> {}, seats |-> {}]

VARIABLES
    concerts,      \* the keys in concert
    plans,         \* the rows of concert_plan
    tickets,       \* the rows of concert_ticket
    model,         \* the fields of the request model
    pc,            \* the query the call has reached
    plan,          \* the plan that planInfo wrapped
    found,         \* the tickets that ticketInfos returned
    reply,         \* the status of the response
    body           \* its body

tables == <<concerts, plans, tickets>>
vars == <<tables, model, pc, plan, found, reply, body>>

NoPlan == [id |-> Undef, concert |-> Undef]

\* The type invariant: in particular a plan that was not found is a model without
\* fields, never null.
TypeOK ==
    /\ concerts \subseteq Concerts /\ plans \subseteq Plans /\ tickets \subseteq Tickets
    /\ model \in Models
    /\ pc \in {"idle", "info", "plan", "tickets", "read", "end"}
    /\ plan \in Plans \cup {NoPlan}
    /\ found \subseteq Tickets
    /\ reply \in {0, 200, 404, 500}
    /\ body \in Answers

\* Keys are unique, and a seat is one ticket of its plan.
Key(rows, KeyOf(_)) == \A a, b \in rows : KeyOf(a) = KeyOf(b) => a = b

Init ==
    /\ concerts \in SUBSET Concerts
    /\ plans \in {P \in SUBSET Plans : Key(P, LAMBDA p : p.id)}
    /\ tickets \in {T \in SUBSET Tickets : Key(T, LAMBDA t : <<t.plan, t.seat>>)}
    /\ model \in Models
    /\ pc = "idle"
    /\ plan = NoPlan
    /\ found = {}
    /\ reply = 0
    /\ body = NoAnswer

-----------------------------------------------------------------------------
(* How the repositories look a row up.                                      *)

\* A condition whose value is undefined is left out of the query.
Matches(key, id) == key = Undef \/ key = id

\* Mutant: a missing row is handed on as it is.
PlanInfoUnwrapped(key) ==
    LET rows == {p \in plans : Matches(key, p.id)}
    IN  IF rows = {} THEN {Undef} ELSE rows

\* findOne: the row with the key, or some row, wrapped in a model; a missing row
\* becomes a model without fields, never null.
PlanInfo(key) ==
    LET rows == {p \in plans : Matches(key, p.id)}
    IN  IF rows = {} THEN {NoPlan} ELSE rows

\* find without a condition.
Infos == concerts
PlanInfos == plans

TicketInfos(key) == {t \in tickets : Matches(key, t.plan)}

End(status, answer) == pc' = "end" /\ reply' = status /\ body' = answer

\* GlobalExceptionFilter, which no module registers, and Nest's own alike: an
\* HttpException is answered with its own status.
Status(exception) == IF exception = "NotFoundException" THEN 404 ELSE 500
Throw(exception) == End(Status(exception), NoAnswer)

-----------------------------------------------------------------------------
(* reservableDates.                                                         *)

\* concertInfos is not initialised when a concert is given: reading its push is a
\* TypeError before the first query.
DatesOfConcert ==
    /\ pc = "idle"
    /\ model.concertId # Undef
    /\ Throw("TypeError")
    /\ UNCHANGED <<tables, model, plan, found>>

\* The three queries of all concerts, sent together on one connection.
Dates ==
    /\ pc = "idle"
    /\ model.concertId = Undef
    /\ pc' = "read"
    /\ found' = TicketInfos(Undef)
    /\ UNCHANGED <<tables, model, plan, reply, body>>

\* updateIsReservatable: a free ticket whose plan has the number of the plan's
\* concert.
IsReservatable(p) == \E t \in found : t.plan = p.concert /\ t.status = "available"

\* updateReservableDates: the reservable plans of a concert.
DatesOf(c) == {<<c, p.id>> : p \in {q \in PlanInfos : q.concert = c /\ IsReservatable(q)}}

ReservableDates ==
    /\ pc = "read"
    /\ End(200, [NoAnswer EXCEPT !.dates = UNION {DatesOf(c) : c \in Infos}])
    /\ UNCHANGED <<tables, model, plan, found>>

-----------------------------------------------------------------------------
(* reservableSeats.                                                         *)

\* ConcertRepository.info, called with the manager in the place of the entity.
InfoThrows ==
    /\ pc = "idle"
    /\ Throw("TypeError")
    /\ UNCHANGED <<tables, model, plan, found>>

\* An info with the declared order: the model it wraps its row in is never null,
\* and nothing reads it.
Info ==
    /\ pc = "idle"
    /\ pc' = "plan"
    /\ UNCHANGED <<tables, model, plan, found, reply, body>>

\* planInfo: its model is never null either.
FindPlan ==
    /\ pc = "plan"
    /\ plan' \in PlanInfo(model.concertPlanId)
    /\ pc' = "tickets"
    /\ UNCHANGED <<tables, model, found, reply, body>>

\* The status that reservableSeats looks for.
SeatStatus == "availabe"

\* A seat of the answer.
SeatOf(t) == [seat |-> t.seat, isReservable |-> t.status = SeatStatus]

\* Mutant: the tickets are not filtered.
SeatsOfAll(rows) == {SeatOf(t) : t \in rows}

\* The seats of the plan among the tickets.
SeatsOf(rows) == {SeatOf(t) : t \in {u \in rows : u.plan = plan.id}}

\* updateReservableTickets, or the only refusal.
ReservableSeats ==
    LET rows == TicketInfos(model.concertPlanId)
    IN  /\ pc = "tickets"
        /\ found' = rows
        /\ \/ rows = {} /\ Throw("NotFoundException")
           \/ rows # {} /\ End(200, [NoAnswer EXCEPT !.seats = SeatsOf(rows)])
        /\ UNCHANGED <<tables, model, plan>>

-----------------------------------------------------------------------------

Next ==
    \/ DatesOfConcert \/ Dates \/ ReservableDates
    \/ InfoThrows \/ Info \/ FindPlan \/ ReservableSeats

Spec == Init /\ [][Next]_vars

-----------------------------------------------------------------------------
(* What an answer says.                                                     *)

\* An answer with seats names the seats of one plan of the table and all of them,
\* also when the call names no plan and the tickets of every plan are read.
OnePlanAnswered ==
    body.seats # {} =>
        \E p \in plans : {s.seat : s \in body.seats} =
                         {t.seat : t \in {u \in tickets : u.plan = p.id}}

-----------------------------------------------------------------------------
(* What the documents expect and the code does not do.                      *)

\* README.md, dates and seats of a concert: an answer tells what can be reserved
\* from what cannot, a date by its own tickets and a seat by its status.
AnswersAreAvailable ==
    /\ \A p \in plans :
          <<p.concert, p.id>> \in body.dates =>
              \E t \in tickets : t.plan = p.id /\ t.status = "available"
    /\ \A s \in body.seats :
          s.isReservable <=>
              \E t \in tickets : /\ t.plan = plan.id /\ t.seat = s.seat
                                 /\ t.status = "available"
=============================================================================
