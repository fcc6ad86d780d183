---------------------------- MODULE ConcertProofs ----------------------------
(***************************************************************************)
(* Which seats an answer of the concert queries names (Concert.tla), for    *)
(* every content of the tables and every request.  The answer of            *)
(* reservableSeats depends on the plan that an earlier query has wrapped:   *)
(* PlanInv relates that plan to the request and to the tables.              *)
(***************************************************************************)
EXTENDS Concert, TLAPS

\* A call behind its second query has the plan it asked for, or a model without
\* fields if there is none.
PlanInv == pc = "tickets" => plan \in PlanInfo(model.concertPlanId)

IndInv ==
    /\ TypeOK
    /\ PlanInv
    /\ OnePlanAnswered

USE DEF tables

\* Nothing is wrapped that is not a plan of the table or the empty model.
LEMMA PlanInfoMeaning ==
    ASSUME TypeOK, NEW key, NEW p \in PlanInfo(key)
    PROVE  \/ p \in plans /\ Matches(key, p.id)
           \/ p = NoPlan /\ \A q \in plans : ~ Matches(key, q.id)
  BY DEF PlanInfo

\* Before the call nothing is answered.
LEMMA InitInd == Init => IndInv
  <1> SUFFICES ASSUME Init PROVE IndInv
    OBVIOUS
  <1>1. body = NoAnswer /\ reply = 0 /\ pc = "idle" /\ plan = NoPlan /\ found = {}
    BY DEF Init
  <1>2. concerts \subseteq Concerts /\ plans \subseteq Plans /\ tickets \subseteq Tickets
        /\ model \in Models
    BY DEF Init
  <1>3. NoAnswer \in Answers
    BY DEF NoAnswer, Answers
  <1>4. TypeOK
    BY <1>1, <1>2, <1>3 DEF TypeOK
  <1> QED BY <1>1, <1>4 DEF IndInv, PlanInv, OnePlanAnswered, NoAnswer

-----------------------------------------------------------------------------
(* One lemma per kind of step.                                              *)

\* Queries whose result is kept for the next one.
LEMMA QueryInd ==
    ASSUME IndInv, Dates \/ Info \/ FindPlan
    PROVE  IndInv'
  <1>1. UNCHANGED <<tables, model, reply, body>>
    BY DEF Dates, Info, FindPlan
  <1>2. TypeOK'
    <2>1. found' \subseteq Tickets
      BY DEF IndInv, TypeOK, Dates, Info, FindPlan, TicketInfos
    <2>2. plan' \in Plans \cup {NoPlan}
      BY DEF IndInv, TypeOK, Dates, Info, FindPlan, PlanInfo
    <2>3. pc' \in {"read", "plan", "tickets"}
      BY DEF Dates, Info, FindPlan
    <2> QED BY <1>1, <2>1, <2>2, <2>3 DEF IndInv, TypeOK
  <1>3. PlanInv'
    <2>1. CASE FindPlan
      <3>1. plan' \in PlanInfo(model.concertPlanId)
        BY <2>1 DEF FindPlan
      <3>2. PlanInfo(model.concertPlanId)' = PlanInfo(model.concertPlanId)
        BY <1>1 DEF PlanInfo, Matches
      <3> QED BY <3>1, <3>2 DEF PlanInv
    <2>2. CASE Dates \/ Info
      BY <2>2 DEF Dates, Info, PlanInv
    <2> QED BY <2>1, <2>2
  <1> QED BY <1>1, <1>2, <1>3 DEF IndInv, OnePlanAnswered

\* An exception that is not the refusal of a missing ticket.
LEMMA ThrowInd ==
    ASSUME IndInv, DatesOfConcert \/ InfoThrows
    PROVE  IndInv'
  <1>1. /\ UNCHANGED <<tables, model, plan, found>>
        /\ pc' = "end" /\ reply' = 500 /\ body' = NoAnswer
    BY DEF DatesOfConcert, InfoThrows, Throw, End, Status
  <1>2. NoAnswer \in Answers
    BY DEF NoAnswer, Answers
  <1>3. TypeOK' /\ PlanInv'
    BY <1>1, <1>2 DEF IndInv, TypeOK, PlanInv
  <1> QED BY <1>1, <1>3 DEF IndInv, OnePlanAnswered, NoAnswer

\* An answer with dates names no seat.
LEMMA ReservableDatesInd == ASSUME IndInv, ReservableDates PROVE IndInv'
  <1> DEFINE D == UNION {DatesOf(c) : c \in Infos}
  <1>1. /\ UNCHANGED <<tables, model, plan, found>>
        /\ pc' = "end" /\ reply' = 200
        /\ body' = [dates |-> D, seats |-> {}]
    BY DEF ReservableDates, End, NoAnswer
  <1>2. D \subseteq Concerts \X Ids
    BY DEF IndInv, TypeOK, DatesOf, Infos, PlanInfos, Plans
  <1> HIDE DEF D
  <1>3. body' \in Answers
    BY <1>1, <1>2 DEF Answers
  <1> QED BY <1>1, <1>3 DEF IndInv, TypeOK, PlanInv, OnePlanAnswered

\* The seats of the plan that was wrapped, if it is one.
LEMMA ReservableSeatsInd == ASSUME IndInv, ReservableSeats PROVE IndInv'
  <1> DEFINE key == model.concertPlanId
  <1> DEFINE rows == TicketInfos(key)
  <1>1. UNCHANGED <<tables, model, plan>> /\ found' = rows /\ pc' = "end"
    BY DEF ReservableSeats, Throw, End
  <1>2. rows \subseteq Tickets /\ \A t \in tickets : t \in rows <=> Matches(key, t.plan)
    BY DEF IndInv, TypeOK, TicketInfos
  <1>3. plan \in PlanInfo(key)
    BY DEF IndInv, PlanInv, ReservableSeats
  <1> HIDE DEF key
  <1>4. CASE rows = {} /\ Throw("NotFoundException")
    <2>1. reply' = 404 /\ body' = NoAnswer
      BY <1>4 DEF Throw, End, Status
    <2>2. NoAnswer \in Answers
      BY DEF NoAnswer, Answers
    <2>3. TypeOK' /\ PlanInv'
      BY <1>1, <1>2, <2>1, <2>2 DEF IndInv, TypeOK, PlanInv
    <2> QED BY <2>1, <2>3 DEF IndInv, OnePlanAnswered, NoAnswer
  <1>5. CASE rows # {} /\ End(200, [NoAnswer EXCEPT !.seats = SeatsOf(rows)])
    <2>1. reply' = 200 /\ body' = [dates |-> {}, seats |-> SeatsOf(rows)]
      BY <1>5 DEF End, NoAnswer
    <2>2. ASSUME NEW s \in SeatsOf(rows)
          PROVE  s \in [seat : Seats, isReservable : BOOLEAN]
      <3>1. PICK t \in rows : s = SeatOf(t)
        BY <2>2 DEF SeatsOf
      <3>2. t.seat \in Seats
        BY <1>2 DEF Tickets
      <3> QED BY <3>1, <3>2 DEF SeatOf
    <2>3. TypeOK' /\ PlanInv'
      <3>1. body' \in Answers
        BY <2>1, <2>2 DEF Answers
      <3> QED BY <1>1, <1>2, <2>1, <3>1 DEF IndInv, TypeOK, PlanInv
    <2>4. OnePlanAnswered'
      <3> SUFFICES ASSUME SeatsOf(rows) # {}
                   PROVE  \E p \in plans : {s.seat : s \in SeatsOf(rows)} =
                                           {t.seat : t \in {u \in tickets : u.plan = p.id}}
        BY <1>1, <2>1 DEF OnePlanAnswered
      <3>1. PICK t \in rows : t.plan = plan.id
        BY DEF SeatsOf
      <3>2. plan # NoPlan
        <4>1. t.plan \in Ids
          BY <1>2 DEF Tickets
        <4> QED BY <3>1, <4>1, ConcertAssumption DEF NoPlan
      <3>3. plan \in plans /\ Matches(key, plan.id)
        BY <1>3, <3>2, PlanInfoMeaning DEF IndInv
      <3>4. {u \in rows : u.plan = plan.id} = {u \in tickets : u.plan = plan.id}
        BY <1>2, <3>3 DEF TicketInfos
      <3>5. \A u : SeatOf(u).seat = u.seat
        BY DEF SeatOf
      <3>6. {s.seat : s \in SeatsOf(rows)} = {u.seat : u \in {v \in rows : v.plan = plan.id}}
        BY <3>5 DEF SeatsOf
      <3> QED BY <3>3, <3>4, <3>6
    <2> QED BY <2>3, <2>4 DEF IndInv
  <1> QED BY <1>4, <1>5 DEF ReservableSeats, key

\* Every step, and the one that changes nothing.
LEMMA NextInd == ASSUME IndInv, [Next]_vars PROVE IndInv'
  <1>1. CASE UNCHANGED vars
    BY <1>1 DEF IndInv, TypeOK, PlanInv, PlanInfo, Matches, OnePlanAnswered,
       vars
  <1>2. CASE Next
    BY <1>2, QueryInd, ThrowInd, ReservableDatesInd, ReservableSeatsInd DEF Next
  <1> QED BY <1>1, <1>2

-----------------------------------------------------------------------------
(* The theorems.                                                            *)

\* IndInv is inductive: every query and every answer keeps it.
THEOREM Inductive == Spec => []IndInv
  <1>1. IndInv /\ [Next]_vars => IndInv'
    BY NextInd
  <1> QED BY <1>1, InitInd, PTL DEF Spec

\* TypeOK: in particular what planInfo wraps is a plan or a model without fields.
THEOREM TypeCorrect == Spec => []TypeOK
  BY Inductive, PTL DEF IndInv

\* OnePlanAnswered: a list of seats names all seats of one plan of the table and
\* no other, whether or not the call names the plan.
THEOREM SeatsOfOnePlan == Spec => []OnePlanAnswered
  BY Inductive, PTL DEF IndInv

=============================================================================
