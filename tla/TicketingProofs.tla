-------------------------- MODULE TicketingProofs ---------------------------
(***************************************************************************)
(* Proofs about the payment across the services (Ticketing.tla): no debit  *)
(* without a recorded payment, none past a refused event, no second        *)
(* delivery without a stop, and true answers, for any number of payments,  *)
(* users, amounts and stops.                                               *)
(***************************************************************************)
EXTENDS Ticketing, CountingTheorems, TLAPS

USE TicketingAssumption
USE DEF InTx, Active, Deliveries, Uses

\* Before any payment was asked for the invariant holds.
LEMMA InitInd == Init => IndInv
  <1> SUFFICES ASSUME Init PROVE IndInv
    OBVIOUS
  <1>1. TypeOK
    BY DEF Init, TypeOK, L!LedgerInit
  <1>2. EventInv /\ AnswerIsTrue /\ \A p \in Payments : PaymentInv(p)
    BY DEF Init, L!LedgerInit, EventInv, AnswerIsTrue, PaymentInv
  <1>3. PlaceInv /\ ConsumerInv /\ RefusalInv
    BY DEF Init, PlaceInv, ConsumerInv, RefusalInv, Position
  <1>4. DebitInv
    <2>1. \A u \in Uses : status[u] = "open" /\ job[u] = UseOf(u[1])
      BY DEF Init, L!LedgerInit
    <2>2. \A x : Debited(x) = {}
      BY <2>1 DEF Debited
    <2>3. \A x \in Users : balance[x] = InitBalance
      BY DEF Init, L!LedgerInit
    <2>4. paid = {} /\ IsFiniteSet({}) /\ Cardinality({}) = 0
      BY FS_EmptySet DEF Init
    <2>5. \A x \in Users : /\ IsFiniteSet(Debited(x))
                           /\ balance[x] = InitBalance - Cardinality(Debited(x))
      BY <2>2, <2>3, <2>4
    <2>6. \A u \in Uses : /\ job[u] = UseOf(u[1])
                          /\ status[u] = "applied" => job[u].amount \in Nat
      BY <2>1
    <2> QED BY <2>4, <2>5, <2>6 DEF DebitInv
  <1> QED BY <1>1, <1>2, <1>3, <1>4 DEF IndInv

\* Steps that apply no use leave the points taken as they are.
LEMMA DebitFrame ==
    ASSUME DebitInv, UNCHANGED <<order, balance, job>>, IsFiniteSet(paid'),
           \A u \in Uses : status'[u] = "applied" <=> status[u] = "applied"
    PROVE  DebitInv'
  <1>1. \A u \in Uses : UseOf(u[1])' = UseOf(u[1])
    BY DEF UseOf, Message, Field
  <1>2. \A x : Debited(x)' = Debited(x)
    BY DEF Debited
  <1> QED BY <1>1, <1>2 DEF DebitInv

\* Steps that leave the consumer and its topics alone.
LEMMA ReadingFrame ==
    ASSUME ConsumerInv, RefusalInv,
           UNCHANGED <<order, topic, written, offset, batch, size, done, rolling,
                       delivered, failQ, server, stops, status>>
    PROVE  ConsumerInv' /\ RefusalInv'
  BY DEF ConsumerInv, RefusalInv, Refused, Position

-----------------------------------------------------------------------------
(* One lemma per group of actions, one step per part of the invariant.      *)

\* Steps of a payment inside its transaction, and its answer.
LEMMA PaymentStepInd ==
    ASSUME IndInv, NEW p \in Payments,
           Pay(p) \/ Step(p) \/ StatementFails(p) \/ AcknowledgementLost(p)
    PROVE  IndInv'
  <1> USE DEF Pay, Step, SaveRecord, SaveOutBox, Commit, Emit, StatementFails,
          AcknowledgementLost, At, Goto
  <1>1. UNCHANGED <<order, consumer, process, ledger>>
    OBVIOUS
  <1>2. \A q \in Payments \ {p} : /\ pc'[q] = pc[q] /\ answer'[q] = answer[q]
                                  /\ q \in paid' <=> q \in paid
                                  /\ q \in unacked' <=> q \in unacked
                                  /\ q \in flight' <=> q \in flight
    BY DEF IndInv, TypeOK
  <1>3. TypeOK'
    BY <1>1 DEF IndInv, TypeOK, consumer, log, reading, fails, process, ledger
  <1>4. EventInv'
    BY <1>1 DEF IndInv, TypeOK, EventInv, PaymentInv, consumer, log, ledger
  <1>5. /\ PaymentInv(p)' /\ (answer'[p] = "ok" => p \in paid')
        /\ answer'[p] = "error" /\ p \in paid' => p \in unacked'
    BY DEF IndInv, TypeOK, PaymentInv, AnswerIsTrue
  <1>6. AnswerIsTrue' /\ \A q \in Payments : PaymentInv(q)'
    BY <1>2, <1>5 DEF IndInv, AnswerIsTrue, PaymentInv
  <1>7. PlaceInv' /\ ConsumerInv' /\ RefusalInv'
    BY <1>1, ReadingFrame DEF IndInv, PlaceInv, consumer, log, reading, fails, process,
       ledger
  <1>8. DebitInv'
    <2>1. paid' = paid \/ paid' = paid \cup {p}
      OBVIOUS
    <2>2. IsFiniteSet(paid')
      BY <2>1, FS_AddElement DEF IndInv, DebitInv
    <2> QED BY <1>1, <2>2, DebitFrame DEF IndInv, ledger
  <1> QED BY <1>3, <1>4, <1>6, <1>7, <1>8 DEF IndInv

\* An event reaches its topic, behind all the others, or never will.
LEMMA ProduceInd ==
    ASSUME IndInv, NEW p \in Payments, Produce(p) \/ SendFails(p)
    PROVE  IndInv'
  <1>1. UNCHANGED <<order, pc, answer, paid, unacked, offset, reading, delivered, fails,
                    process, ledger>>
    BY DEF Produce, SendFails, consumer
  <1>2. flight' = flight \ {p} /\ p \in paid /\ answer[p] = "ok"
    BY DEF IndInv, EventInv, Produce, SendFails
  <1>3. DebitInv'
    BY <1>1, DebitFrame DEF IndInv, DebitInv, ledger
  <1>4. AnswerIsTrue' /\ \A q \in Payments : PaymentInv(q)'
    BY <1>1 DEF IndInv, AnswerIsTrue, PaymentInv
  <1>5. CASE SendFails(p)
    <2>1. UNCHANGED log
      BY <1>5 DEF SendFails, consumer
    <2>2. TypeOK'
      BY <1>1, <1>2, <2>1 DEF IndInv, TypeOK, log, reading, fails, process, ledger
    <2>3. EventInv'
      BY <1>1, <1>2, <2>1 DEF IndInv, TypeOK, EventInv, log, ledger
    <2>4. ConsumerInv' /\ RefusalInv' /\ PlaceInv'
      BY <1>1, <2>1, ReadingFrame DEF IndInv, PlaceInv, log, reading, fails, process,
         ledger
    <2> QED BY <1>3, <1>4, <2>2, <2>3, <2>4 DEF IndInv
  <1>6. CASE Produce(p)
    <2>1. /\ topic' = [topic EXCEPT ![p] = written + 1]
          /\ written' = written + 1
          /\ topic[p] = 0 /\ delivered[p] = 0
      BY <1>6 DEF Produce, IndInv, TypeOK, EventInv
    <2>2. TypeOK'
      BY <1>1, <1>2, <2>1 DEF IndInv, TypeOK, reading, fails, process, ledger
    <2>3. EventInv'
      BY <1>1, <1>2, <2>1 DEF IndInv, TypeOK, EventInv, ledger
    <2>4. PlaceInv'
      BY <2>1 DEF IndInv, TypeOK, PlaceInv
    <2>5. Position' = Position /\ Position \in Nat /\ Position <= written
      BY <1>1 DEF IndInv, TypeOK, ConsumerInv, Position, reading
    <2>6. ConsumerInv'
      BY <1>1, <2>1, <2>5 DEF IndInv, TypeOK, ConsumerInv, reading, fails, process
    <2>7. RefusalInv'
      BY <1>1, <2>1, <2>5 DEF IndInv, TypeOK, RefusalInv, PlaceInv, Refused, process,
         ledger
    <2> QED BY <1>3, <1>4, <2>2, <2>3, <2>4, <2>6, <2>7 DEF IndInv
  <1> QED BY <1>5, <1>6

\* The consumer hands an event on.
LEMMA DeliverInd == ASSUME IndInv, NEW p \in Payments, Deliver(p) PROVE IndInv'
  <1>1. UNCHANGED <<payment, log, offset, batch, size, rolling, fails, process, ledger>>
    BY DEF Deliver
  <1>2. /\ ~ Refused(p) /\ server # "down" /\ batch = "success" /\ done < size
        /\ topic[p] = offset + done + 1 /\ done' = done + 1
        /\ delivered' = [delivered EXCEPT ![p] = delivered[p] + 1]
    BY DEF Deliver, IsNext, Position, IndInv, TypeOK
  <1>3. Position = offset + done /\ Position' = offset + done + 1
    BY <1>1, <1>2 DEF Position, IndInv, TypeOK
  <1>4. delivered[p] <= stops /\ delivered' \in [Payments -> 0 .. MaxStops + 1]
    BY <1>2, <1>3 DEF IndInv, TypeOK, ConsumerInv
  <1>5. TypeOK'
    BY <1>1, <1>2, <1>4 DEF IndInv, TypeOK, payment, log, fails, process, ledger
  <1>6. EventInv'
    BY <1>1, <1>2 DEF IndInv, TypeOK, EventInv, payment, log, ledger
  <1>7. PlaceInv' /\ AnswerIsTrue' /\ \A q \in Payments : PaymentInv(q)'
    BY <1>1 DEF IndInv, PlaceInv, AnswerIsTrue, PaymentInv, payment, log
  <1>8. ConsumerInv'
    BY <1>1, <1>2, <1>3, <1>4 DEF IndInv, TypeOK, ConsumerInv, log, fails, process
  <1>9. RefusalInv'
    <2> SUFFICES ASSUME NEW q \in Payments, Refused(q), topic[q] > offset
                 PROVE  /\ server # "doomed" => topic[q] > Position'
                        /\ \A u \in Uses :
                             u[2] <= delivered'[u[1]] /\ topic[q] <= topic[u[1]] =>
                               \/ status[u] = "closed"
                               \/ server = "doomed" /\ status[u] = "open"
      BY <1>1 DEF RefusalInv, Refused, payment, log, process, ledger
    <2>1. topic[q] # topic[p]
      BY <1>2 DEF IndInv, TypeOK, PlaceInv
    <2>2. server # "doomed" => topic[q] > Position'
      BY <1>2, <1>3, <2>1 DEF IndInv, TypeOK, RefusalInv
    <2>3. ASSUME NEW u \in Uses, u[2] <= delivered'[u[1]], topic[q] <= topic[u[1]]
          PROVE  status[u] = "closed" \/ (server = "doomed" /\ status[u] = "open")
      <3>1. CASE u[2] <= delivered[u[1]]
        BY <2>3, <3>1 DEF IndInv, RefusalInv
      <3>2. CASE ~ (u[2] <= delivered[u[1]])
        <4>1. u[1] = p /\ status[u] = "open"
          BY <1>2, <2>3, <3>2 DEF IndInv, TypeOK, EventInv
        <4>2. ~ (topic[q] > Position)
          BY <1>2, <1>3, <2>1, <2>3, <4>1 DEF IndInv, TypeOK
        <4> QED BY <4>1, <4>2 DEF IndInv, RefusalInv
      <3> QED BY <3>1, <3>2
    <2> QED BY <2>2, <2>3
  <1>10. DebitInv'
    BY <1>1, DebitFrame DEF IndInv, DebitInv, payment, ledger
  <1> QED BY <1>5, <1>6, <1>7, <1>8, <1>9, <1>10 DEF IndInv

\* The consumer hands a refused event on, which dooms the process.
LEMMA RefusedInd == ASSUME IndInv, NEW p \in Payments, DeliverRefused(p) PROVE IndInv'
  <1>1. UNCHANGED <<payment, log, offset, batch, size, rolling, delivered, fails, stops,
                    ledger>>
    BY DEF DeliverRefused
  <1>2. /\ batch = "success" /\ done < size /\ done' = done + 1
        /\ stops < MaxStops /\ server' = "doomed"
    BY DEF DeliverRefused, IsNext
  <1>3. Position = offset + done /\ Position' = offset + done + 1
    BY <1>1, <1>2 DEF Position, IndInv, TypeOK
  <1>4. TypeOK'
    BY <1>1, <1>2 DEF IndInv, TypeOK, payment, log, fails, ledger
  <1>5. EventInv' /\ PlaceInv' /\ AnswerIsTrue' /\ \A q \in Payments : PaymentInv(q)'
    BY <1>1 DEF IndInv, EventInv, PlaceInv, AnswerIsTrue, PaymentInv, payment, log,
       ledger
  <1>6. ConsumerInv'
    BY <1>1, <1>2, <1>3 DEF IndInv, TypeOK, ConsumerInv, log, fails
  <1>7. RefusalInv'
    BY <1>1, <1>2 DEF IndInv, TypeOK, RefusalInv, Refused, payment, log, ledger
  <1>8. DebitInv'
    BY <1>1, DebitFrame DEF IndInv, DebitInv, payment, ledger
  <1> QED BY <1>4, <1>5, <1>6, <1>7, <1>8 DEF IndInv

\* The consumer fetches a batch, commits it, or forgets it; a message of
\* payment.fail is handed on, sent or finished.
LEMMA BatchInd ==
    ASSUME IndInv,
           \/ \E t \in {"success", "fail"} : FetchSome(t)
           \/ CommitBatch \/ Rejoin
           \/ \E u \in Uses : Announce(u)
           \/ DeliverFail \/ RollBackGivesUp \/ RollBackReturns \/ FailUseAnnounces
    PROVE  IndInv'
  <1> USE DEF FetchSome, Fetch, CommitBatch, Rejoin, Drop, Announce, DeliverFail,
          RollBackGivesUp, RollBackReturns, FailUseAnnounces
  <1>1. UNCHANGED <<payment, log, delivered, server, ledger>>
    BY DEF process, fails, reading
  <1>2. TypeOK'
    <2>1. /\ batch' \in {"none", "success", "fail"} /\ rolling' \in {"no", "lookup", "delay"}
          /\ size' \in Nat /\ done' \in 0 .. size'
          /\ stops' \in 0 .. MaxStops
      BY DEF IndInv, TypeOK, ConsumerInv, process, fails, reading
    <2>2. announced' \subseteq Uses
      BY DEF IndInv, TypeOK, process, fails, reading
    <2>3. failQ' \in 0 .. MaxFails /\ failUses' \in 0 .. MaxFails
      BY DEF IndInv, TypeOK, ConsumerInv, process, fails, reading
    <2>4. offset' \in 0 .. written'
      BY <1>1 DEF IndInv, TypeOK, ConsumerInv, Position, process, fails, reading, log
    <2> QED BY <1>1, <2>1, <2>2, <2>3, <2>4 DEF IndInv, TypeOK, payment, log, ledger
  <1>3. EventInv' /\ PlaceInv' /\ AnswerIsTrue' /\ \A q \in Payments : PaymentInv(q)'
    BY <1>1 DEF IndInv, EventInv, PlaceInv, AnswerIsTrue, PaymentInv, payment, log,
       ledger
  <1>4. /\ offset' >= offset /\ Position' \in {Position, offset'} /\ stops' >= stops
        /\ Position' = Position \/ stops' = stops + 1
        /\ offset' = offset \/ (offset' = Position /\ Position' = offset')
    BY DEF IndInv, TypeOK, ConsumerInv, Position, process, fails, reading
  <1>5. ConsumerInv'
    <2>1. /\ batch' = "success" => offset' + size' <= written'
          /\ batch' = "fail" => size' <= failQ'
          /\ batch' = "none" => size' = 0 /\ done' = 0
          /\ rolling' # "no" => batch' = "fail" /\ done' < size'
      BY <1>1 DEF IndInv, TypeOK, ConsumerInv, process, fails, reading, log
    <2>2. server' = "doomed" => stops' < MaxStops
      BY <1>1 DEF IndInv, ConsumerInv, process, fails, reading
    <2>3. \A p \in Payments : topic[p] \in Nat /\ delivered[p] \in Nat
      BY DEF IndInv, TypeOK
    <2>4. ASSUME NEW p \in Payments
          PROVE  delivered[p] <= stops' + (IF topic[p] \in 1 .. Position' THEN 1 ELSE 0)
      <3>1. delivered[p] <= stops + (IF topic[p] \in 1 .. Position THEN 1 ELSE 0)
        BY DEF IndInv, ConsumerInv
      <3>2. stops \in Nat /\ stops' \in Nat
        BY <1>2 DEF IndInv, TypeOK
      <3> QED BY <1>4, <2>3, <3>1, <3>2
    <2> QED BY <1>1, <2>1, <2>2, <2>4 DEF ConsumerInv, log
  <1>6. RefusalInv'
    <2> SUFFICES ASSUME NEW q \in Payments, Refused(q), topic[q] > offset'
                 PROVE  /\ server # "doomed" => topic[q] > Position'
                        /\ \A u \in Uses :
                             u[2] <= delivered[u[1]] /\ topic[q] <= topic[u[1]] =>
                               \/ status[u] = "closed"
                               \/ server = "doomed" /\ status[u] = "open"
      BY <1>1 DEF RefusalInv, Refused, payment, log, ledger
    <2>1. topic[q] \in Nat /\ offset \in Nat /\ offset' \in Nat
      BY <1>2 DEF IndInv, TypeOK
    <2>2. topic[q] > offset
      BY <1>4, <2>1
    <2>3. RefusalInv
      BY DEF IndInv
    <2> QED BY <1>4, <2>2, <2>3 DEF RefusalInv
  <1>7. DebitInv'
    BY <1>1, DebitFrame DEF IndInv, DebitInv, payment, ledger
  <1> QED BY <1>2, <1>3, <1>5, <1>6, <1>7 DEF IndInv

\* A use takes as many points as its amount, and takes them for the first time.
LEMMA DebitCounted ==
    ASSUME TypeOK, DebitInv, NEW u \in Uses, L!Apply(u), UNCHANGED <<order, paid>>
    PROVE  DebitInv'
  <1> DEFINE a == job[u].amount
  <1> DEFINE x == job[u].user
  <1>1. /\ status[u] = "open" /\ status' = [status EXCEPT ![u] = "applied"]
        /\ x \in Users /\ a \in Nat /\ job' = job
        /\ balance' = [balance EXCEPT ![x] = balance[x] - a]
    <2>1. job[u] \in UseJobs
      BY DEF TypeOK
    <2>2. job[u].kind # "charge"
      BY <2>1 DEF UseJobs
    <2>3. L!After(u) = balance[x] - a
      BY <2>2 DEF L!After
    <2> QED BY <2>3 DEF L!Apply
  <1>2. status \in [Uses -> {"open", "applied", "closed"}] /\ balance \in [Users -> Int]
    BY DEF TypeOK
  <1> HIDE DEF a, x
  <1>3. \A v \in Uses : status'[v] = "applied" <=> status[v] = "applied" \/ v = u
    BY <1>1, <1>2
  <1>4. \A v \in Uses : /\ job'[v] = UseOf(v[1])'
                        /\ status'[v] = "applied" => job'[v].amount \in Nat
    BY <1>1, <1>3 DEF DebitInv, UseOf, Message, Field, a
  <1>5. ASSUME NEW y \in Users
        PROVE  IsFiniteSet(Debited(y)') /\ balance'[y] = InitBalance - Cardinality(Debited(y)')
    <2>1. IsFiniteSet(Debited(y)) /\ balance[y] = InitBalance - Cardinality(Debited(y))
      BY DEF DebitInv
    <2>2. CASE y # x
      <3>1. Debited(y)' = Debited(y)
        BY <1>1, <1>3, <2>2 DEF Debited, x
      <3> QED BY <1>1, <1>2, <2>1, <2>2, <3>1
    <2>3. CASE y = x
      <3>1. Debited(y)' = Debited(y) \cup ({u} \X (1 .. a))
        BY <1>1, <1>3, <2>3 DEF Debited, a, x
      <3>2. Debited(y) \cap ({u} \X (1 .. a)) = {}
        BY <1>1 DEF Debited
      <3>3. IsFiniteSet({u} \X (1 .. a)) /\ Cardinality({u} \X (1 .. a)) = a
        BY <1>1, TaggedPlaces
      <3>4. /\ IsFiniteSet(Debited(y)')
            /\ Cardinality(Debited(y)') = Cardinality(Debited(y)) + a
        BY <2>1, <3>1, <3>2, <3>3, DisjointUnion
      <3>5. balance'[y] = balance[y] - a /\ Cardinality(Debited(y)) \in Nat
        BY <1>1, <1>2, <2>1, <2>3, FS_CardinalityType
      <3> QED BY <1>1, <2>1, <3>4, <3>5
    <2> QED BY <2>2, <2>3
  <1>6. IsFiniteSet(paid')
    BY DEF DebitInv
  <1> QED BY <1>4, <1>5, <1>6 DEF DebitInv

\* A use commits its debit.
LEMMA DebitInd == ASSUME IndInv, NEW u \in Uses, Debit(u) PROVE IndInv'
  <1>1. UNCHANGED <<payment, consumer, process, job>>
    BY DEF Debit, L!Apply
  <1>2. /\ balance' = [balance EXCEPT ![job[u].user] = L!After(u)]
        /\ L!After(u) \in Int
        /\ status' = [status EXCEPT ![u] = "applied"]
        /\ u[2] <= delivered[u[1]] /\ status[u] = "open" /\ server = "up"
    BY DEF Debit, L!Apply, Running
  <1>3. TypeOK'
    BY <1>1, <1>2 DEF IndInv, TypeOK, payment, consumer, log, reading, fails, process
  <1>4. EventInv'
    BY <1>1, <1>2 DEF IndInv, TypeOK, EventInv, payment, consumer, log
  <1>5. PlaceInv' /\ AnswerIsTrue' /\ \A p \in Payments : PaymentInv(p)'
    BY <1>1 DEF IndInv, PlaceInv, AnswerIsTrue, PaymentInv, payment, consumer, log
  <1>6. Position' = Position /\ ConsumerInv'
    BY <1>1 DEF IndInv, ConsumerInv, Position, consumer, log, reading, fails, process
  <1>7. RefusalInv'
    BY <1>1, <1>2, <1>6 DEF IndInv, TypeOK, RefusalInv, Refused, payment, consumer, log,
       process
  <1>8. DebitInv'
    BY <1>1, DebitCounted DEF IndInv, Debit, payment
  <1> QED BY <1>3, <1>4, <1>5, <1>6, <1>7, <1>8 DEF IndInv

\* The process stops, doomed by a refused event or for another reason.
LEMMA StopInd == ASSUME IndInv, Die \/ Crash PROVE IndInv'
  <1>1. /\ UNCHANGED <<order, paid, unacked, log, offset, delivered, announced, failQ,
                       balance, job>>
        /\ server' = "down" /\ stops' = stops + 1 /\ stops < MaxStops
        /\ flight' = {} /\ failUses' = 0
        /\ batch' = "none" /\ size' = 0 /\ done' = 0 /\ rolling' = "no"
    BY DEF Die, Crash, Stop, Drop, L!Close, IndInv, ConsumerInv
  <1>2. \A u \in Uses : status'[u] = IF Running(u) THEN "closed" ELSE status[u]
    BY DEF Die, Crash, Stop, L!Close
  <1>3. status' \in [Uses -> {"open", "applied", "closed"}]
    BY DEF IndInv, TypeOK, Die, Crash, Stop, L!Close
  <1>4. \A p \in Payments : /\ pc'[p] = IF pc[p] \in Active THEN "end" ELSE pc[p]
                            /\ answer'[p] = IF pc[p] \in Active THEN "lost" ELSE answer[p]
    BY DEF Die, Crash, Stop
  <1>5. TypeOK'
    <2>1. /\ pc' \in [Payments -> Active \cup {"idle", "end"}]
          /\ answer' \in [Payments -> {"none", "ok", "error", "lost"}]
      BY DEF IndInv, TypeOK, Die, Crash, Stop
    <2>2. stops' \in 0 .. MaxStops /\ failUses' \in 0 .. MaxFails
      BY <1>1 DEF IndInv, TypeOK
    <2> QED BY <1>1, <1>3, <2>1, <2>2 DEF IndInv, TypeOK, log
  <1>6. AnswerIsTrue' /\ \A p \in Payments : PaymentInv(p)'
    BY <1>1, <1>4 DEF IndInv, TypeOK, AnswerIsTrue, PaymentInv
  <1>7. EventInv'
    <2>1. \A p \in Payments : answer[p] = "ok" => answer'[p] = "ok"
      BY <1>4 DEF IndInv, PaymentInv
    <2> QED BY <1>1, <1>2, <2>1 DEF IndInv, EventInv, Running, log
  <1>8. Position' = offset /\ offset' = offset
    BY <1>1 DEF Position
  <1>9. ConsumerInv'
    BY <1>1, <1>8 DEF IndInv, TypeOK, ConsumerInv, Position, log
  <1>10. RefusalInv'
    BY <1>1, <1>2, <1>8 DEF IndInv, TypeOK, RefusalInv, Refused, Running, log
  <1>11. PlaceInv'
    BY <1>1 DEF IndInv, PlaceInv, log
  <1>12. DebitInv'
    <2>1. \A u \in Uses : status'[u] = "applied" <=> status[u] = "applied"
      BY <1>2 DEF Running
    <2> QED BY <1>1, <2>1, DebitFrame DEF IndInv, DebitInv
  <1> QED BY <1>5, <1>6, <1>7, <1>9, <1>10, <1>11, <1>12 DEF IndInv

\* A restart starts nothing by itself.
LEMMA RestartInd == ASSUME IndInv, Restart PROVE IndInv'
  <1>1. /\ UNCHANGED <<payment, consumer, stops, ledger>>
        /\ server = "down" /\ server' = "up"
    BY DEF Restart
  <1>2. DebitInv'
    BY <1>1, DebitFrame DEF IndInv, DebitInv, payment, ledger
  <1>3. Position' = Position /\ TypeOK'
    BY <1>1 DEF IndInv, TypeOK, Position, payment, consumer, log, reading, fails, ledger
  <1>4. ConsumerInv' /\ RefusalInv'
    BY <1>1, <1>3 DEF IndInv, ConsumerInv, RefusalInv, Refused, payment, consumer, log,
       reading, fails, ledger
  <1>5. EventInv' /\ PlaceInv' /\ AnswerIsTrue' /\ \A p \in Payments : PaymentInv(p)'
    BY <1>1 DEF IndInv, EventInv, PlaceInv, AnswerIsTrue, PaymentInv, payment, consumer,
       log, ledger
  <1> QED BY <1>2, <1>3, <1>4, <1>5 DEF IndInv

\* The invariant is kept by every step.
LEMMA NextInd == ASSUME IndInv, [Next]_vars PROVE IndInv'
  <1>1. CASE UNCHANGED vars
    <2>1. UNCHANGED <<payment, consumer, process, ledger>>
      BY <1>1 DEF vars
    <2>2. DebitInv'
      BY <2>1, DebitFrame DEF IndInv, DebitInv, payment, ledger
    <2>3. ConsumerInv' /\ RefusalInv'
      BY <2>1, ReadingFrame DEF IndInv, payment, consumer, log, reading, fails, process,
         ledger
    <2> QED BY <2>1, <2>2, <2>3 DEF IndInv, TypeOK, EventInv, PaymentInv, PlaceInv,
            AnswerIsTrue, payment, consumer, log, reading, fails, process, ledger
  <1>2. CASE Next
    BY <1>2, PaymentStepInd, ProduceInd, DeliverInd, RefusedInd, BatchInd, DebitInd,
       StopInd, RestartInd DEF Next
  <1> QED BY <1>1, <1>2

-----------------------------------------------------------------------------
(* The theorems.                                                            *)

\* Finitely many payments are worth finitely many points.
LEMMA PointsAreFinite ==
    ASSUME NEW S, IsFiniteSet(S), NEW x PROVE IsFiniteSet(PointsOf(S, x))
  <1> DEFINE T == {q \in S : order[q].userId = x /\ order[q].amount \in Nat}
  <1> DEFINE W == {{p} \X (1 .. order[p].amount) : p \in T}
  <1>1. IsFiniteSet(T)
    BY FS_Subset
  <1>2. IsFiniteSet(W)
    <2>1. [p \in T |-> {p} \X (1 .. order[p].amount)] \in Surjection(T, W)
      BY DEF Surjection
    <2> QED BY <1>1, <2>1, FS_Surjection
  <1>3. ASSUME NEW B \in W PROVE IsFiniteSet(B)
    <2>1. PICK p \in T : B = {p} \X (1 .. order[p].amount)
      OBVIOUS
    <2>2. order[p].amount \in Nat
      BY <2>1
    <2> QED BY <2>1, <2>2, TaggedPlaces
  <1>4. IsFiniteSet(UNION W)
    <2> HIDE DEF W
    <2> QED BY <1>2, <1>3, FS_UNION
  <1> QED BY <1>4 DEF PointsOf

\* IndInv is inductive: every step of a payment, of its event, of the consumer,
\* of a handler and every stop keeps it.
THEOREM Inductive == Spec => []IndInv
  <1>1. IndInv /\ [Next]_vars => IndInv'
    BY NextInd
  <1> QED BY <1>1, InitInd, PTL DEF Spec

\* TypeOK: in particular no event is delivered more often than its deliveries.
THEOREM TypeCorrect == Spec => []TypeOK
  BY Inductive, PTL DEF IndInv

\* DebitsArePaid: PaymentUsecase.save emits behind its acknowledged commit, so every
\* debit that AccountService commits for an event belongs to a recorded payment
\* whose caller was not answered with an error.
THEOREM NoUnpaidDebit == Spec => []DebitsArePaid
  <1>1. ASSUME IndInv PROVE DebitsArePaid
    <2> SUFFICES ASSUME NEW u \in Uses, status[u] = "applied"
                 PROVE  u[1] \in paid /\ answer[u[1]] # "error"
      BY DEF DebitsArePaid
    <2>1. u[1] \in Payments /\ u[2] \in Nat /\ u[2] > 0 /\ u[2] <= delivered[u[1]]
      BY <1>1 DEF IndInv, EventInv
    <2>2. delivered[u[1]] > 0
      BY <1>1, <2>1 DEF IndInv, TypeOK
    <2> QED BY <1>1, <2>1, <2>2 DEF IndInv, EventInv
  <1> QED BY <1>1, Inductive, PTL

\* RedeliveredAfterStop: while neither the process nor its consumer stops, each
\* event is handed to the handlers of payment.success at most once.
THEOREM DeliveriesCountStops == Spec => []RedeliveredAfterStop
  <1>1. IndInv => RedeliveredAfterStop
    BY DEF IndInv, TypeOK, ConsumerInv, RedeliveredAfterStop
  <1> QED BY <1>1, Inductive, PTL

\* NoDebitPastRefused: while the offset of a refused event is not committed, no
\* event behind it is debited: in the process that is doomed by the refused event
\* no use gets to its commit, and every other one reads the refused event first.
THEOREM RefusedEventBlocks == Spec => []NoDebitPastRefused
  <1>1. ASSUME IndInv PROVE NoDebitPastRefused
    <2> SUFFICES ASSUME NEW u \in Uses, NEW q \in Payments, status[u] = "applied",
                        Refused(q), topic[q] \in 1 .. topic[u[1]], topic[q] > offset
                 PROVE  FALSE
      BY <1>1 DEF NoDebitPastRefused, IndInv, TypeOK
    <2>1. u[2] <= delivered[u[1]]
      BY <1>1 DEF IndInv, EventInv
    <2> QED BY <1>1, <2>1 DEF IndInv, RefusalInv
  <1> QED BY <1>1, Inductive, PTL

\* AnswerIsTrue: POST /payments answers success only for a recorded payment, and
\* an error for a recorded one only if the acknowledgement of its COMMIT was lost.
THEOREM AnswersAreTrue == Spec => []AnswerIsTrue
  BY Inductive, PTL DEF IndInv

\* DebitIsBounded: without a stop an account loses at most what its recorded
\* payments are worth, and with each stop at most as much again, because every
\* point taken is a point of a recorded payment and of one of its deliveries.
THEOREM DebitsAreBounded == Spec => []DebitIsBounded
  <1>1. ASSUME IndInv PROVE DebitIsBounded
    <2> SUFFICES ASSUME NEW x \in Users
                 PROVE  InitBalance - balance[x]
                          <= (1 + stops) * Cardinality(PointsOf(paid, x))
      BY DEF DebitIsBounded
    <2> DEFINE P == PointsOf(paid, x)
    <2> DEFINE D == 1 .. (1 + stops)
    <2>1. IsFiniteSet(P)
      BY <1>1, PointsAreFinite DEF IndInv, DebitInv
    <2>2. stops \in Nat /\ IsFiniteSet(D) /\ Cardinality(D) = 1 + stops
      <3>1. stops \in Nat
        BY <1>1 DEF IndInv, TypeOK
      <3> QED BY <3>1, FS_Interval
    <2>3. IsFiniteSet(P \X D) /\ Cardinality(P \X D) = Cardinality(P) * Cardinality(D)
      BY <2>1, <2>2, FS_Product
    <2>4. Cardinality(Debited(x)) <= Cardinality(P \X D)
      <3> DEFINE f == [e \in Debited(x) |-> <<<<e[1][1], e[2]>>, e[1][2]>>]
      <3>1. ASSUME NEW e \in Debited(x)
            PROVE  /\ e = <<<<e[1][1], e[1][2]>>, e[2]>>
                   /\ <<e[1][1], e[2]>> \in P /\ e[1][2] \in D
        <4>1. PICK u \in Uses : /\ status[u] = "applied" /\ job[u].user = x
                                /\ e \in {u} \X (1 .. job[u].amount)
          BY DEF Debited
        <4>2. e = <<u, e[2]>> /\ u = <<u[1], u[2]>> /\ u[1] \in Payments
          BY <4>1
        <4>3. /\ job[u].amount = order[u[1]].amount /\ job[u].user = order[u[1]].userId
              /\ job[u].amount \in Nat
          <5>1. job[u] = UseOf(u[1]) /\ job[u].amount \in Nat
            BY <1>1, <4>1 DEF IndInv, DebitInv
          <5> QED BY <5>1 DEF UseOf, Message, Field
        <4>4. u[1] \in paid /\ u[2] \in D
          <5>1. u[2] \in Nat /\ u[2] > 0 /\ u[2] <= delivered[u[1]]
            BY <1>1, <4>1 DEF IndInv, EventInv
          <5>2. delivered[u[1]] \in Nat /\ delivered[u[1]] <= 1 + stops
            <6>1. \A p \in Payments : delivered[p] \in Nat /\ delivered[p] <= 1 + stops
              BY <1>1, <2>2 DEF IndInv, TypeOK, ConsumerInv
            <6> QED BY <4>2, <6>1
          <5>3. topic[u[1]] > 0
            <6>1. delivered[u[1]] > 0
              BY <5>1, <5>2
            <6> QED BY <1>1, <4>2, <6>1 DEF IndInv, EventInv
          <5>4. u[1] \in paid
            BY <1>1, <4>2, <5>3 DEF IndInv, EventInv
          <5> QED BY <2>2, <5>1, <5>2, <5>4
        <4> QED BY <4>1, <4>2, <4>3, <4>4 DEF PointsOf
      <3>2. f \in Injection(Debited(x), P \X D)
        <4>1. f \in [Debited(x) -> P \X D]
          BY <3>1
        <4>2. ASSUME NEW d \in Debited(x), NEW e \in Debited(x), f[d] = f[e]
              PROVE  d = e
          <5>1. /\ <<d[1][1], d[2]>> = <<e[1][1], e[2]>> /\ d[1][2] = e[1][2]
            BY <4>2
          <5>2. d[1][1] = e[1][1] /\ d[2] = e[2]
            BY <5>1
          <5> QED BY <3>1, <5>1, <5>2
        <4> QED BY <4>1, <4>2 DEF Injection, IsInjective
      <3> QED BY <2>3, <3>2, FS_Injection
    <2>5. balance[x] = InitBalance - Cardinality(Debited(x)) /\ IsFiniteSet(Debited(x))
      BY <1>1 DEF IndInv, DebitInv
    <2>6. Cardinality(Debited(x)) \in Nat /\ Cardinality(P) \in Nat
      BY <2>1, <2>5, FS_CardinalityType
    <2> HIDE DEF P, D
    <2>7. Cardinality(Debited(x)) <= Cardinality(P) * (1 + stops)
      BY <2>2, <2>3, <2>4
    <2>8. Cardinality(P) * (1 + stops) = (1 + stops) * Cardinality(P)
      BY <2>2, <2>6
    <2> QED BY <2>5, <2>6, <2>7, <2>8 DEF P
  <1> QED BY <1>1, Inductive, PTL
=============================================================================
