------------------------- MODULE ReservationProofs --------------------------
(***************************************************************************)
(* The safety properties of Reservation.tla for every value of its          *)
(* constants.  IndInv is shown to be inductive: it ties the lock of a row   *)
(* to the transaction that has updated it (LockInv), the uncommitted writes *)
(* of a call to the await it has reached (TxInv), and what is committed and *)
(* answered to the calls that ended (DoneInv).                              *)
(***************************************************************************)
EXTENDS Reservation, TLAPS

\* A row is locked by the one transaction that has updated it, if any.
LockInv ==
    /\ \A s \in Seats, r \in Requests :
          rowLock[s] = r <=> tx[r].updated /\ job[r].seat = s
    /\ \A r \in Requests : tx[r].updated => job[r].seat \in Seats

\* What a transaction has written when it has reached an await.
TxInv(r) ==
    /\ tx[r].updated => pc[r] \in {"inbox", "commit"}
    /\ tx[r].inbox => tx[r].updated /\ job[r].kind = "book"
    /\ tx[r].updated => job[r].kind # "rollback"
    /\ tx[r].updated /\ job[r].kind = "book" => tx[r].outbox
    /\ job[r].kind = "book" /\ pc[r] \in {"find", "update"} => tx[r].outbox
    /\ pc[r] = "inbox" => tx[r].updated /\ job[r].kind = "book"
    /\ pc[r] = "commit" /\ job[r].kind = "reserve" =>
          tx[r].updated \/ job[r].seat = None
    /\ pc[r] \in {"begin", "find", "update", "outbox", "commit"} =>
          job[r].kind \in {"reserve", "book"}
    /\ pc[r] \in {"idle", "lookup"} => tx[r].retry < MAX_RETRIES
    /\ tx[r].retry > 0 => job[r].kind = "rollback"
    /\ pc[r] = "lookup" => job[r].kind = "rollback"

\* What a call has committed and answered when it has reached an await.
DoneInv(r) ==
    /\ r \in taken \cup booked => pc[r] \in {"reply", "end"}
    /\ r \in taken => job[r].kind = "reserve"
    /\ pc[r] = "reply" /\ job[r].kind = "reserve" => r \in taken \/ job[r].seat = None
    /\ pc[r] = "reply" => job[r].kind \in {"reserve", "book"}
    /\ reply[r] # "none" => pc[r] = "end"

\* A reserve whose find returned no row came behind another call.
ItemInv ==
    \A r \in Requests :
        item[r] = "empty" /\ job[r].seat \in Seats
            => For(job[r].seat, taken \cup booked) \ {r} # {}

IndInv ==
    /\ TypeOK
    /\ LockInv
    /\ \A r \in Requests : TxInv(r)
    /\ \A r \in Requests : DoneInv(r)
    /\ BoxesAtomic
    /\ RowExplained
    /\ AnswerIsTrue
    /\ ItemInv

\* The awaits of a request are compared, and the rows kept, everywhere.
USE DEF Active, Goto, MAX_RETRIES, durable, tables

\* Before any call was received the invariant holds.
LEMMA InitInd == Init => IndInv
  <1> SUFFICES ASSUME Init PROVE IndInv
    OBVIOUS
  <1>1. TypeOK
    BY DEF Init, TypeOK, NoTx
  <1>2. LockInv
    BY ReservationAssumption DEF Init, LockInv, NoTx
  <1>3. \A r \in Requests : TxInv(r) /\ DoneInv(r)
    <2> SUFFICES ASSUME NEW r \in Requests PROVE TxInv(r) /\ DoneInv(r)
      OBVIOUS
    <2>1. pc[r] = "idle" /\ tx[r] = NoTx /\ reply[r] = "none" /\ r \notin taken \cup booked
      BY DEF Init
    <2> QED BY <2>1 DEF TxInv, DoneInv, NoTx
  <1>4. BoxesAtomic /\ RowExplained /\ AnswerIsTrue /\ ItemInv
    BY DEF Init, BoxesAtomic, RowExplained, AnswerIsTrue, ItemInv, For
  <1> QED BY <1>1, <1>2, <1>3, <1>4 DEF IndInv

-----------------------------------------------------------------------------
(* Frame lemmas.                                                            *)

\* A step of request r alone that commits nothing.
MovesOne(r) ==
    /\ UNCHANGED <<tables, job>>
    /\ unacked \subseteq unacked'
    /\ \A q \in Requests \ {r} :
          /\ pc'[q] = pc[q] /\ tx'[q] = tx[q]
          /\ reply'[q] = reply[q] /\ item'[q] = item[q]

\* For such a step only the request that moves needs to be looked at.
LEMMA MovesOneInd ==
    ASSUME IndInv, NEW r \in Requests, MovesOne(r),
           TypeOK', LockInv', TxInv(r)', DoneInv(r)',
           reply'[r] = "error" /\ r \in taken => r \in unacked',
           reply'[r] = "ok" => r \in taken \/ job[r].seat = None,
           item'[r] = "empty" /\ job[r].seat \in Seats
               => For(job[r].seat, taken \cup booked) \ {r} # {}
    PROVE  IndInv'
  <1>1. ASSUME NEW q \in Requests PROVE TxInv(q)' /\ DoneInv(q)'
    <2>1. CASE q = r
      BY <2>1
    <2>2. CASE q # r
      <3>1. TxInv(q) /\ DoneInv(q)
        BY DEF IndInv
      <3>2. /\ pc'[q] = pc[q] /\ tx'[q] = tx[q] /\ reply'[q] = reply[q]
            /\ job' = job /\ taken' = taken /\ booked' = booked
        BY <2>2 DEF MovesOne
      <3> QED BY <3>1, <3>2 DEF TxInv, DoneInv
    <2> QED BY <2>1, <2>2
  <1>2. BoxesAtomic' /\ RowExplained'
    BY DEF IndInv, MovesOne, BoxesAtomic, RowExplained, For
  <1>3. AnswerIsTrue'
    <2>1. \A q \in Requests \ {r} : reply'[q] = reply[q]
      BY DEF MovesOne
    <2>2. taken' = taken /\ job' = job /\ unacked \subseteq unacked'
      BY DEF MovesOne
    <2> QED BY <2>1, <2>2 DEF IndInv, AnswerIsTrue
  <1>4. ItemInv'
    <2>1. \A q \in Requests \ {r} : item'[q] = item[q]
      BY DEF MovesOne
    <2>2. taken' = taken /\ booked' = booked /\ job' = job
      BY DEF MovesOne
    <2> QED BY <2>1, <2>2 DEF IndInv, ItemInv, For
  <1> QED BY <1>1, <1>2, <1>3, <1>4 DEF IndInv

\* The death of the process rolls back what is open and touches nothing durable.
LEMMA DieInd ==
    ASSUME IndInv, Die, UNCHANGED <<tables, failed, job, item>>,
           unacked \subseteq unacked', unacked' \subseteq Requests
    PROVE  IndInv'
  <1>1. TypeOK'
    <2>1. /\ pc' \in [Requests -> Active \cup {"idle", "end"}]
          /\ reply' \in [Requests -> {"none", "ok", "error", "lost"}]
      BY DEF IndInv, TypeOK, Die
    <2>2. tx' \in [Requests -> [outbox : BOOLEAN, updated : BOOLEAN, inbox : BOOLEAN,
                                retry : 0 .. MAX_RETRIES]]
      BY DEF Die, NoTx
    <2>3. rowLock' \in [Seats -> Requests \cup {None}] /\ up' \in BOOLEAN
      BY DEF Die
    <2> QED BY <2>1, <2>2, <2>3 DEF IndInv, TypeOK
  <1>2. LockInv'
    BY ReservationAssumption DEF IndInv, TypeOK, LockInv, Die, NoTx
  <1>3. ASSUME NEW q \in Requests PROVE TxInv(q)' /\ DoneInv(q)'
    BY DEF IndInv, TypeOK, TxInv, DoneInv, Die, NoTx
  <1>4. BoxesAtomic' /\ RowExplained' /\ ItemInv'
    BY DEF IndInv, BoxesAtomic, RowExplained, ItemInv, For
  <1>5. AnswerIsTrue'
    BY DEF IndInv, TypeOK, AnswerIsTrue, Die
  <1> QED BY <1>1, <1>2, <1>3, <1>4, <1>5 DEF IndInv

\* The frame of the steps that keep the locks, the answers and the items.
LEMMA PlainInd ==
    ASSUME IndInv, NEW r \in Requests, MovesOne(r),
           UNCHANGED <<unacked, rowLock, reply, item>>,
           TypeOK', tx'[r].updated = tx[r].updated, TxInv(r)', DoneInv(r)'
    PROVE  IndInv'
  <1>1. LockInv'
    <2>1. \A q \in Requests : tx'[q].updated = tx[q].updated
      BY DEF MovesOne
    <2> QED BY <2>1 DEF IndInv, LockInv, MovesOne
  <1>2. /\ reply'[r] = "error" /\ r \in taken => r \in unacked'
        /\ reply'[r] = "ok" => r \in taken \/ job[r].seat = None
    BY DEF IndInv, AnswerIsTrue
  <1>3. item'[r] = "empty" /\ job[r].seat \in Seats
            => For(job[r].seat, taken \cup booked) \ {r} # {}
    BY DEF IndInv, ItemInv
  <1> QED BY <1>1, <1>2, <1>3, MovesOneInd

-----------------------------------------------------------------------------
(* One lemma per action.                                                    *)

LEMMA ReceiveInd == ASSUME IndInv, NEW r \in Requests, Receive(r) PROVE IndInv'
  <1>1. TypeOK'
    BY DEF IndInv, TypeOK, Receive
  <1>2. TxInv(r)' /\ DoneInv(r)'
    BY DEF IndInv, TypeOK, Jobs, TxInv, DoneInv, Receive
  <1>3. MovesOne(r) /\ tx'[r].updated = tx[r].updated
    BY DEF IndInv, TypeOK, MovesOne, Receive
  <1> QED BY <1>1, <1>2, <1>3, PlainInd DEF Receive

LEMMA BeginInd == ASSUME IndInv, NEW r \in Requests, Begin(r) PROVE IndInv'
  <1>1. TypeOK'
    BY DEF IndInv, TypeOK, Begin
  <1>2. TxInv(r)' /\ DoneInv(r)'
    BY DEF IndInv, TypeOK, Jobs, TxInv, DoneInv, Begin
  <1>3. MovesOne(r) /\ tx'[r].updated = tx[r].updated
    BY DEF IndInv, TypeOK, MovesOne, Begin
  <1> QED BY <1>1, <1>2, <1>3, PlainInd DEF Begin

LEMMA SaveOutBoxInd == ASSUME IndInv, NEW r \in Requests, SaveOutBox(r) PROVE IndInv'
  <1>1. TypeOK'
    BY DEF IndInv, TypeOK, SaveOutBox
  <1>2. TxInv(r)' /\ DoneInv(r)'
    BY DEF IndInv, TypeOK, Jobs, TxInv, DoneInv, SaveOutBox
  <1>3. MovesOne(r) /\ tx'[r].updated = tx[r].updated
    BY DEF IndInv, TypeOK, MovesOne, SaveOutBox
  <1> QED BY <1>1, <1>2, <1>3, PlainInd DEF SaveOutBox

LEMMA SaveInBoxInd == ASSUME IndInv, NEW r \in Requests, SaveInBox(r) PROVE IndInv'
  <1>1. TypeOK'
    BY DEF IndInv, TypeOK, SaveInBox
  <1>2. TxInv(r)' /\ DoneInv(r)'
    BY DEF IndInv, TypeOK, Jobs, TxInv, DoneInv, SaveInBox
  <1>3. MovesOne(r) /\ tx'[r].updated = tx[r].updated
    BY DEF IndInv, TypeOK, MovesOne, SaveInBox
  <1> QED BY <1>1, <1>2, <1>3, PlainInd DEF SaveInBox

LEMMA SwallowInd ==
    ASSUME IndInv, NEW r \in Requests, Swallow(r), job[r].kind = "book",
           pc[r] \in {"outbox", "find", "update", "inbox"}
    PROVE  IndInv'
  <1>1. TypeOK'
    BY DEF IndInv, TypeOK, Swallow
  <1>2. TxInv(r)' /\ DoneInv(r)'
    BY DEF IndInv, TypeOK, TxInv, DoneInv, Swallow
  <1>3. MovesOne(r) /\ tx'[r].updated = tx[r].updated
    BY DEF IndInv, TypeOK, MovesOne, Swallow
  <1> QED BY <1>1, <1>2, <1>3, PlainInd DEF Swallow

LEMMA LookupFailsInd ==
    ASSUME IndInv, NEW r \in Requests, LookupFails(r) PROVE IndInv'
  <1>1. tx[r].retry \in 0 .. 2 /\ pc[r] = "lookup"
    BY DEF IndInv, TypeOK, TxInv, LookupFails
  <1>2. TypeOK'
    <2>1. tx' \in [Requests -> [outbox : BOOLEAN, updated : BOOLEAN, inbox : BOOLEAN,
                                retry : 0 .. MAX_RETRIES]]
      <3>1. tx[r].retry + 1 \in 0 .. MAX_RETRIES
        BY <1>1
      <3> QED BY <3>1 DEF IndInv, TypeOK, LookupFails
    <2>2. pc' \in [Requests -> Active \cup {"idle", "end"}] /\ failed' \subseteq Requests
      BY DEF IndInv, TypeOK, LookupFails
    <2> QED BY <2>1, <2>2 DEF IndInv, TypeOK, LookupFails
  <1>3. TxInv(r)' /\ DoneInv(r)'
    BY <1>1 DEF IndInv, TypeOK, TxInv, DoneInv, LookupFails
  <1>4. MovesOne(r) /\ tx'[r].updated = tx[r].updated
    BY DEF IndInv, TypeOK, MovesOne, LookupFails
  <1> QED BY <1>2, <1>3, <1>4, PlainInd DEF LookupFails

\* A reserve that finds no row: the row of its seat is not available any more.
LEMMA FindInd == ASSUME IndInv, NEW r \in Requests, Find(r) PROVE IndInv'
  <1>1. item' \in [Requests -> Items \cup {"none"}]
    BY DEF IndInv, TypeOK, Find, Found, Items
  <1>2. TypeOK'
    BY <1>1 DEF IndInv, TypeOK, Find
  <1>3. TxInv(r)' /\ DoneInv(r)'
    BY DEF IndInv, TypeOK, TxInv, DoneInv, Find
  <1>4. MovesOne(r) /\ tx' = tx
    BY DEF IndInv, TypeOK, MovesOne, Find
  <1>5. LockInv'
    BY <1>4 DEF IndInv, LockInv, MovesOne, Find
  <1>6. /\ reply'[r] = "error" /\ r \in taken => r \in unacked'
        /\ reply'[r] = "ok" => r \in taken \/ job[r].seat = None
    BY DEF IndInv, AnswerIsTrue, Find
  <1>7. ASSUME item'[r] = "empty", job[r].seat \in Seats
        PROVE  For(job[r].seat, taken \cup booked) \ {r} # {}
    <2>1. CASE job[r].kind = "book"
      <3>1. item'[r] = item[r]
        BY <2>1 DEF Find
      <3> QED BY <3>1, <1>7 DEF IndInv, ItemInv
    <2>2. CASE job[r].kind = "reserve"
      <3>1. "empty" \in Found(r)
        BY <2>2, <1>7 DEF Find, IndInv, TypeOK
      <3>2. job[r].seat # None
        BY <1>7, ReservationAssumption
      <3>3. row[job[r].seat].status # "available"
        BY <3>1, <3>2, <1>7 DEF Found
      <3>4. For(job[r].seat, taken \cup booked) # {}
        BY <3>3, <1>7 DEF IndInv, RowExplained
      <3>5. r \notin taken \cup booked
        BY DEF IndInv, DoneInv, Find
      <3> QED BY <3>4, <3>5 DEF For
    <2> QED BY <2>1, <2>2 DEF Find
  <1> QED BY <1>2, <1>3, <1>4, <1>5, <1>6, <1>7, MovesOneInd

\* The row is free, so the request becomes the only one that holds it.
LEMMA UpdateInd == ASSUME IndInv, NEW r \in Requests, Update(r) PROVE IndInv'
  <1>1. job[r] \in Jobs /\ job[r].kind \in {"reserve", "book"} /\ pc[r] = "update"
    BY DEF IndInv, TypeOK, TxInv, Update
  <1>2. TypeOK'
    BY <1>1 DEF IndInv, TypeOK, Update
  <1>3. TxInv(r)'
    <2>1. CASE job[r].seat \in Seats
      BY <1>1, <2>1 DEF IndInv, TypeOK, TxInv, Update
    <2>2. CASE job[r].seat \notin Seats
      BY <1>1, <2>2 DEF IndInv, TypeOK, TxInv, Update, Jobs
    <2> QED BY <2>1, <2>2
  <1>4. DoneInv(r)'
    BY <1>1 DEF IndInv, TypeOK, DoneInv, Update
  <1>5. MovesOne(r)
    BY DEF IndInv, TypeOK, MovesOne, Update
  <1>6. LockInv'
    <2>1. CASE job[r].seat \in Seats
      <3>1. /\ rowLock[job[r].seat] = None
            /\ rowLock' = [rowLock EXCEPT ![job[r].seat] = r]
            /\ tx'[r].updated /\ job' = job
            /\ \A q \in Requests \ {r} : tx'[q] = tx[q]
        BY <2>1 DEF IndInv, TypeOK, Update
      <3>2. ~ tx[r].updated
        BY <1>1 DEF IndInv, TxInv
      <3>3. \A s \in Seats, q \in Requests :
               rowLock'[s] = q <=> rowLock[s] = q \/ (q = r /\ s = job[r].seat)
        BY <3>1, ReservationAssumption DEF IndInv, TypeOK
      <3>4. \A q \in Requests :
               tx'[q].updated <=> tx[q].updated \/ q = r
        BY <3>1
      <3>5. \A q \in Requests : tx'[q].updated => job'[q].seat \in Seats
        BY <2>1, <3>1, <3>4 DEF IndInv, LockInv
      <3>6. \A s \in Seats, q \in Requests :
               rowLock'[s] = q <=> tx'[q].updated /\ job'[q].seat = s
        BY <3>1, <3>2, <3>3, <3>4 DEF IndInv, LockInv
      <3> QED BY <3>5, <3>6 DEF LockInv
    <2>2. CASE job[r].seat \notin Seats
      BY <2>2 DEF IndInv, LockInv, Update
    <2> QED BY <2>1, <2>2
  <1>7. /\ reply'[r] = "error" /\ r \in taken => r \in unacked'
        /\ reply'[r] = "ok" => r \in taken \/ job[r].seat = None
    BY DEF IndInv, AnswerIsTrue, Update
  <1>8. item'[r] = "empty" /\ job[r].seat \in Seats
            => For(job[r].seat, taken \cup booked) \ {r} # {}
    BY DEF IndInv, ItemInv, Update
  <1> QED BY <1>2, <1>3, <1>4, <1>5, <1>6, <1>7, <1>8, MovesOneInd

\* The end of a transaction gives its row free and leaves the others theirs.
LEMMA UnlockedInv ==
    ASSUME IndInv, NEW r \in Requests, rowLock' = Unlocked(r),
           tx' = [tx EXCEPT ![r] = NoTx], job' = job
    PROVE  LockInv' /\ rowLock' \in [Seats -> Requests \cup {None}]
  <1>1. \A q \in Requests : tx'[q].updated <=> tx[q].updated /\ q # r
    BY DEF IndInv, TypeOK, NoTx
  <1>2. \A s \in Seats, q \in Requests : rowLock'[s] = q <=> rowLock[s] = q /\ q # r
    BY ReservationAssumption DEF IndInv, TypeOK, Unlocked
  <1>3. rowLock' \in [Seats -> Requests \cup {None}]
    BY DEF IndInv, TypeOK, Unlocked
  <1> QED BY <1>1, <1>2, <1>3 DEF IndInv, LockInv

\* A reserve that fails before its commit is answered with an error and leaves
\* no trace; a book that cannot begin or commit takes the process with it.
LEMMA TransactionFailsInd ==
    ASSUME IndInv, NEW r \in Requests, TransactionFails(r) PROVE IndInv'
  <1>1. Fail(r) /\ pc[r] \in {"begin", "find", "commit"}
    BY DEF TransactionFails
  <1>2. CASE job[r].kind = "reserve"
    <2>1. Reject(r) /\ UNCHANGED <<durable, failed, job, item>>
      BY <1>1, <1>2 DEF Fail, Abandon
    <2>2. LockInv' /\ rowLock' \in [Seats -> Requests \cup {None}]
      BY <2>1, UnlockedInv DEF Reject
    <2>3. TypeOK'
      BY <2>1, <2>2 DEF IndInv, TypeOK, Reject, NoTx
    <2>4. TxInv(r)' /\ DoneInv(r)' /\ r \notin taken
      BY <1>1, <2>1 DEF IndInv, TypeOK, TxInv, DoneInv, Reject, NoTx
    <2>5. MovesOne(r) /\ reply'[r] = "error"
      BY <2>1 DEF IndInv, TypeOK, MovesOne, Reject
    <2>6. item'[r] = "empty" /\ job[r].seat \in Seats
              => For(job[r].seat, taken \cup booked) \ {r} # {}
      BY <2>1 DEF IndInv, ItemInv
    <2> QED BY <2>2, <2>3, <2>4, <2>5, <2>6, MovesOneInd
  <1>3. CASE job[r].kind # "reserve"
    BY <1>1, <1>3, DieInd DEF Fail, Abandon, IndInv, TypeOK
  <1> QED BY <1>2, <1>3

\* A call whose COMMIT was applied and not acknowledged ends as a failed one does.
LEMMA AcknowledgementLostInd ==
    ASSUME IndInv, NEW r \in Requests, AcknowledgementLost(r) PROVE IndInv'
  <1>1. /\ pc[r] = "reply" /\ unacked' = unacked \cup {r}
        /\ UNCHANGED <<tables, failed, job, item>>
    BY DEF AcknowledgementLost, Abandon
  <1>2. CASE job[r].kind = "reserve"
    <2>1. Reject(r)
      BY <1>2 DEF AcknowledgementLost, Abandon
    <2>2. LockInv' /\ rowLock' \in [Seats -> Requests \cup {None}]
      BY <1>1, <2>1, UnlockedInv DEF Reject
    <2>3. TypeOK'
      BY <1>1, <2>1, <2>2 DEF IndInv, TypeOK, Reject, NoTx
    <2>4. TxInv(r)' /\ DoneInv(r)'
      BY <1>1, <2>1 DEF IndInv, TypeOK, TxInv, DoneInv, Reject, NoTx
    <2>5. MovesOne(r) /\ reply'[r] = "error"
      BY <1>1, <2>1 DEF IndInv, TypeOK, MovesOne, Reject
    <2>6. item'[r] = "empty" /\ job[r].seat \in Seats
              => For(job[r].seat, taken \cup booked) \ {r} # {}
      BY <1>1 DEF IndInv, ItemInv
    <2> QED BY <1>1, <2>2, <2>3, <2>4, <2>5, <2>6, MovesOneInd
  <1>3. CASE job[r].kind # "reserve"
    <2>1. Die
      BY <1>3 DEF AcknowledgementLost, Abandon
    <2>2. unacked \subseteq unacked' /\ unacked' \subseteq Requests
      BY <1>1 DEF IndInv, TypeOK
    <2> QED BY <1>1, <2>1, <2>2, DieInd
  <1> QED BY <1>2, <1>3

LEMMA ReplyInd == ASSUME IndInv, NEW r \in Requests, Reply(r) PROVE IndInv'
  <1>1. TypeOK'
    BY DEF IndInv, TypeOK, Reply
  <1>2. TxInv(r)' /\ DoneInv(r)'
    BY DEF IndInv, TypeOK, TxInv, DoneInv, Reply
  <1>3. MovesOne(r)
    BY DEF IndInv, TypeOK, MovesOne, Reply
  <1>4. LockInv'
    BY DEF IndInv, LockInv, Reply
  <1>5. /\ reply'[r] = "error" /\ r \in taken => r \in unacked'
        /\ reply'[r] = "ok" => r \in taken \/ job[r].seat = None
    BY DEF IndInv, TypeOK, DoneInv, Reply
  <1>6. item'[r] = "empty" /\ job[r].seat \in Seats
            => For(job[r].seat, taken \cup booked) \ {r} # {}
    BY DEF IndInv, ItemInv, Reply
  <1> QED BY <1>1, <1>2, <1>3, <1>4, <1>5, <1>6, MovesOneInd

-----------------------------------------------------------------------------
(* The commit, the only step that changes what is durable.                  *)

\* What a commit writes, without the local operators of the action.
LEMMA CommitWrites ==
    ASSUME IndInv, NEW r \in Requests, Commit(r)
    PROVE  /\ pc[r] = "commit" /\ job' = job /\ item' = item /\ reply' = reply
           /\ unacked' = unacked
           /\ outbox' = IF tx[r].outbox THEN outbox \cup {r} ELSE outbox
           /\ inbox' = IF tx[r].inbox THEN inbox \cup {r} ELSE inbox
           /\ taken' = IF tx[r].updated /\ job[r].kind = "reserve"
                       THEN taken \cup {r} ELSE taken
           /\ booked' = IF tx[r].updated /\ job[r].kind = "book"
                        THEN booked \cup {r} ELSE booked
           /\ row' = IF tx[r].updated
                     THEN [row EXCEPT ![job[r].seat] = Written(r)] ELSE row
           /\ job[r].kind \in {"reserve", "book"}
           /\ tx[r].updated => job[r].seat \in Seats
           /\ r \notin taken \cup booked
  BY DEF Commit, IndInv, TxInv, DoneInv, LockInv

\* What For says of the calls before and after a commit.
LEMMA CommitFor ==
    ASSUME IndInv, NEW r \in Requests, Commit(r), NEW s \in Seats
    PROVE  /\ ~ (tx[r].updated /\ job[r].seat = s) =>
                 /\ For(s, taken)' = For(s, taken)
                 /\ For(s, booked)' = For(s, booked)
                 /\ For(s, taken \cup booked)' = For(s, taken \cup booked)
           /\ tx[r].updated /\ job[r].seat = s =>
                 /\ r \in For(s, taken \cup booked)'
                 /\ job[r].kind = "reserve" => r \in For(s, taken)'
                 /\ job[r].kind = "book" =>
                       r \in For(s, booked)' /\ For(s, taken)' = For(s, taken)
  BY CommitWrites DEF For

LEMMA CommitRow ==
    ASSUME IndInv, NEW r \in Requests, Commit(r) PROVE RowExplained'
  <1> SUFFICES ASSUME NEW s \in Seats
      PROVE  /\ row'[s].status = "available" <=> For(s, taken \cup booked)' = {}
             /\ row'[s].status = "temp" => For(s, taken)' # {}
             /\ row'[s].status = "confimed" => For(s, booked)' # {}
             /\ IF row'[s].holder = None
                THEN For(s, taken)' = {}
                ELSE \E q \in For(s, taken)' : job'[q].user = row'[s].holder
    BY DEF RowExplained, For
  <1>1. CASE ~ (tx[r].updated /\ job[r].seat = s)
    <2>1. row'[s] = row[s] /\ job' = job
      BY <1>1, CommitWrites DEF IndInv, TypeOK
    <2> QED BY <1>1, <2>1, CommitFor DEF IndInv, RowExplained
  <1>2. CASE tx[r].updated /\ job[r].seat = s /\ job[r].kind = "reserve"
    <2>1. row'[s] = [status |-> "temp", holder |-> job[r].user] /\ job' = job
      BY <1>2, CommitWrites DEF IndInv, TypeOK, Written, NewStatus
    <2>2. job[r].user # None
      BY ReservationAssumption DEF IndInv, TypeOK, Jobs
    <2> QED BY <1>2, <2>1, <2>2, CommitFor
  <1>3. CASE tx[r].updated /\ job[r].seat = s /\ job[r].kind = "book"
    <2>1. row'[s] = [status |-> "confimed", holder |-> row[s].holder] /\ job' = job
      BY <1>3, CommitWrites DEF IndInv, TypeOK, Written, NewStatus
    <2>2. /\ r \in For(s, taken \cup booked)' /\ r \in For(s, booked)'
          /\ For(s, taken)' = For(s, taken)
      BY <1>3, CommitFor
    <2>3. IF row[s].holder = None
          THEN For(s, taken) = {}
          ELSE \E q \in For(s, taken) : job[q].user = row[s].holder
      BY DEF IndInv, RowExplained
    <2> QED BY <2>1, <2>2, <2>3
  <1> QED BY <1>1, <1>2, <1>3, CommitWrites

LEMMA CommitInd == ASSUME IndInv, NEW r \in Requests, Commit(r) PROVE IndInv'
  <1>1. LockInv' /\ rowLock' \in [Seats -> Requests \cup {None}]
    BY UnlockedInv DEF Commit
  <1>2. row' \in [Seats -> [status : {"available", "temp", "confimed"},
                            holder : Users \cup {None}]]
    <2>1. Written(r) \in [status : {"temp", "confimed"}, holder : Users \cup {None}]
          \/ ~ tx[r].updated
      BY CommitWrites DEF IndInv, TypeOK, Written, NewStatus, Jobs
    <2> QED BY <2>1, CommitWrites DEF IndInv, TypeOK
  <1>3. TypeOK'
    <2>1. /\ outbox' \subseteq Requests /\ inbox' \subseteq Requests
          /\ taken' \subseteq Requests /\ booked' \subseteq Requests
      BY CommitWrites DEF IndInv, TypeOK
    <2> QED BY <1>1, <1>2, <2>1 DEF IndInv, TypeOK, Commit, NoTx
  <1>4. ASSUME NEW q \in Requests PROVE TxInv(q)' /\ DoneInv(q)'
    <2>1. TxInv(q) /\ DoneInv(q) /\ TxInv(r) /\ DoneInv(r)
      BY DEF IndInv
    <2>2. CASE q = r
      <3>1. /\ tx'[r] = NoTx /\ job' = job /\ reply' = reply /\ pc[r] = "commit"
            /\ pc'[r] = "reply" /\ job[r].kind \in {"reserve", "book"}
        BY CommitWrites DEF Commit, IndInv, TypeOK
      <3> QED BY <2>1, <2>2, <3>1, CommitWrites DEF TxInv, DoneInv, NoTx
    <2>3. CASE q # r
      <3>1. tx'[q] = tx[q] /\ pc'[q] = pc[q] /\ reply' = reply /\ job' = job
        BY <2>3 DEF Commit, IndInv, TypeOK
      <3>2. (q \in taken' <=> q \in taken) /\ (q \in booked' <=> q \in booked)
        BY <2>3, CommitWrites
      <3> QED BY <2>1, <3>1, <3>2 DEF TxInv, DoneInv
    <2> QED BY <2>2, <2>3
  <1>5. BoxesAtomic'
    <2>1. TxInv(r)
      BY DEF IndInv
    <2> QED BY <2>1, CommitWrites DEF IndInv, BoxesAtomic, TxInv
  <1>6. AnswerIsTrue'
    <2>1. reply[r] = "none"
      BY CommitWrites DEF IndInv, DoneInv, TypeOK
    <2> QED BY <2>1, CommitWrites DEF IndInv, AnswerIsTrue
  <1>7. ItemInv'
    BY CommitWrites DEF IndInv, ItemInv, For
  <1> QED BY <1>1, <1>3, <1>4, <1>5, <1>6, <1>7, CommitRow DEF IndInv

-----------------------------------------------------------------------------
(* The theorems.                                                            *)

LEMMA NextInd == IndInv /\ [Next]_vars => IndInv'
  <1> SUFFICES ASSUME IndInv, [Next]_vars PROVE IndInv'
    OBVIOUS
  <1>1. ASSUME NEW r \in Requests, Receive(r) PROVE IndInv'
    BY <1>1, ReceiveInd
  <1>2. ASSUME NEW r \in Requests, Advance(r) PROVE IndInv'
    <2>1. CASE Begin(r)
      BY <2>1, BeginInd
    <2>2. CASE Find(r)
      BY <2>2, FindInd
    <2>3. CASE SaveOutBox(r)
      BY <2>3, SaveOutBoxInd
    <2>4. CASE Update(r)
      BY <2>4, UpdateInd
    <2>5. CASE NothingToBook(r)
      BY <2>5, SwallowInd DEF NothingToBook
    <2>6. CASE SaveInBox(r)
      BY <2>6, SaveInBoxInd
    <2>7. CASE Commit(r)
      BY <2>7, CommitInd
    <2>8. CASE Reply(r)
      BY <2>8, ReplyInd
    <2>9. CASE LookupFails(r)
      BY <2>9, LookupFailsInd
    <2>10. CASE LookupFinds(r)
      BY <2>10, DieInd DEF LookupFinds, IndInv, TypeOK
    <2> QED BY <1>2, <2>1, <2>2, <2>3, <2>4, <2>5, <2>6, <2>7, <2>8, <2>9, <2>10
            DEF Advance
  <1>3. ASSUME NEW r \in Requests, ReserveUpdateFails(r) PROVE IndInv'
    BY <1>3, DieInd DEF ReserveUpdateFails, IndInv, TypeOK
  <1>4. ASSUME NEW r \in Requests, BookStatementFails(r) PROVE IndInv'
    BY <1>4, SwallowInd DEF BookStatementFails
  <1>5. ASSUME NEW r \in Requests, TransactionFails(r) PROVE IndInv'
    BY <1>5, TransactionFailsInd
  <1>9. ASSUME NEW r \in Requests, AcknowledgementLost(r) PROVE IndInv'
    BY <1>9, AcknowledgementLostInd
  <1>6. CASE Crash
    BY <1>6, DieInd DEF Crash, IndInv, TypeOK
  <1>7. CASE Restart
    <2>1. TypeOK'
      BY <1>7 DEF IndInv, TypeOK, Restart
    <2>2. UNCHANGED <<durable, rowLock, job, pc, tx, item, reply>>
      BY <1>7 DEF Restart
    <2> QED BY <2>1, <2>2 DEF IndInv, LockInv, TxInv, DoneInv, BoxesAtomic,
            RowExplained, AnswerIsTrue, ItemInv, For
  <1>8. CASE UNCHANGED vars
    BY <1>8 DEF IndInv, TypeOK, LockInv, TxInv, DoneInv, BoxesAtomic, RowExplained,
       AnswerIsTrue, ItemInv, For, vars
  <1> QED BY <1>1, <1>2, <1>3, <1>4, <1>5, <1>6, <1>7, <1>8, <1>9 DEF Next

\* The inductive invariant holds in every reachable state.
LEMMA Inductive == Spec => []IndInv
  BY InitInd, NextInd, PTL DEF Spec

\* Every variable keeps its type; in particular no rollBack counts more than
\* MAX_RETRIES failures.
THEOREM TypeCorrect == Spec => []TypeOK
  <1>1. IndInv => TypeOK
    BY DEF IndInv
  <1> QED BY <1>1, Inductive, PTL

\* A processed event of book comes with its confirmation and its received event,
\* whichever statements fail and are swallowed.
THEOREM BoxesAgree == Spec => []BoxesAtomic
  <1>1. IndInv => BoxesAtomic
    BY DEF IndInv
  <1> QED BY <1>1, Inductive, PTL

\* Every committed row is the work of calls that ran to their end.
THEOREM RowsAreExplained == Spec => []RowExplained
  <1>1. IndInv => RowExplained
    BY DEF IndInv
  <1> QED BY <1>1, Inductive, PTL

\* A reserve answered with an error wrote nothing, unless the acknowledgement of
\* its COMMIT was lost; one answered with success wrote its seat, although its
\* UPDATE is not awaited.
THEOREM AnswersAreTrue == Spec => []AnswerIsTrue
  <1>1. IndInv => AnswerIsTrue
    BY DEF IndInv
  <1> QED BY <1>1, Inductive, PTL

\* A successful reserve of a seat answered without a row came too late for it.
THEOREM EmptyAnswersAreLate == Spec => []EmptyAnswerMeansTaken
  <1>1. IndInv => EmptyAnswerMeansTaken
    BY DEF IndInv, ItemInv, EmptyAnswerMeansTaken
  <1> QED BY <1>1, Inductive, PTL

-----------------------------------------------------------------------------
(* The component implements SeatBook.                                       *)

\* A step that commits no row can at most close open calls.
LEMMA QuietStepCloses ==
    ASSUME UNCHANGED <<row, taken, booked, job>>,
           \A q \in Requests : pc[q] = "end" => pc'[q] = "end"
    PROVE  B!BookNext
  <1> DEFINE S == {q \in Requests : status[q] = "open" /\ status'[q] = "closed"}
  <1>1. \A q \in Requests : status'[q] = IF q \in S THEN "closed" ELSE status[q]
    BY DEF status
  <1>2. B!Close(S)
    BY <1>1 DEF B!Close, status
  <1> QED BY <1>2 DEF B!BookNext

\* The commit of an update is the Apply of its call.
LEMMA CommitApplies ==
    ASSUME IndInv, NEW r \in Requests, Commit(r), tx[r].updated
    PROVE  B!BookNext
  <1>1. PICK s \in Seats : s = job[r].seat
    BY CommitWrites
  <1>2. /\ pc[r] = "commit" /\ job' = job /\ job[r].kind \in {"reserve", "book"}
        /\ r \notin taken \cup booked
        /\ taken' \cup booked' = (taken \cup booked) \cup {r}
        /\ row' = [row EXCEPT ![s] = Written(r)]
    BY <1>1, CommitWrites
  <1>3. status[r] = "open"
    BY <1>2 DEF status
  <1>4. status' = [status EXCEPT ![r] = "applied"]
    <2>1. \A q \in Requests \ {r} : pc'[q] = pc[q]
      BY DEF Commit, IndInv, TypeOK
    <2> QED BY <1>2, <2>1 DEF status
  <1>5. row[s] \in [status : {"available", "temp", "confimed"}, holder : Users \cup {None}]
    BY DEF IndInv, TypeOK
  <1>6. \/ job[r].kind = "reserve" /\ Written(r) = B!Reserved(r)
        \/ job[r].kind = "book" /\ Written(r) = B!Confirmed(s)
    BY <1>1, <1>2, <1>5 DEF Written, NewStatus, B!Reserved, B!Confirmed
  <1>7. B!Apply(r, s)
    BY <1>1, <1>2, <1>3, <1>4, <1>6 DEF B!Apply
  <1> QED BY <1>7 DEF B!BookNext

\* Every step of the component is a step of the book or leaves it unchanged.
LEMMA StepRefines == ASSUME IndInv, [Next]_vars PROVE [B!BookNext]_(B!bookVars)
  <1>1. CASE UNCHANGED vars
    BY <1>1 DEF vars, B!bookVars, status
  <1>2. CASE \E r \in Requests : Commit(r) /\ tx[r].updated
    BY <1>2, CommitApplies
  <1>3. CASE Next /\ ~ \E r \in Requests : Commit(r) /\ tx[r].updated
    <2>1. UNCHANGED <<row, taken, booked, job>>
      BY <1>3, CommitWrites DEF Next, Receive, Advance, Begin, Find, SaveOutBox, Update,
         NothingToBook, SaveInBox, Reply, LookupFails, LookupFinds, ReserveUpdateFails,
         BookStatementFails, TransactionFails, AcknowledgementLost, Fail, Abandon, Swallow,
         Crash, Restart
    <2>2. ASSUME NEW q \in Requests, pc[q] = "end" PROVE pc'[q] = "end"
      <3>1. pc \in [Requests -> Active \cup {"idle", "end"}]
        BY DEF IndInv, TypeOK
      <3>2. CASE Die
        BY <2>2, <3>2 DEF Die
      <3>3. CASE UNCHANGED pc
        BY <2>2, <3>3
      <3>4. CASE \E r \in Requests : pc[r] # "end" /\ \E s : Goto(r, s)
        BY <2>2, <3>1, <3>4
      <3> QED
        BY <1>3, <3>2, <3>3, <3>4 DEF Next, Receive, Advance, Begin, Find, SaveOutBox,
           Update, NothingToBook, SaveInBox, Commit, Reply, LookupFails, LookupFinds,
           ReserveUpdateFails, BookStatementFails, TransactionFails, AcknowledgementLost,
           Fail, Abandon, Reject, Swallow, Crash, Restart
    <2> QED BY <2>1, <2>2, QuietStepCloses
  <1> QED BY <1>1, <1>2, <1>3

\* Whatever the transactions, swallowed errors and crashes, the component behaves
\* like SeatBook.tla: each reserve or book is applied in one step, at most once and
\* never once its call was closed, and nothing else changes a row.
THEOREM Refinement == Spec => ImplementsSeatBook
  <1>1. Init => B!BookInit
    BY DEF Init, B!BookInit, status
  <1>2. IndInv /\ [Next]_vars => [B!BookNext]_(B!bookVars)
    BY StepRefines
  <1> QED BY <1>1, <1>2, Inductive, PTL DEF Spec, ImplementsSeatBook, B!BookSpec
=============================================================================
