------------------------- MODULE TicketQueueProofs --------------------------
(***************************************************************************)
(* Safety properties of TicketQueue.tla for every value of its constants.   *)
(* IndInv is shown to be inductive.  Its parts say whose tokens the guard's *)
(* keys verify (TokenInv), which requests carry them (RequestInv), that     *)
(* the batch of a run is the front of its queue (RunInv), that a request    *)
(* which misses its user was overtaken (OvertakenInv) and that nobody who   *)
(* was told a position falls behind it (ToldInv).  CountInv, beside it,     *)
(* counts the places of the users.  From the two follow the properties, and *)
(* that the component implements WaitingLine.tla.                           *)
(***************************************************************************)
EXTENDS TicketQueue, CountingTheorems, WellFoundedInduction, SequenceTheorems,
        FiniteSetTheorems, TLAPS

-----------------------------------------------------------------------------
(* lpos.                                                                    *)

\* The least element of a set of naturals.
LEMMA MinOfSet ==
    ASSUME NEW S \in SUBSET Nat, S # {}
    PROVE  Min(S) \in S /\ \A k \in S : Min(S) <= k
  <1>1. PICK n \in S : \A k \in S : ~ (<<k, n>> \in OpToRel(<, Nat))
    BY WFMin, NatLessThanWellFounded
  <1>2. \A k \in S : ~ (k < n)
    BY <1>1 DEF OpToRel
  <1>3. \A k \in S : n <= k
    BY <1>2
  <1> QED BY <1>3 DEF Min

\* Position is the first place of a user, or 0 when the user has none.
LEMMA PositionMeaning ==
    ASSUME NEW u, NEW i, queue[i] \in Seq(Users)
    PROVE  /\ Position(u, i) \in 0 .. Len(queue[i])
           /\ Position(u, i) > 0 => queue[i][Position(u, i)] = u
           /\ \A k \in 1 .. Len(queue[i]) : queue[i][k] = u =>
                 Position(u, i) \in 1 .. k
  <1> DEFINE I == {k \in 1 .. Len(queue[i]) : queue[i][k] = u}
  <1>1. Position(u, i) = IF I # {} THEN Min(I) ELSE 0
    BY DEF Position, SelectInSeq
  <1>2. I \in SUBSET Nat /\ Len(queue[i]) \in Nat
    OBVIOUS
  <1>3. CASE I # {}
    <2>1. Min(I) \in I /\ \A k \in I : Min(I) <= k
      BY <1>2, <1>3, MinOfSet
    <2>2. PICK m : m = Min(I) /\ m \in I /\ \A k \in I : m <= k
      BY <2>1
    <2>3. Position(u, i) = m
      BY <1>1, <1>3, <2>2
    <2>4. m \in 1 .. Len(queue[i]) /\ queue[i][m] = u
      BY <2>2
    <2>5. ASSUME NEW k \in 1 .. Len(queue[i]), queue[i][k] = u PROVE m \in 1 .. k
      <3>1. k \in I
        BY <2>5
      <3> QED BY <3>1, <2>2, <2>4
    <2> HIDE DEF I
    <2> QED BY <1>2, <2>3, <2>4, <2>5
  <1>4. CASE I = {}
    BY <1>1, <1>2, <1>4
  <1> QED BY <1>3, <1>4

\* A user is within the first m places of a queue exactly if lpos says so.
LEMMA PositionWithin ==
    ASSUME NEW u, NEW i, queue[i] \in Seq(Users), NEW m \in Nat
    PROVE  /\ Position(u, i) \in Nat
           /\ Position(u, i) = 0 <=> ~ Queued(u, i)
           /\ Position(u, i) \in 1 .. m <=>
                 \E k \in 1 .. Len(queue[i]) : k <= m /\ queue[i][k] = u
  <1>1. /\ Position(u, i) \in 0 .. Len(queue[i])
        /\ Position(u, i) > 0 => queue[i][Position(u, i)] = u
        /\ \A k \in 1 .. Len(queue[i]) : queue[i][k] = u => Position(u, i) \in 1 .. k
    BY PositionMeaning
  <1>2. PICK p \in 0 .. Len(queue[i]) : p = Position(u, i)
    BY <1>1
  <1>3. Len(queue[i]) \in Nat
    OBVIOUS
  <1>4. Queued(u, i) <=> \E k \in 1 .. Len(queue[i]) : queue[i][k] = u
    BY DEF Queued, Contains
  <1> QED BY <1>1, <1>2, <1>3, <1>4

-----------------------------------------------------------------------------
(* The inductive invariant.                                                 *)

\* Tokens that the guard's keys verify were signed by the external issuer, or
\* by the guard for one of its tokens.
TokenInv ==
    \A i \in Uuids :
        entry[i] = GuardServer \/ header[i] = GuardClient => i \in External

\* A request that has passed the first check carries such a token, and none has a
\* position before its last command.
RequestInv(r) ==
    /\ job[r].uuid \notin External =>
          pc[r] \in {"idle", "end"} /\ reply[r] \in {"none", "error"}
    /\ pc[r] # "end" => reply[r] = "none"
    /\ pc[r] \notin {"store", "end"} => told[r] = 0

\* The users a run has pushed are in the use list, and unless runs overlap its
\* batch is still the front of its queue.
RunInv(s) ==
    /\ run[s].pc \notin {"admit", "trim"} => run[s].pushed = 0
    /\ run[s].pc \in {"admit", "trim"} =>
          /\ run[s].pc = "trim" => run[s].pushed = Len(run[s].batch)
          /\ \A k \in 1 .. run[s].pushed : Admitted(run[s].batch[k])
          /\ ~ overlapped =>
                /\ Len(run[s].batch) <= Len(queue[run[s].idx])
                /\ \A k \in 1 .. Len(run[s].batch) :
                      queue[run[s].idx][k] = run[s].batch[k]

\* Runs that do not overlap are at different queues.
Apart ==
    ~ overlapped =>
        \A s, t \in Runs :
            run[s].pc \in {"admit", "trim"} /\ run[t].pc \in {"admit", "trim"}
                /\ run[s].idx = run[t].idx => s = t

OvertakenInv(r) ==
    /\ pc[r] \in {"queue", "push"} /\ Admitted(UserOf(r)) => r \in overtaken
    /\ pc[r] = "push" /\ Queued(UserOf(r), IdxOf(r)) => r \in overtaken

\* The user is in the use list or within the first m places of the queue.
Within(u, i, m) ==
    Admitted(u) \/ \E k \in 1 .. Len(queue[i]) : k <= m /\ queue[i][k] = u

ToldInv(r) ==
    ~ overlapped =>
        /\ pc[r] = "position" => Admitted(UserOf(r)) \/ Queued(UserOf(r), IdxOf(r))
        /\ told[r] > 0 /\ (pc[r] = "store" \/ reply[r] = "deny")
              => Within(UserOf(r), IdxOf(r), told[r])

IndInv ==
    /\ TypeOK
    /\ TokenInv
    /\ \A r \in Requests : RequestInv(r)
    /\ \A s \in Runs : RunInv(s)
    /\ Apart
    /\ \A r \in Requests : OvertakenInv(r)
    /\ \A r \in Requests : ToldInv(r)

\* The lists are finite in all, and without overlapping runs they hold each user as
\* often as the history says.
CountInv ==
    /\ \A u \in Users : IsFiniteSet(Waiting(u)) /\ IsFiniteSet(Moved(u))
    /\ EntriesConserved

USE DEF Active, Goto, Answer, redis, requests, history, Verified

\* The secrets are four values, three of them distinct, and None is none of them.
LEMMA SecretsDiffer ==
    /\ GuardServer # IssueServer /\ GuardClient # IssueClient
    /\ None \notin Secrets
    /\ GuardClient \in Secrets /\ GuardServer \in Secrets
    /\ IssueClient \in Secrets /\ IssueServer \in Secrets
  <1>1. None \notin Secrets
    BY QueueAssumption
  <1>2. GuardServer # IssueServer /\ GuardClient # IssueClient
    BY DEF GuardServer, GuardClient, IssueServer, IssueClient
  <1> QED BY <1>1, <1>2 DEF Secrets

LEMMA InitInd == Init => IndInv
  <1> SUFFICES ASSUME Init PROVE IndInv
    OBVIOUS
  <1>1. TypeOK
    <2>1. /\ entry \in [Uuids -> Secrets \cup {None}]
          /\ header \in [Uuids -> Secrets \cup {None}]
      BY SecretsDiffer DEF Init
    <2>2. run \in [Runs -> [pc : {"idle", "range", "admit", "trim", "spin"},
                            idx : Indices, remaining : 0 .. BATCH, batch : Seq(Users),
                            pushed : Nat]]
      BY QueueAssumption DEF Init, Idle, Indices
    <2>3. \A s \in Runs : run[s] = Idle
      BY DEF Init
    <2>4. \A s \in Runs : /\ run[s].pushed <= Len(run[s].batch)
                          /\ run[s].pc = "admit" => run[s].pushed < Len(run[s].batch)
      BY <2>3 DEF Idle
    <2>5. job \in [Requests -> [uuid : Uuids \cup {None}, path : Paths]]
      BY DEF Init, NoJob, Paths
    <2>6. crashes \in 0 .. MAX_CRASHES /\ told \in [Requests -> Nat]
          /\ pushes \in [Users -> Nat] /\ stranded \in [Users -> Nat]
      BY QueueAssumption DEF Init
    <2>7. queue \in [Indices -> Seq(Users)] /\ use \in Seq(Users)
      BY DEF Init
    <2>8. /\ issue \in [Uuids -> {"none", "user", "store", "end", "error"}]
          /\ pc \in [Requests -> Active \cup {"idle", "end"}]
          /\ reply \in [Requests -> {"none", "allow", "deny", "error"}]
          /\ misfiled \subseteq Uuids /\ overtaken \subseteq Requests
          /\ up \in BOOLEAN /\ overlapped \in BOOLEAN
      BY DEF Init
    <2> QED BY <2>1, <2>2, <2>4, <2>5, <2>6, <2>7, <2>8 DEF TypeOK
  <1>2. TokenInv
    BY SecretsDiffer DEF Init, TokenInv
  <1>3. ASSUME NEW r \in Requests PROVE RequestInv(r) /\ OvertakenInv(r) /\ ToldInv(r)
    <2>1. pc[r] = "idle" /\ reply[r] = "none" /\ told[r] = 0
      BY DEF Init
    <2> QED BY <2>1 DEF RequestInv, OvertakenInv, ToldInv
  <1>4. (\A s \in Runs : RunInv(s)) /\ Apart
    <2>1. \A s \in Runs : run[s].pc = "idle" /\ run[s].pushed = 0
      BY DEF Init, Idle
    <2> QED BY <2>1 DEF RunInv, Apart
  <1> QED BY <1>1, <1>2, <1>3, <1>4 DEF IndInv

-----------------------------------------------------------------------------
(* Frame lemmas.                                                            *)

\* A request that is under way has a user and a queue.
LEMMA RequestType ==
    ASSUME IndInv, NEW r \in Requests, pc[r] \in Active \/ reply[r] = "deny"
    PROVE  /\ job[r].uuid \in External
           /\ UserOf(r) \in Users /\ IdxOf(r) \in Indices
           /\ queue[IdxOf(r)] \in Seq(Users)
  <1>1. job[r].uuid \in External
    BY DEF IndInv, RequestInv
  <1>2. UserOf(r) \in Users /\ IdxOf(r) \in Indices
    BY <1>1, QueueAssumption DEF UserOf, IdxOf
  <1> QED BY <1>1, <1>2 DEF IndInv, TypeOK

\* What is said of the runs depends on the lists and the runs only.
LEMMA RunsFrame ==
    ASSUME IndInv, UNCHANGED <<queue, use, run, overlapped>>
    PROVE  (\A s \in Runs : RunInv(s)') /\ Apart'
  BY DEF IndInv, RunInv, Apart, Admitted

\* A step of request r alone that leaves the lists as they are.
LEMMA RequestFrame ==
    ASSUME IndInv, NEW r \in Requests,
           UNCHANGED <<queue, use, run, overlapped, overtaken>>,
           \A q \in Requests \ {r} :
              /\ job'[q] = job[q] /\ pc'[q] = pc[q]
              /\ told'[q] = told[q] /\ reply'[q] = reply[q],
           TypeOK', TokenInv', RequestInv(r)', OvertakenInv(r)', ToldInv(r)'
    PROVE  IndInv'
  <1>1. ASSUME NEW q \in Requests
        PROVE  RequestInv(q)' /\ OvertakenInv(q)' /\ ToldInv(q)'
    <2>1. CASE q = r
      BY <2>1
    <2>2. CASE q # r
      <3>1. RequestInv(q) /\ OvertakenInv(q) /\ ToldInv(q)
        BY DEF IndInv
      <3>2. /\ job'[q] = job[q] /\ pc'[q] = pc[q]
            /\ told'[q] = told[q] /\ reply'[q] = reply[q]
        BY <2>2
      <3> QED BY <3>1, <3>2 DEF RequestInv, OvertakenInv, ToldInv, UserOf, IdxOf,
              Admitted, Queued, Within
    <2> QED BY <2>1, <2>2
  <1> QED BY <1>1, RunsFrame DEF IndInv

\* A step that moves no request and leaves the lists as they are.
LEMMA TokenFrame ==
    ASSUME IndInv, UNCHANGED <<queue, use, overtaken, job, pc, told, reply>>,
           overlapped => overlapped',
           TypeOK', TokenInv', \A s \in Runs : RunInv(s)', Apart'
    PROVE  IndInv'
  <1>1. ASSUME NEW q \in Requests
        PROVE  RequestInv(q)' /\ OvertakenInv(q)' /\ ToldInv(q)'
    <2>1. RequestInv(q) /\ OvertakenInv(q) /\ ToldInv(q)
      BY DEF IndInv
    <2> QED BY <2>1 DEF RequestInv, OvertakenInv, ToldInv, UserOf, IdxOf,
            Admitted, Queued, Within
  <1> QED BY <1>1 DEF IndInv

-----------------------------------------------------------------------------
(* One lemma per action, or per group of actions that write alike.          *)

\* The issue of a token signs with neither of the guard's keys for its own uuid.
LEMMA IssueInd ==
    ASSUME IndInv, NEW i \in Uuids,
           \/ Create(i) \/ FindUser(i) \/ StoreEntry(i)
           \/ IssueFails(i) \/ Expire(i)
    PROVE  IndInv'
  <1>1. UNCHANGED <<misfiled, queue, use, up, crashes, requests, run, history>>
    BY DEF Create, FindUser, StoreEntry, IssueFails, Expire
  <1>2. issue' \in [Uuids -> {"none", "user", "store", "end", "error"}]
    BY DEF IndInv, TypeOK, Create, FindUser, AfterUser, StoreEntry, IssueFails,
       Expire
  <1>3. /\ entry' \in [Uuids -> Secrets \cup {None}]
        /\ \A j \in Uuids : entry'[j] \in {entry[j], IssueServer, None}
    <2>1. CASE \E t \in {IssueServer, None} : entry' = [entry EXCEPT ![i] = t]
      BY <2>1, SecretsDiffer DEF IndInv, TypeOK
    <2>2. CASE UNCHANGED entry
      BY <2>2 DEF IndInv, TypeOK
    <2> QED BY <2>1, <2>2 DEF Create, FindUser, StoreEntry, IssueFails, Expire
  <1>4. /\ header' \in [Uuids -> Secrets \cup {None}]
        /\ \A j \in Uuids : header'[j] \in {header[j], IssueClient, None}
    <2>1. CASE StoreEntry(i)
      <3>1. PICK t \in {HeaderToken, BodyToken} : header' = [header EXCEPT ![i] = t]
        BY <2>1 DEF StoreEntry
      <3>2. t \in {IssueClient, None}
        BY DEF HeaderToken, BodyToken
      <3> QED BY <3>1, <3>2, SecretsDiffer DEF IndInv, TypeOK
    <2>2. CASE UNCHANGED header
      BY <2>2 DEF IndInv, TypeOK
    <2> QED BY <2>1, <2>2 DEF Create, FindUser, IssueFails, Expire
  <1>5. TypeOK'
    BY <1>1, <1>2, <1>3, <1>4 DEF IndInv, TypeOK
  <1>6. TokenInv'
    BY <1>3, <1>4, SecretsDiffer DEF IndInv, TokenInv
  <1>7. (\A s \in Runs : RunInv(s)') /\ Apart'
    BY <1>1, RunsFrame
  <1> QED BY <1>1, <1>5, <1>6, <1>7, TokenFrame

LEMMA RestartInd == ASSUME IndInv, Restart PROVE IndInv'
  <1>1. TypeOK'
    BY DEF IndInv, TypeOK, Restart
  <1>2. TokenInv'
    BY DEF IndInv, TokenInv, Restart
  <1>3. (\A s \in Runs : RunInv(s)') /\ Apart'
    BY RunsFrame DEF Restart
  <1> QED BY <1>1, <1>2, <1>3, TokenFrame DEF Restart

\* A request arrives with a token that the client's key verifies.
LEMMA ArriveInd == ASSUME IndInv, NEW r \in Requests, Arrive(r) PROVE IndInv'
  <1>1. PICK i \in Uuids, p \in Paths :
           /\ header[i] = GuardClient
           /\ job' = [job EXCEPT ![r] = [uuid |-> i, path |-> p]]
    BY DEF Arrive
  <1>2. TypeOK'
    <2>1. job' \in [Requests -> [uuid : Uuids \cup {None}, path : Paths]]
      BY <1>1 DEF IndInv, TypeOK
    <2>2. pc' \in [Requests -> Active \cup {"idle", "end"}]
      BY DEF IndInv, TypeOK, Arrive
    <2> QED BY <2>1, <2>2 DEF IndInv, TypeOK, Arrive
  <1>3. TokenInv'
    BY DEF IndInv, TokenInv, Arrive
  <1>4. /\ pc[r] = "idle" /\ pc'[r] = "get" /\ reply'[r] = "none"
        /\ job'[r].uuid = i /\ told'[r] = 0
    BY <1>1 DEF IndInv, TypeOK, RequestInv, Arrive
  <1>5. RequestInv(r)' /\ OvertakenInv(r)' /\ ToldInv(r)'
    BY <1>1, <1>4 DEF IndInv, TokenInv, RequestInv, OvertakenInv, ToldInv
  <1>6. \A q \in Requests \ {r} : /\ job'[q] = job[q] /\ pc'[q] = pc[q]
                                  /\ told'[q] = told[q] /\ reply'[q] = reply[q]
    BY <1>1 DEF IndInv, TypeOK, Arrive
  <1> QED BY <1>2, <1>3, <1>5, <1>6, RequestFrame DEF Arrive

\* Requests that end with an error, are let in, or are turned away without a
\* position promise nothing.
LEMMA EndInd ==
    ASSUME IndInv, NEW r \in Requests, NEW a \in {"allow", "deny", "error"},
           pc[r] # "end", a # "error" => pc[r] \in Active,
           a = "deny" => pc[r] # "store",
           Answer(r, a), \A q \in Requests \ {r} : job'[q] = job[q],
           job' = job \/ (a = "error" /\ job' \in [Requests -> [uuid : Uuids \cup {None},
                                                             path : Paths]]),
           UNCHANGED <<redis, issue, header, up, crashes, told, run, history>>
    PROVE  IndInv'
  <1>1. TypeOK'
    <2>1. /\ pc' \in [Requests -> Active \cup {"idle", "end"}]
          /\ reply' \in [Requests -> {"none", "allow", "deny", "error"}]
      BY DEF IndInv, TypeOK
    <2>2. job' \in [Requests -> [uuid : Uuids \cup {None}, path : Paths]]
      BY DEF IndInv, TypeOK
    <2> QED BY <2>1, <2>2 DEF IndInv, TypeOK
  <1>2. TokenInv'
    BY DEF IndInv, TokenInv
  <1>3. pc'[r] = "end" /\ reply'[r] = a
    BY DEF IndInv, TypeOK
  <1>4. a # "error" => job'[r].uuid \in External
    BY RequestType
  <1>5. a = "deny" => told'[r] = 0
    BY DEF IndInv, RequestInv
  <1>6. RequestInv(r)' /\ OvertakenInv(r)' /\ ToldInv(r)'
    BY <1>3, <1>4, <1>5 DEF RequestInv, OvertakenInv, ToldInv
  <1>7. \A q \in Requests \ {r} : pc'[q] = pc[q] /\ reply'[q] = reply[q]
    BY DEF IndInv, TypeOK
  <1> QED BY <1>1, <1>2, <1>6, <1>7, RequestFrame

\* A request takes its next step without an answer and without writing.
LEMMA GotoInd ==
    ASSUME IndInv, NEW r \in Requests, NEW a \in {"use", "queue", "push"},
           pc[r] \in Active, pc[r] # "store", Goto(r, a),
           UNCHANGED <<redis, issue, header, up, crashes, job, told, reply, run, history>>,
           a \in {"queue", "push"} /\ Admitted(UserOf(r)) => r \in overtaken,
           a = "push" /\ Queued(UserOf(r), IdxOf(r)) => r \in overtaken
    PROVE  IndInv'
  <1>1. TypeOK'
    <2>1. pc' \in [Requests -> Active \cup {"idle", "end"}]
      BY DEF IndInv, TypeOK
    <2> QED BY <2>1 DEF IndInv, TypeOK
  <1>2. TokenInv'
    BY DEF IndInv, TokenInv
  <1>3. pc'[r] = a /\ reply'[r] = "none" /\ told'[r] = 0
    BY DEF IndInv, TypeOK, RequestInv
  <1>4. RequestInv(r)' /\ ToldInv(r)'
    BY <1>3, RequestType DEF RequestInv, ToldInv
  <1>5. OvertakenInv(r)'
    BY <1>3 DEF OvertakenInv, UserOf, IdxOf, Admitted, Queued
  <1>6. \A q \in Requests \ {r} : pc'[q] = pc[q]
    BY DEF IndInv, TypeOK
  <1> QED BY <1>1, <1>2, <1>4, <1>5, <1>6, RequestFrame

LEMMA RefuseInd == ASSUME IndInv, NEW r \in Requests, Refuse(r) PROVE IndInv'
  <1>1. CASE UNCHANGED job
    BY <1>1, EndInd DEF Refuse
  <1>2. ASSUME NEW i \in Uuids, job' = [job EXCEPT ![r].uuid = i]
        PROVE  IndInv'
    <2>1. job \in [Requests -> [uuid : Uuids \cup {None}, path : Paths]]
      BY DEF IndInv, TypeOK
    <2>2. /\ job' \in [Requests -> [uuid : Uuids \cup {None}, path : Paths]]
          /\ \A q \in Requests \ {r} : job'[q] = job[q]
      BY <1>2, <2>1
    <2> QED BY <2>2, EndInd DEF Refuse
  <1> QED BY <1>1, <1>2 DEF Refuse

LEMMA CommandFailsInd ==
    ASSUME IndInv, NEW r \in Requests, CommandFails(r) PROVE IndInv'
  BY EndInd DEF CommandFails

LEMMA GetTokenInd == ASSUME IndInv, NEW r \in Requests, GetToken(r) PROVE IndInv'
  <1>1. CASE Answer(r, "error")
    BY <1>1, EndInd DEF GetToken
  <1>2. CASE Goto(r, "use") /\ UNCHANGED reply
    BY <1>2, GotoInd DEF GetToken
  <1>3. CASE Answer(r, "allow")
    BY <1>3, EndInd DEF GetToken
  <1> QED BY <1>1, <1>2, <1>3 DEF GetToken

LEMMA LookupUseInd == ASSUME IndInv, NEW r \in Requests, LookupUse(r) PROVE IndInv'
  <1>1. CASE Answer(r, "allow")
    BY <1>1, EndInd DEF LookupUse
  <1>2. CASE ~ Admitted(UserOf(r)) /\ Goto(r, "queue") /\ UNCHANGED reply
    BY <1>2, GotoInd DEF LookupUse
  <1> QED BY <1>1, <1>2 DEF LookupUse

LEMMA LookupQueueInd == ASSUME IndInv, NEW r \in Requests, LookupQueue(r) PROVE IndInv'
  <1>1. pc[r] = "queue"
    BY DEF LookupQueue
  <1>2. CASE Answer(r, "deny")
    BY <1>1, <1>2, EndInd DEF LookupQueue
  <1>3. CASE ~ Queued(UserOf(r), IdxOf(r)) /\ Goto(r, "push") /\ UNCHANGED reply
    <2>1. Admitted(UserOf(r)) => r \in overtaken
      BY <1>1 DEF IndInv, OvertakenInv
    <2> QED BY <1>1, <1>3, <2>1, GotoInd DEF LookupQueue
  <1> QED BY <1>2, <1>3 DEF LookupQueue

\* The position told was read from the queue, or the user was admitted already.
LEMMA NewPositionInd ==
    ASSUME IndInv, NEW r \in Requests, NewPosition(r) PROVE IndInv'
  <1> DEFINE u == UserOf(r)
  <1> DEFINE i == IdxOf(r)
  <1> DEFINE m == IF Position(u, i) = 0 THEN 1 ELSE Position(u, i)
  <1>1. pc[r] = "position" /\ queue[i] \in Seq(Users) /\ job[r].uuid \in External
    BY RequestType DEF NewPosition
  <1>2. Position(u, i) \in Nat /\ m \in Nat /\ m > 0
        /\ (Position(u, i) = 0 <=> ~ Queued(u, i))
    BY <1>1, PositionWithin
  <1>3. ~ overlapped => Within(u, i, m)
    <2> SUFFICES ASSUME ~ overlapped PROVE Within(u, i, m)
      OBVIOUS
    <2>1. Admitted(u) \/ Queued(u, i)
      BY <1>1 DEF IndInv, ToldInv
    <2>2. CASE Admitted(u)
      BY <2>2 DEF Within
    <2>3. CASE Queued(u, i)
      <3>1. Position(u, i) \in 1 .. m
        BY <1>2, <2>3
      <3> QED BY <1>1, <1>2, <3>1, PositionWithin DEF Within
    <2> QED BY <2>1, <2>2, <2>3
  <1>4. told' = [told EXCEPT ![r] = m] /\ Goto(r, "store")
        /\ header' = [header EXCEPT ![job[r].uuid] = GuardClient]
        /\ UNCHANGED <<redis, issue, up, crashes, job, reply, run, history>>
    BY DEF NewPosition
  <1> HIDE DEF m
  <1>5. TypeOK'
    <2>1. told' \in [Requests -> Nat]
      BY <1>2, <1>4 DEF IndInv, TypeOK
    <2>2. pc' \in [Requests -> Active \cup {"idle", "end"}]
      BY <1>4 DEF IndInv, TypeOK
    <2>3. header' \in [Uuids -> Secrets \cup {None}]
      BY <1>4, SecretsDiffer DEF IndInv, TypeOK
    <2> QED BY <1>4, <2>1, <2>2, <2>3 DEF IndInv, TypeOK
  <1>6. TokenInv'
    BY <1>1, <1>4 DEF IndInv, TypeOK, TokenInv
  <1>7. pc'[r] = "store" /\ told'[r] = m /\ reply'[r] = "none"
    BY <1>1, <1>4 DEF IndInv, TypeOK, RequestInv
  <1>8. RequestInv(r)' /\ OvertakenInv(r)'
    BY <1>1, <1>4, <1>7 DEF RequestInv, OvertakenInv
  <1>9. ToldInv(r)'
    BY <1>3, <1>4, <1>7 DEF ToldInv, Within, UserOf, IdxOf, Admitted
  <1>10. \A q \in Requests \ {r} : pc'[q] = pc[q] /\ told'[q] = told[q]
    BY <1>4 DEF IndInv, TypeOK
  <1> QED BY <1>4, <1>5, <1>6, <1>8, <1>9, <1>10, RequestFrame

LEMMA StoreTokenInd == ASSUME IndInv, NEW r \in Requests, StoreToken(r) PROVE IndInv'
  <1>1. pc[r] = "store" /\ job[r].uuid \in External
    BY RequestType DEF StoreToken
  <1>2. TypeOK'
    <2>1. /\ pc' \in [Requests -> Active \cup {"idle", "end"}]
          /\ reply' \in [Requests -> {"none", "allow", "deny", "error"}]
      BY DEF IndInv, TypeOK, StoreToken
    <2>2. misfiled' \subseteq Uuids
      BY <1>1, QueueAssumption DEF IndInv, TypeOK, StoreToken
    <2> QED BY <2>1, <2>2 DEF IndInv, TypeOK, StoreToken
  <1>3. TokenInv'
    BY DEF IndInv, TokenInv, StoreToken
  <1>4. pc'[r] = "end" /\ reply'[r] = "deny"
    BY DEF IndInv, TypeOK, StoreToken
  <1>5. RequestInv(r)' /\ OvertakenInv(r)'
    BY <1>1, <1>4 DEF RequestInv, OvertakenInv, StoreToken
  <1>6. ToldInv(r)'
    <2>1. ~ overlapped /\ told[r] > 0 => Within(UserOf(r), IdxOf(r), told[r])
      BY <1>1 DEF IndInv, ToldInv
    <2> QED BY <1>4, <2>1 DEF ToldInv, Within, UserOf, IdxOf, Admitted, StoreToken
  <1>7. \A q \in Requests \ {r} : pc'[q] = pc[q] /\ reply'[q] = reply[q]
    BY DEF IndInv, TypeOK, StoreToken
  <1> QED BY <1>2, <1>3, <1>5, <1>6, <1>7, RequestFrame DEF StoreToken

\* A push keeps every place of every queue and adds one at the end.
LEMMA PushInd == ASSUME IndInv, NEW r \in Requests, Push(r) PROVE IndInv'
  <1> DEFINE u == UserOf(r)
  <1> DEFINE i == IdxOf(r)
  <1>1. /\ pc[r] = "push" /\ job[r].uuid \in External
        /\ u \in Users /\ i \in Indices /\ queue[i] \in Seq(Users)
    BY RequestType DEF Push
  <1>2. /\ queue' = [queue EXCEPT ![i] = Append(queue[i], u)]
        /\ Goto(r, "position")
        /\ overtaken' = overtaken \cup (Behind(u) \ {r})
        /\ UNCHANGED <<use, job, told, reply, run, overlapped>>
    BY DEF Push
  <1>3. queue \in [Indices -> Seq(Users)] /\ pc \in [Requests -> Active \cup {"idle", "end"}]
    BY DEF IndInv, TypeOK
  <1> HIDE DEF u, i
  <1>4. /\ Append(queue[i], u) \in Seq(Users)
        /\ Len(Append(queue[i], u)) = Len(queue[i]) + 1
        /\ \A k \in 1 .. Len(queue[i]) : Append(queue[i], u)[k] = queue[i][k]
        /\ Append(queue[i], u)[Len(queue[i]) + 1] = u
    BY <1>1, AppendProperties
  <1>5. ASSUME NEW j \in Indices
        PROVE  /\ queue'[j] \in Seq(Users) /\ Len(queue[j]) \in Nat
               /\ Len(queue'[j]) \in Nat /\ Len(queue[j]) <= Len(queue'[j])
               /\ \A k \in 1 .. Len(queue[j]) : queue'[j][k] = queue[j][k]
               /\ \A k \in 1 .. Len(queue'[j]) :
                     k \in 1 .. Len(queue[j]) \/ (j = i /\ queue'[j][k] = u)
    <2>1. CASE j = i
      <3>1. queue'[j] = Append(queue[i], u)
        BY <1>2, <1>3, <2>1
      <3> QED BY <1>1, <1>4, <2>1, <3>1
    <2>2. CASE j # i
      <3>1. queue'[j] = queue[j]
        BY <1>2, <1>3, <2>2
      <3> QED BY <1>3, <3>1
    <2> QED BY <2>1, <2>2
  <1>6. TypeOK'
    <2>1. queue' \in [Indices -> Seq(Users)]
      BY <1>1, <1>2, <1>3, <1>4
    <2>2. pushes' \in [Users -> Nat]
      BY <1>1 DEF IndInv, TypeOK, Push, u
    <2>3. pc' \in [Requests -> Active \cup {"idle", "end"}] /\ overtaken' \subseteq Requests
      BY <1>2, <1>3 DEF IndInv, TypeOK, Behind
    <2> QED BY <2>1, <2>2, <2>3 DEF IndInv, TypeOK, Push
  <1>7. TokenInv'
    BY DEF IndInv, TokenInv, Push
  <1>8. ASSUME NEW s \in Runs PROVE RunInv(s)'
    <2>1. run[s].idx \in Indices /\ Len(run[s].batch) \in Nat
      BY DEF IndInv, TypeOK
    <2>2. RunInv(s)
      BY DEF IndInv
    <2> QED BY <1>2, <1>5, <2>1, <2>2 DEF RunInv, Admitted
  <1>9. Apart'
    BY <1>2 DEF IndInv, Apart
  <1>10. ASSUME NEW q \in Requests PROVE RequestInv(q)' /\ OvertakenInv(q)' /\ ToldInv(q)'
    <2>1. RequestInv(q) /\ OvertakenInv(q) /\ ToldInv(q)
      BY DEF IndInv
    <2>2. CASE q = r
      <3>1. pc'[q] = "position" /\ reply'[q] = "none" /\ told'[q] = 0
        BY <1>1, <1>2, <1>3, <2>1, <2>2 DEF RequestInv
      <3>2. \E k \in 1 .. Len(queue'[i]) : queue'[i][k] = u
        BY <1>1, <1>2, <1>3, <1>4
      <3>3. Queued(UserOf(q), IdxOf(q))'
        BY <1>2, <2>2, <3>2 DEF Queued, Contains, UserOf, IdxOf, u, i
      <3> QED BY <1>1, <1>2, <2>2, <3>1, <3>3 DEF RequestInv, OvertakenInv, ToldInv
    <2>3. CASE q # r
      <3>1. /\ pc'[q] = pc[q] /\ reply'[q] = reply[q] /\ told'[q] = told[q]
            /\ UserOf(q)' = UserOf(q) /\ IdxOf(q)' = IdxOf(q) /\ job'[q] = job[q]
            /\ \A v : Admitted(v)' = Admitted(v)
        BY <1>2, <1>3, <2>3 DEF UserOf, IdxOf, Admitted
      <3>2. RequestInv(q)'
        BY <2>1, <3>1 DEF RequestInv
      <3>3. ASSUME pc[q] = "push", Queued(UserOf(q), IdxOf(q))' PROVE q \in overtaken'
        <4>1. IdxOf(q) \in Indices
          BY <3>3, RequestType
        <4>2. CASE UserOf(q) = u
          <5>1. q \in Behind(u)
            BY <3>3, <4>2 DEF Behind
          <5> QED BY <1>2, <2>3, <5>1
        <4>3. CASE UserOf(q) # u
          <5>1. PICK k \in 1 .. Len(queue'[IdxOf(q)]) : queue'[IdxOf(q)][k] = UserOf(q)
            BY <3>1, <3>3 DEF Queued, Contains
          <5>2. k \in 1 .. Len(queue[IdxOf(q)]) /\ queue[IdxOf(q)][k] = UserOf(q)
            BY <1>5, <4>1, <4>3, <5>1
          <5>3. Queued(UserOf(q), IdxOf(q))
            BY <5>2 DEF Queued, Contains
          <5> QED BY <1>2, <2>1, <3>3, <5>3 DEF OvertakenInv
        <4> QED BY <4>2, <4>3
      <3>4. OvertakenInv(q)'
        BY <1>2, <2>1, <3>1, <3>3 DEF OvertakenInv
      <3>5. ToldInv(q)'
        <4>1. CASE pc[q] \in Active \/ reply[q] = "deny"
          <5>1. IdxOf(q) \in Indices
            BY <4>1, RequestType
          <5>2. Queued(UserOf(q), IdxOf(q)) => Queued(UserOf(q), IdxOf(q))'
            BY <1>5, <3>1, <5>1 DEF Queued, Contains
          <5>3. Within(UserOf(q), IdxOf(q), told[q]) => Within(UserOf(q), IdxOf(q), told[q])'
            <6>1. \A k \in 1 .. Len(queue[IdxOf(q)]) :
                     /\ k \in 1 .. Len(queue'[IdxOf(q)])
                     /\ queue'[IdxOf(q)][k] = queue[IdxOf(q)][k]
              BY <1>5, <5>1
            <6> QED BY <3>1, <6>1 DEF Within
          <5> QED BY <1>2, <2>1, <3>1, <5>2, <5>3 DEF ToldInv
        <4>2. CASE ~ (pc[q] \in Active \/ reply[q] = "deny")
          BY <3>1, <4>2 DEF ToldInv
        <4> QED BY <4>1, <4>2
      <3> QED BY <3>2, <3>4, <3>5
    <2> QED BY <2>2, <2>3
  <1> QED BY <1>6, <1>7, <1>8, <1>9, <1>10 DEF IndInv

-----------------------------------------------------------------------------
(* The runs of the scheduler.                                               *)

\* The states of a run.
RunStates == [pc : {"idle", "range", "admit", "trim", "spin"}, idx : Indices,
              remaining : 0 .. BATCH, batch : Seq(Users), pushed : Nat]

\* A step of run s that leaves it outside of a batch and the lists as they are.
LEMMA RunFrame ==
    ASSUME IndInv, NEW s \in Runs, NEW w \in RunStates,
           w.pc \notin {"admit", "trim"}, w.pushed = 0,
           run' = [run EXCEPT ![s] = w],
           UNCHANGED <<queue, use>>, overlapped => overlapped'
    PROVE  /\ run' \in [Runs -> RunStates]
           /\ \A t \in Runs : /\ run'[t].pushed <= Len(run'[t].batch)
                              /\ run'[t].pc = "admit" => run'[t].pushed < Len(run'[t].batch)
           /\ (\A t \in Runs : RunInv(t)') /\ Apart'
  <1>1. run \in [Runs -> RunStates]
    BY DEF IndInv, TypeOK, RunStates
  <1>2. \A t \in Runs : run'[t] = IF t = s THEN w ELSE run[t]
    BY <1>1
  <1>3. Len(w.batch) \in Nat
    BY DEF RunStates
  <1>4. \A t \in Runs : /\ run[t].pushed <= Len(run[t].batch)
                        /\ run[t].pc = "admit" => run[t].pushed < Len(run[t].batch)
    BY DEF IndInv, TypeOK
  <1>5. ASSUME NEW t \in Runs PROVE RunInv(t)'
    <2>1. RunInv(t)
      BY DEF IndInv
    <2>2. CASE t = s
      BY <1>2, <2>2 DEF RunInv
    <2>3. CASE t # s
      BY <1>2, <2>1, <2>3 DEF RunInv, Admitted
    <2> QED BY <2>2, <2>3
  <1>6. Apart'
    BY <1>2 DEF IndInv, Apart
  <1>7. run' \in [Runs -> RunStates]
    BY <1>1
  <1>8. \A t \in Runs : /\ run'[t].pushed <= Len(run'[t].batch)
                        /\ run'[t].pc = "admit" => run'[t].pushed < Len(run'[t].batch)
    <2> SUFFICES ASSUME NEW t \in Runs
        PROVE  /\ run'[t].pushed <= Len(run'[t].batch)
               /\ run'[t].pc = "admit" => run'[t].pushed < Len(run'[t].batch)
      OBVIOUS
    <2>1. CASE t = s
      BY <1>2, <1>3, <2>1
    <2>2. CASE t # s
      BY <1>2, <1>4, <2>2
    <2> QED BY <2>1, <2>2
  <1> QED BY <1>5, <1>6, <1>7, <1>8

\* The state of a run between two batches, and of one that has stopped.
LEMMA IdleType ==
    ASSUME NEW p \in {"idle", "range", "spin"}, NEW i \in Indices, NEW n \in 0 .. BATCH
    PROVE  [pc |-> p, idx |-> i, remaining |-> n, batch |-> <<>>, pushed |-> 0]
              \in RunStates
  <1>1. <<>> \in Seq(Users) /\ 0 \in Nat
    OBVIOUS
  <1> QED BY <1>1 DEF RunStates

LEMMA IdleIsIdle ==
    /\ Idle \in RunStates /\ Idle.pc = "idle" /\ Idle.pushed = 0
    /\ 0 \in Indices /\ 0 \in 0 .. BATCH /\ BATCH \in 0 .. BATCH
  <1>1. 0 \in Indices /\ 0 \in 0 .. BATCH /\ BATCH \in 0 .. BATCH
    BY QueueAssumption DEF Indices
  <1> QED BY <1>1, IdleType DEF Idle

LEMMA AtQueueType ==
    ASSUME NEW i \in Indices, NEW n \in 0 .. BATCH
    PROVE  /\ AtQueue(i, n) \in RunStates
           /\ AtQueue(i, n).pc = "range" /\ AtQueue(i, n).pushed = 0
  BY IdleType DEF AtQueue

LEMMA NextQueueType ==
    ASSUME NEW w \in RunStates, NEW n \in 0 .. BATCH
    PROVE  /\ NextQueue(w, n) \in RunStates
           /\ NextQueue(w, n).pc \notin {"admit", "trim"} /\ NextQueue(w, n).pushed = 0
  <1>1. w.idx \in Indices
    BY DEF RunStates
  <1>2. CASE w.idx = LastIdx
    <2>1. NextQueue(w, n)
            = [pc |-> "spin", idx |-> 0, remaining |-> 0, batch |-> <<>>, pushed |-> 0]
      BY <1>2 DEF NextQueue, Idle
    <2> QED BY <2>1, IdleType, IdleIsIdle
  <1>3. CASE w.idx # LastIdx
    <2>1. PICK i \in Indices : i = w.idx + 1
      BY <1>1, <1>3, QueueAssumption DEF Indices
    <2>2. NextQueue(w, n) = AtQueue(i, n)
      BY <1>3, <2>1 DEF NextQueue
    <2> QED BY <2>2, AtQueueType
  <1> QED BY <1>2, <1>3

LEMMA FireInd == ASSUME IndInv, NEW s \in Runs, Fire(s) PROVE IndInv'
  <1>1. AtQueue(0, BATCH) \in RunStates /\ AtQueue(0, BATCH).pc = "range"
        /\ AtQueue(0, BATCH).pushed = 0
    BY IdleIsIdle, AtQueueType
  <1>2. run' = [run EXCEPT ![s] = AtQueue(0, BATCH)] /\ UNCHANGED <<queue, use, overlapped>>
    BY DEF Fire
  <1>3. /\ run' \in [Runs -> RunStates]
        /\ \A t \in Runs : /\ run'[t].pushed <= Len(run'[t].batch)
                           /\ run'[t].pc = "admit" => run'[t].pushed < Len(run'[t].batch)
        /\ (\A t \in Runs : RunInv(t)') /\ Apart'
    BY <1>1, <1>2, RunFrame
  <1>4. TypeOK'
    BY <1>3 DEF IndInv, TypeOK, RunStates, Fire
  <1>5. TokenInv'
    BY DEF IndInv, TokenInv, Fire
  <1> QED BY <1>3, <1>4, <1>5, TokenFrame DEF Fire

\* The places of a user in what a run has pushed are finitely many, and there are
\* none between two batches.
LEMMA MovedByType ==
    ASSUME IndInv, NEW s \in Runs, NEW u
    PROVE  /\ IsFiniteSet(MovedBy(s, u)) /\ Cardinality(MovedBy(s, u)) \in Nat
           /\ run[s].pushed = 0 => MovedBy(s, u) = {}
  <1>1. run[s].pushed \in Nat
    BY DEF IndInv, TypeOK
  <1>2. IsFiniteSet(1 .. run[s].pushed)
    <2>1. PICK n \in Nat : n = run[s].pushed
      BY <1>1
    <2>2. IsFiniteSet(1 .. n)
      BY FS_Interval
    <2> QED BY <2>1, <2>2
  <1>3. MovedBy(s, u) \in SUBSET (1 .. run[s].pushed)
    BY DEF MovedBy
  <1>4. IsFiniteSet(MovedBy(s, u)) /\ Cardinality(MovedBy(s, u)) \in Nat
    BY <1>2, <1>3, FS_Subset, FS_CardinalityType
  <1>5. run[s].pushed = 0 => MovedBy(s, u) = {}
    BY <1>3
  <1> QED BY <1>4, <1>5

LEMMA RunFailsInd == ASSUME IndInv, NEW s \in Runs, RunFails(s) PROVE IndInv'
  <1>1. run' = [run EXCEPT ![s] = Idle] /\ UNCHANGED <<queue, use, overlapped>>
    BY DEF RunFails
  <1>2. /\ run' \in [Runs -> RunStates]
        /\ \A t \in Runs : /\ run'[t].pushed <= Len(run'[t].batch)
                           /\ run'[t].pc = "admit" => run'[t].pushed < Len(run'[t].batch)
        /\ (\A t \in Runs : RunInv(t)') /\ Apart'
    BY <1>1, IdleIsIdle, RunFrame
  <1>3. TypeOK'
    <2>1. crashes' \in 0 .. MAX_CRASHES
      BY QueueAssumption DEF IndInv, TypeOK, RunFails
    <2>2. stranded' \in [Users -> Nat]
      <3>1. \A u \in Users : stranded[u] + Cardinality(MovedBy(s, u)) \in Nat
        BY MovedByType DEF IndInv, TypeOK
      <3> QED BY <3>1 DEF RunFails
    <2> QED BY <1>2, <2>1, <2>2 DEF IndInv, TypeOK, RunStates, RunFails
  <1>4. TokenInv'
    BY DEF IndInv, TokenInv, RunFails
  <1> QED BY <1>2, <1>3, <1>4, TokenFrame DEF RunFails

\* What lrange 0 remaining-1 answers: the front of the queue.
LEMMA FrontOfQueue ==
    ASSUME NEW q \in Seq(Users), NEW m \in Nat
    PROVE  LET users == SubSeq(q, 1, Min({m, Len(q)}))
           IN  /\ users \in Seq(Users) /\ Len(users) <= Len(q)
               /\ \A k \in 1 .. Len(users) : users[k] = q[k]
  <1>1. Len(q) \in Nat
    OBVIOUS
  <1>2. {m, Len(q)} \in SUBSET Nat /\ {m, Len(q)} # {}
    BY <1>1
  <1>3. /\ Min({m, Len(q)}) \in {m, Len(q)}
        /\ \A k \in {m, Len(q)} : Min({m, Len(q)}) <= k
    BY <1>2, MinOfSet
  <1>4. PICK n \in Nat : n = Min({m, Len(q)}) /\ n <= Len(q)
    BY <1>1, <1>3
  <1>5. \A k \in 1 .. n : q[k] \in Users
    BY <1>1, <1>4
  <1>6. /\ SubSeq(q, 1, n) \in Seq(Users)
        /\ Len(SubSeq(q, 1, n)) = IF 1 <= n THEN n - 1 + 1 ELSE 0
        /\ \A k \in 1 .. n - 1 + 1 : SubSeq(q, 1, n)[k] = q[1 + k - 1]
    BY <1>5, SubSeqProperties
  <1>7. Len(SubSeq(q, 1, n)) = n
    BY <1>6
  <1>8. \A k \in 1 .. n : SubSeq(q, 1, n)[k] = q[k]
    BY <1>6
  <1> QED BY <1>4, <1>6, <1>7, <1>8

\* A run reads a batch, or goes on to the next queue.
LEMMA ReadBatchInd == ASSUME IndInv, NEW s \in Runs, ReadBatch(s) PROVE IndInv'
  <1> DEFINE w == run[s]
  <1> DEFINE users == SubSeq(queue[w.idx], 1, Min({w.remaining, Len(queue[w.idx])}))
  <1> DEFINE full == [w EXCEPT !.pc = "admit", !.batch = users]
  <1>1. /\ w.pc = "range"
        /\ run' = [run EXCEPT ![s] = IF users = <<>> THEN NextQueue(w, w.remaining)
                                     ELSE full]
        /\ overlapped' = (overlapped \/ \E t \in Runs \ {s} :
                            run[t].pc \in {"admit", "trim"} /\ run[t].idx = w.idx)
        /\ UNCHANGED <<redis, issue, header, up, crashes, requests, pushes, stranded,
                       overtaken>>
    BY DEF ReadBatch
  <1>2. /\ w \in RunStates /\ w.pushed = 0 /\ run \in [Runs -> RunStates]
        /\ w.idx \in Indices /\ w.remaining \in 0 .. BATCH /\ w.remaining \in Nat
        /\ queue[w.idx] \in Seq(Users) /\ overlapped \in BOOLEAN
    <2>1. run \in [Runs -> RunStates] /\ overlapped \in BOOLEAN
      BY DEF IndInv, TypeOK, RunStates
    <2>2. w \in RunStates /\ w.idx \in Indices /\ w.remaining \in 0 .. BATCH
      BY <2>1 DEF RunStates
    <2>3. w.remaining \in Nat
      BY <2>2, QueueAssumption
    <2>4. RunInv(s)
      BY DEF IndInv
    <2>5. w.pushed = 0
      BY <1>1, <2>4 DEF RunInv
    <2>6. queue[w.idx] \in Seq(Users)
      BY <2>2 DEF IndInv, TypeOK
    <2> QED BY <2>1, <2>2, <2>3, <2>5, <2>6
  <1>3. /\ users \in Seq(Users) /\ Len(users) <= Len(queue[w.idx])
        /\ \A k \in 1 .. Len(users) : users[k] = queue[w.idx][k]
    BY <1>2, FrontOfQueue
  <1>4. overlapped' \in BOOLEAN /\ (overlapped => overlapped')
    BY <1>1, <1>2
  <1> HIDE DEF users
  <1>5. /\ run' \in [Runs -> RunStates]
        /\ \A t \in Runs : /\ run'[t].pushed <= Len(run'[t].batch)
                           /\ run'[t].pc = "admit" => run'[t].pushed < Len(run'[t].batch)
        /\ (\A t \in Runs : RunInv(t)') /\ Apart'
    <2>1. CASE users = <<>>
      <3>1. run' = [run EXCEPT ![s] = NextQueue(w, w.remaining)]
        BY <1>1, <2>1
      <3>2. /\ NextQueue(w, w.remaining) \in RunStates
            /\ NextQueue(w, w.remaining).pc \notin {"admit", "trim"}
            /\ NextQueue(w, w.remaining).pushed = 0
        BY <1>2, NextQueueType
      <3> QED BY <1>1, <1>4, <3>1, <3>2, RunFrame
    <2>2. CASE users # <<>>
      <3>1. /\ full \in RunStates /\ full.pc = "admit" /\ full.idx = w.idx
            /\ full.batch = users /\ full.pushed = 0
        BY <1>2, <1>3 DEF RunStates
      <3> HIDE DEF full
      <3>2. run' = [run EXCEPT ![s] = full]
        BY <1>1, <2>2
      <3>3. \A t \in Runs : run'[t] = IF t = s THEN full ELSE run[t]
        BY <1>2, <3>2
      <3>4. Len(users) \in Nat /\ Len(users) > 0
        BY <1>3, <2>2, EmptySeq
      <3>5. run' \in [Runs -> RunStates]
        BY <1>2, <3>1, <3>2
      <3>6. ASSUME NEW t \in Runs
            PROVE  /\ run'[t].pushed <= Len(run'[t].batch)
                   /\ run'[t].pc = "admit" => run'[t].pushed < Len(run'[t].batch)
        <4>1. CASE t = s
          BY <3>1, <3>3, <3>4, <4>1
        <4>2. CASE t # s
          BY <3>3, <4>2 DEF IndInv, TypeOK
        <4> QED BY <4>1, <4>2
      <3>7. ASSUME NEW t \in Runs PROVE RunInv(t)'
        <4>1. CASE t = s
          BY <1>1, <1>3, <3>1, <3>3, <4>1 DEF RunInv
        <4>2. CASE t # s
          <5>1. RunInv(t) /\ run'[t] = run[t]
            BY <3>3, <4>2 DEF IndInv
          <5> QED BY <1>1, <1>4, <5>1 DEF RunInv, Admitted
        <4> QED BY <4>1, <4>2
      <3>8. Apart'
        <4> SUFFICES ASSUME ~ overlapped', NEW t1 \in Runs, NEW t2 \in Runs,
                            run'[t1].pc \in {"admit", "trim"},
                            run'[t2].pc \in {"admit", "trim"},
                            run'[t1].idx = run'[t2].idx
                     PROVE  t1 = t2
          BY DEF Apart
        <4>1. \A t \in Runs \ {s} : run'[t] = run[t]
          BY <3>3
        <4>2. \A t \in Runs \ {s} :
                 run[t].pc \in {"admit", "trim"} => run[t].idx # w.idx
          BY <1>1
        <4>3. run'[s].idx = w.idx
          BY <3>1, <3>3
        <4>4. CASE t1 = s \/ t2 = s
          BY <4>1, <4>2, <4>3, <4>4
        <4>5. CASE t1 # s /\ t2 # s
          BY <1>4, <4>1, <4>5 DEF IndInv, Apart
        <4> QED BY <4>4, <4>5
      <3> QED BY <3>5, <3>6, <3>7, <3>8
    <2> QED BY <2>1, <2>2
  <1>6. TypeOK'
    BY <1>1, <1>4, <1>5 DEF IndInv, TypeOK, RunStates
  <1>7. TokenInv'
    BY <1>1 DEF IndInv, TokenInv
  <1> QED BY <1>1, <1>4, <1>5, <1>6, <1>7, TokenFrame

\* A push to the use list: its user is the next one of the batch.
LEMMA AdmitInd == ASSUME IndInv, NEW s \in Runs, Admit(s) PROVE IndInv'
  <1> DEFINE w == run[s]
  <1> DEFINE u == w.batch[w.pushed + 1]
  <1> DEFINE p == IF w.pushed + 1 = Len(w.batch) THEN "trim" ELSE "admit"
  <1> DEFINE next == [w EXCEPT !.pushed = w.pushed + 1, !.pc = p]
  <1>1. /\ w.pc = "admit"
        /\ use' = Append(use, u)
        /\ overtaken' = overtaken \cup Behind(u)
        /\ UNCHANGED <<entry, misfiled, queue, issue, header, up, crashes, requests,
                       pushes, stranded, overlapped>>
    BY DEF Admit
  <1>2. /\ w \in RunStates /\ run \in [Runs -> RunStates] /\ w.pushed \in Nat
        /\ w.batch \in Seq(Users) /\ Len(w.batch) \in Nat /\ w.pushed < Len(w.batch)
    <2>1. run \in [Runs -> RunStates]
      BY DEF IndInv, TypeOK, RunStates
    <2>2. w \in RunStates /\ w.pushed \in Nat /\ w.batch \in Seq(Users)
      BY <2>1 DEF RunStates
    <2>3. w.pushed < Len(w.batch)
      BY <1>1 DEF IndInv, TypeOK
    <2> QED BY <2>1, <2>2, <2>3
  <1>3. run' = [run EXCEPT ![s] = next]
    BY <1>1, <1>2 DEF Admit
  <1>4. u \in Users /\ use \in Seq(Users)
    BY <1>2 DEF IndInv, TypeOK
  <1>5. /\ next \in RunStates /\ next.pushed = w.pushed + 1 /\ next.pc = p
        /\ next.batch = w.batch /\ next.idx = w.idx
    <2>1. p \in {"idle", "range", "admit", "trim", "spin"}
      OBVIOUS
    <2>2. w.pushed + 1 \in Nat
      BY <1>2
    <2> HIDE DEF p
    <2> QED BY <1>2, <2>1, <2>2 DEF RunStates
  <1>6. p \in {"admit", "trim"} /\ (p = "trim" <=> w.pushed + 1 = Len(w.batch))
    OBVIOUS
  <1> HIDE DEF next, p
  <1>7. \A t \in Runs : run'[t] = IF t = s THEN next ELSE run[t]
    BY <1>2, <1>3
  <1>8. \A v : Contains(use', v) <=> Admitted(v) \/ v = u
    <2>1. /\ Len(use') = Len(use) + 1 /\ Len(use) \in Nat
          /\ \A k \in 1 .. Len(use) : use'[k] = use[k]
          /\ use'[Len(use) + 1] = u
      BY <1>1, <1>4, AppendProperties
    <2>2. \A v : (\E k \in 1 .. Len(use') : use'[k] = v)
                    <=> (\E k \in 1 .. Len(use) : use[k] = v) \/ v = u
      BY <2>1
    <2> QED BY <2>2 DEF Admitted, Contains
  <1> HIDE DEF u
  <1>9. TypeOK'
    <2>1. run' \in [Runs -> RunStates]
      BY <1>2, <1>3, <1>5
    <2>2. ASSUME NEW t \in Runs
          PROVE  /\ run'[t].pushed <= Len(run'[t].batch)
                 /\ run'[t].pc = "admit" => run'[t].pushed < Len(run'[t].batch)
      <3>1. CASE t = s
        BY <1>2, <1>5, <1>6, <1>7, <3>1
      <3>2. CASE t # s
        BY <1>7, <3>2 DEF IndInv, TypeOK
      <3> QED BY <3>1, <3>2
    <2>3. use' \in Seq(Users)
      BY <1>1, <1>4
    <2>4. overtaken' \subseteq Requests
      BY <1>1 DEF IndInv, TypeOK, Behind
    <2> QED BY <1>1, <2>1, <2>2, <2>3, <2>4 DEF IndInv, TypeOK, RunStates
  <1>10. TokenInv'
    BY <1>1 DEF IndInv, TokenInv
  <1>11. ASSUME NEW t \in Runs PROVE RunInv(t)'
    <2>1. RunInv(t)
      BY DEF IndInv
    <2>2. CASE t = s
      <3>1. \A k \in 1 .. w.pushed + 1 : Contains(use', w.batch[k])
        <4>1. \A k \in 1 .. w.pushed + 1 : k \in 1 .. w.pushed \/ k = w.pushed + 1
          BY <1>2
        <4>2. \A k \in 1 .. w.pushed : Admitted(w.batch[k])
          BY <1>1, <2>1, <2>2 DEF RunInv
        <4> QED BY <1>8, <4>1, <4>2 DEF u
      <3>2. ~ overlapped => /\ Len(w.batch) <= Len(queue[w.idx])
                            /\ \A k \in 1 .. Len(w.batch) : queue[w.idx][k] = w.batch[k]
        BY <1>1, <2>1, <2>2 DEF RunInv
      <3>3. run'[t] = next
        BY <1>7, <2>2
      <3>4. \A k \in 1 .. run'[t].pushed : Contains(use', run'[t].batch[k])
        BY <1>5, <3>1, <3>3
      <3>5. run'[t].pc = "trim" => run'[t].pushed = Len(run'[t].batch)
        BY <1>5, <1>6, <3>3
      <3>6. run'[t].batch = w.batch /\ run'[t].idx = w.idx
            /\ run'[t].pc \in {"admit", "trim"}
        BY <1>5, <1>6, <3>3
      <3> HIDE DEF w
      <3> QED BY <1>1, <3>2, <3>4, <3>5, <3>6 DEF RunInv, Admitted
    <2>3. CASE t # s
      <3>1. run'[t] = run[t]
        BY <1>7, <2>3
      <3> QED BY <1>1, <1>8, <2>1, <3>1 DEF RunInv, Admitted
    <2> QED BY <2>2, <2>3
  <1>12. Apart'
    <2>1. \A t \in Runs : run'[t].pc \in {"admit", "trim"} =>
                             run[t].pc \in {"admit", "trim"} /\ run'[t].idx = run[t].idx
      BY <1>1, <1>5, <1>7
    <2> QED BY <1>1, <2>1 DEF IndInv, Apart
  <1>13. ASSUME NEW q \in Requests PROVE RequestInv(q)' /\ OvertakenInv(q)' /\ ToldInv(q)'
    <2>1. RequestInv(q) /\ OvertakenInv(q) /\ ToldInv(q)
      BY DEF IndInv
    <2>2. /\ UserOf(q)' = UserOf(q) /\ IdxOf(q)' = IdxOf(q)
          /\ \A v, i : Queued(v, i)' = Queued(v, i)
      BY <1>1 DEF UserOf, IdxOf, Queued
    <2>3. RequestInv(q)'
      BY <1>1, <2>1 DEF RequestInv
    <2>4. OvertakenInv(q)'
      <3>1. pc[q] \in {"queue", "push"} /\ UserOf(q) = u => q \in overtaken'
        BY <1>1 DEF Behind
      <3> QED BY <1>1, <1>8, <2>1, <2>2, <3>1 DEF OvertakenInv, Admitted
    <2>5. ToldInv(q)'
      <3>1. Within(UserOf(q), IdxOf(q), told[q]) => Within(UserOf(q), IdxOf(q), told[q])'
        BY <1>1, <1>8, <2>2 DEF Within, Admitted
      <3> QED BY <1>1, <1>8, <2>1, <2>2, <3>1 DEF ToldInv, Admitted
    <2> QED BY <2>3, <2>4, <2>5
  <1> QED BY <1>9, <1>10, <1>11, <1>12, <1>13 DEF IndInv

\* What ltrim leaves: the places behind the first n.
LEMMA RestOfQueue ==
    ASSUME NEW q \in Seq(Users), NEW n \in Nat
    PROVE  /\ SubSeq(q, n + 1, Len(q)) \in Seq(Users)
           /\ \A k \in 1 .. Len(SubSeq(q, n + 1, Len(q))) :
                 n + k \in 1 .. Len(q) /\ SubSeq(q, n + 1, Len(q))[k] = q[n + k]
           /\ \A k \in 1 .. Len(q) : k > n =>
                 /\ k - n \in 1 .. Len(SubSeq(q, n + 1, Len(q)))
                 /\ SubSeq(q, n + 1, Len(q))[k - n] = q[k]
  <1> DEFINE rest == SubSeq(q, n + 1, Len(q))
  <1>1. Len(q) \in Nat /\ n + 1 \in Int /\ Len(q) \in Int
    OBVIOUS
  <1>2. \A k \in n + 1 .. Len(q) : q[k] \in Users
    BY <1>1
  <1>3. /\ rest \in Seq(Users)
        /\ Len(rest) = IF n + 1 <= Len(q) THEN Len(q) - (n + 1) + 1 ELSE 0
        /\ \A k \in 1 .. Len(q) - (n + 1) + 1 : rest[k] = q[n + 1 + k - 1]
    BY <1>1, <1>2, SubSeqProperties
  <1> HIDE DEF rest
  <1>4. \A k \in 1 .. Len(q) - n : rest[k] = q[n + k]
    BY <1>1, <1>3
  <1>5. /\ \A k \in 1 .. Len(rest) : k \in 1 .. Len(q) - n
        /\ \A k \in 1 .. Len(q) - n : k \in 1 .. Len(rest)
    BY <1>1, <1>3
  <1>6. \A k \in 1 .. Len(rest) : n + k \in 1 .. Len(q) /\ rest[k] = q[n + k]
    BY <1>1, <1>4, <1>5
  <1>7. \A k \in 1 .. Len(q) : k > n => k - n \in 1 .. Len(rest) /\ rest[k - n] = q[k]
    <2> SUFFICES ASSUME NEW k \in 1 .. Len(q), k > n
                 PROVE  k - n \in 1 .. Len(rest) /\ rest[k - n] = q[k]
      OBVIOUS
    <2>1. PICK j \in 1 .. Len(q) - n : j = k - n /\ n + j = k
      BY <1>1
    <2> QED BY <1>4, <1>5, <2>1
  <1> QED BY <1>3, <1>6, <1>7 DEF rest

\* The trim removes only users who have been admitted, and moves the others up.
LEMMA TrimInd == ASSUME IndInv, NEW s \in Runs, Trim(s) PROVE IndInv'
  <1>1. PICK w \in RunStates : w = run[s]
    BY DEF IndInv, TypeOK, RunStates
  <1>2. PICK n \in Nat : n = Len(w.batch)
    BY DEF RunStates
  <1>3. PICK next : next = IF w.remaining > n THEN NextQueue(w, w.remaining - n) ELSE Idle
    OBVIOUS
  <1>4. PICK i \in Indices : i = w.idx
    BY DEF RunStates
  <1>5. /\ w.pc = "trim"
        /\ queue' = [queue EXCEPT ![i] = SubSeq(queue[i], n + 1, Len(queue[i]))]
        /\ run' = [run EXCEPT ![s] = next]
        /\ UNCHANGED <<entry, misfiled, use, issue, header, up, crashes, requests,
                       history>>
    BY <1>1, <1>2, <1>3, <1>4 DEF Trim
  <1>6. next \in RunStates /\ next.pc \notin {"admit", "trim"} /\ next.pushed = 0
    <2>1. CASE w.remaining > n
      <3>1. PICK m \in 0 .. BATCH : m = w.remaining - n
        BY <2>1, QueueAssumption DEF RunStates
      <3> QED BY <1>3, <2>1, <3>1, NextQueueType
    <2>2. CASE ~ (w.remaining > n)
      BY <1>3, <2>2, IdleIsIdle
    <2> QED BY <2>1, <2>2
  <1>7. queue \in [Indices -> Seq(Users)] /\ run \in [Runs -> RunStates]
    BY DEF IndInv, TypeOK, RunStates
  <1>8. \A t \in Runs : run'[t] = IF t = s THEN next ELSE run[t]
    BY <1>5, <1>7
  <1>9. /\ queue'[i] \in Seq(Users)
        /\ \A k \in 1 .. Len(queue'[i]) :
              n + k \in 1 .. Len(queue[i]) /\ queue'[i][k] = queue[i][n + k]
        /\ \A k \in 1 .. Len(queue[i]) : k > n =>
              k - n \in 1 .. Len(queue'[i]) /\ queue'[i][k - n] = queue[i][k]
    <2>1. queue'[i] = SubSeq(queue[i], n + 1, Len(queue[i])) /\ queue[i] \in Seq(Users)
      BY <1>5, <1>7
    <2>2. PICK q, r : /\ q \in Seq(Users) /\ q = queue[i]
                      /\ r = SubSeq(q, n + 1, Len(q))
      BY <2>1
    <2>3. /\ r \in Seq(Users)
          /\ \A k \in 1 .. Len(r) : n + k \in 1 .. Len(q) /\ r[k] = q[n + k]
          /\ \A k \in 1 .. Len(q) : k > n => k - n \in 1 .. Len(r) /\ r[k - n] = q[k]
      BY <2>2, RestOfQueue
    <2>4. queue'[i] = r
      BY <2>1, <2>2
    <2> QED BY <2>2, <2>3, <2>4
  <1>10. \A j \in Indices \ {i} : queue'[j] = queue[j]
    BY <1>5, <1>7
  <1>11. TypeOK'
    <2>1. queue' \in [Indices -> Seq(Users)]
      <3>1. SubSeq(queue[i], n + 1, Len(queue[i])) \in Seq(Users)
        BY <1>7, RestOfQueue
      <3> QED BY <1>5, <1>7, <3>1
    <2>2. run' \in [Runs -> RunStates]
      BY <1>5, <1>6, <1>7
    <2>3. ASSUME NEW t \in Runs
          PROVE  /\ run'[t].pushed <= Len(run'[t].batch)
                 /\ run'[t].pc = "admit" => run'[t].pushed < Len(run'[t].batch)
      <3>1. CASE t = s
        <4>1. Len(next.batch) \in Nat
          BY <1>6 DEF RunStates
        <4> QED BY <1>6, <1>8, <3>1, <4>1
      <3>2. CASE t # s
        BY <1>8, <3>2 DEF IndInv, TypeOK
      <3> QED BY <3>1, <3>2
    <2> QED BY <1>5, <2>1, <2>2, <2>3 DEF IndInv, TypeOK, RunStates
  <1>12. TokenInv'
    BY <1>5 DEF IndInv, TokenInv
  <1>13. ASSUME NEW t \in Runs PROVE RunInv(t)'
    <2>1. CASE t = s
      BY <1>6, <1>8, <2>1 DEF RunInv
    <2>2. CASE t # s
      <3>1. RunInv(t) /\ run'[t] = run[t] /\ run[t].idx \in Indices
        BY <1>7, <1>8, <2>2 DEF IndInv, RunStates
      <3>2. ASSUME run[t].pc \in {"admit", "trim"}, ~ overlapped
            PROVE  queue'[run[t].idx] = queue[run[t].idx]
        <4>1. run[t].idx # i
          BY <1>1, <1>4, <1>5, <2>2, <3>2 DEF IndInv, Apart
        <4> QED BY <1>10, <3>1, <4>1
      <3> QED BY <1>5, <3>1, <3>2 DEF RunInv, Admitted
    <2> QED BY <2>1, <2>2
  <1>14. Apart'
    <2>1. \A t \in Runs : run'[t].pc \in {"admit", "trim"} => run'[t] = run[t]
      BY <1>6, <1>8
    <2> QED BY <1>5, <2>1 DEF IndInv, Apart
  <1>15. ASSUME NEW k \in 1 .. Len(queue[i]), k <= n, ~ overlapped
         PROVE  Contains(use, queue[i][k])
    <2>1. RunInv(s)
      BY DEF IndInv
    <2>2. run[s].pushed = n /\ k \in 1 .. n /\ queue[i][k] = w.batch[k]
      BY <1>1, <1>2, <1>4, <1>5, <1>7, <1>15, <2>1 DEF RunInv
    <2> QED BY <1>1, <1>5, <2>1, <2>2 DEF RunInv, Admitted
  <1>16. ASSUME NEW q \in Requests PROVE RequestInv(q)' /\ OvertakenInv(q)' /\ ToldInv(q)'
    <2>1. RequestInv(q) /\ OvertakenInv(q) /\ ToldInv(q)
      BY DEF IndInv
    <2>2. PICK u, j : u = UserOf(q) /\ j = IdxOf(q) /\ u = UserOf(q)' /\ j = IdxOf(q)'
      BY <1>5 DEF UserOf, IdxOf
    <2>3. RequestInv(q)'
      BY <1>5, <2>1 DEF RequestInv
    <2>4. CASE pc[q] \in Active \/ reply[q] = "deny"
      <3>1. j \in Indices /\ Len(queue[j]) \in Nat
        <4>1. j \in Indices
          BY <2>2, <2>4, RequestType
        <4>2. queue[j] \in Seq(Users)
          BY <1>7, <4>1
        <4> QED BY <4>1, <4>2
      <3>2. (\E k \in 1 .. Len(queue'[j]) : queue'[j][k] = u)
                => \E k \in 1 .. Len(queue[j]) : queue[j][k] = u
        <4>1. CASE j = i
          BY <1>9, <4>1
        <4>2. CASE j # i
          BY <1>10, <3>1, <4>2
        <4> QED BY <4>1, <4>2
      <3>3. OvertakenInv(q)'
        BY <1>5, <2>1, <2>2, <3>2 DEF OvertakenInv, Admitted, Queued, Contains
      <3>4. ASSUME ~ overlapped, NEW m \in Nat,
                   Contains(use, u) \/ \E k \in 1 .. Len(queue[j]) :
                                          k <= m /\ queue[j][k] = u
            PROVE  Contains(use, u) \/ \E k \in 1 .. Len(queue'[j]) :
                                          k <= m /\ queue'[j][k] = u
        <4>1. CASE Contains(use, u)
          BY <4>1
        <4>2. CASE j # i
          BY <1>10, <3>1, <3>4, <4>2
        <4>3. CASE ~ Contains(use, u) /\ j = i
          <5>1. PICK k \in 1 .. Len(queue[i]) : k <= m /\ queue[i][k] = u
            BY <3>4, <4>3
          <5>2. k > n
            BY <1>15, <3>1, <3>4, <4>3, <5>1
          <5>3. k - n \in 1 .. Len(queue'[i]) /\ queue'[i][k - n] = u
            BY <1>9, <5>1, <5>2
          <5>4. k - n <= m
            BY <3>1, <4>3, <5>1
          <5> QED BY <4>3, <5>3, <5>4
        <4> QED BY <4>1, <4>2, <4>3
      <3>5. ~ overlapped /\ (Contains(use, u) \/ Contains(queue[j], u))
                => Contains(use, u) \/ Contains(queue'[j], u)
        BY <3>1, <3>4 DEF Contains
      <3>6. told[q] \in Nat
        BY DEF IndInv, TypeOK
      <3>7. ToldInv(q)'
        BY <1>5, <2>1, <2>2, <3>4, <3>5, <3>6 DEF ToldInv, Within, Admitted, Queued
      <3> QED BY <2>3, <3>3, <3>7
    <2>5. CASE ~ (pc[q] \in Active \/ reply[q] = "deny")
      BY <1>5, <2>3, <2>5 DEF OvertakenInv, ToldInv
    <2> QED BY <2>4, <2>5
  <1> QED BY <1>11, <1>12, <1>13, <1>14, <1>16 DEF IndInv

-----------------------------------------------------------------------------
(* Faults of the process, and every step.                                   *)

LEMMA CrashInd == ASSUME IndInv, CountInv, Crash PROVE IndInv'
  <1>1. /\ pc' = [r \in Requests |-> IF pc[r] \in Active THEN "end" ELSE pc[r]]
        /\ reply' = [r \in Requests |-> IF pc[r] \in Active THEN "error" ELSE reply[r]]
        /\ run' = [s \in Runs |-> Idle]
        /\ UNCHANGED <<redis, header, job, told, pushes, overlapped, overtaken>>
    BY DEF Crash
  <1>2. TypeOK'
    <2>1. crashes' \in 0 .. MAX_CRASHES /\ up' \in BOOLEAN
      <3>1. crashes \in 0 .. MAX_CRASHES
        BY DEF IndInv, TypeOK
      <3>2. crashes' = crashes + 1 /\ crashes < MAX_CRASHES /\ up' = FALSE
        BY DEF Crash
      <3>3. crashes' \in 0 .. MAX_CRASHES
        BY <3>1, <3>2, QueueAssumption
      <3> QED BY <3>2, <3>3
    <2>2. issue' \in [Uuids -> {"none", "user", "store", "end", "error"}]
      BY DEF IndInv, TypeOK, Crash
    <2>3. /\ pc' \in [Requests -> Active \cup {"idle", "end"}]
          /\ reply' \in [Requests -> {"none", "allow", "deny", "error"}]
      BY <1>1 DEF IndInv, TypeOK
    <2>4. run' \in [Runs -> RunStates]
      BY <1>1, IdleIsIdle
    <2>5. \A s \in Runs : /\ run'[s].pushed <= Len(run'[s].batch)
                          /\ run'[s].pc = "admit" => run'[s].pushed < Len(run'[s].batch)
      BY <1>1 DEF Idle
    <2>6. stranded' \in [Users -> Nat]
      <3>1. \A u \in Users : stranded[u] + Cardinality(Moved(u)) \in Nat
        BY FS_CardinalityType DEF IndInv, TypeOK, CountInv
      <3> QED BY <3>1 DEF Crash
    <2> QED BY <1>1, <2>1, <2>2, <2>3, <2>4, <2>5, <2>6 DEF IndInv, TypeOK, RunStates
  <1>3. TokenInv'
    BY <1>1 DEF IndInv, TokenInv
  <1>4. (\A s \in Runs : RunInv(s)') /\ Apart'
    <2>1. \A s \in Runs : run'[s].pc = "idle" /\ run'[s].pushed = 0
      BY <1>1 DEF Idle
    <2> QED BY <2>1 DEF RunInv, Apart
  <1>5. ASSUME NEW q \in Requests PROVE RequestInv(q)' /\ OvertakenInv(q)' /\ ToldInv(q)'
    <2>1. RequestInv(q) /\ OvertakenInv(q) /\ ToldInv(q)
      BY DEF IndInv
    <2>2. CASE pc[q] \in Active
      <3>1. pc'[q] = "end" /\ reply'[q] = "error" /\ job'[q] = job[q] /\ told'[q] = told[q]
        BY <1>1, <2>2
      <3> QED BY <3>1 DEF RequestInv, OvertakenInv, ToldInv
    <2>3. CASE pc[q] \notin Active
      <3>1. /\ pc'[q] = pc[q] /\ reply'[q] = reply[q] /\ job'[q] = job[q]
            /\ told'[q] = told[q]
        BY <1>1, <2>3
      <3> QED BY <1>1, <2>1, <3>1 DEF RequestInv, OvertakenInv, ToldInv, UserOf, IdxOf,
              Admitted, Queued, Within
    <2> QED BY <2>2, <2>3
  <1> QED BY <1>2, <1>3, <1>4, <1>5 DEF IndInv

LEMMA NextInd == ASSUME IndInv, CountInv, Next PROVE IndInv'
  <1>1. ASSUME NEW i \in Uuids, \/ Create(i) \/ FindUser(i) \/ StoreEntry(i)
                                \/ IssueFails(i) \/ Expire(i)
        PROVE  IndInv'
    BY <1>1, IssueInd
  <1>2. ASSUME NEW r \in Requests, Arrive(r) \/ Refuse(r) \/ Advance(r) \/ CommandFails(r)
        PROVE  IndInv'
    BY <1>2, ArriveInd, RefuseInd, GetTokenInd, LookupUseInd, LookupQueueInd, PushInd,
       NewPositionInd, StoreTokenInd, CommandFailsInd DEF Advance
  <1>3. ASSUME NEW s \in Runs, Fire(s) \/ Move(s) \/ RunFails(s)
        PROVE  IndInv'
    BY <1>3, FireInd, ReadBatchInd, AdmitInd, TrimInd, RunFailsInd DEF Move
  <1> QED BY <1>1, <1>2, <1>3, CrashInd, RestartInd DEF Next

LEMMA StutterInd == ASSUME IndInv, UNCHANGED vars PROVE IndInv'
  <1>1. TypeOK' /\ TokenInv'
    BY DEF IndInv, TypeOK, TokenInv, vars
  <1>2. (\A s \in Runs : RunInv(s)') /\ Apart'
    BY RunsFrame DEF vars
  <1> QED BY <1>1, <1>2, TokenFrame DEF vars

\* With the trim a run is at the end of its batch.
LEMMA TrimEndsBatch ==
    ASSUME IndInv, NEW s \in Runs, Trim(s)
    PROVE  run'[s].pushed = 0 /\ \A t \in Runs \ {s} : run'[t] = run[t]
  <1>1. run \in [Runs -> RunStates]
    BY DEF IndInv, TypeOK, RunStates
  <1>2. PICK w \in RunStates : w = run[s]
    BY <1>1
  <1>3. PICK n \in Nat : n = Len(w.batch)
    BY DEF RunStates
  <1>4. IF w.remaining > n THEN run' = [run EXCEPT ![s] = NextQueue(w, w.remaining - n)]
                           ELSE run' = [run EXCEPT ![s] = Idle]
    BY <1>2, <1>3 DEF Trim
  <1>5. CASE w.remaining > n
    <2>1. PICK m \in 0 .. BATCH : m = w.remaining - n
      BY <1>5, QueueAssumption DEF RunStates
    <2>2. NextQueue(w, m).pushed = 0
      BY NextQueueType
    <2> QED BY <1>1, <1>4, <1>5, <2>1, <2>2
  <1>6. CASE ~ (w.remaining > n)
    BY <1>1, <1>4, <1>6, IdleIsIdle
  <1> QED BY <1>5, <1>6

\* A run that starts, or reads its next batch, has pushed nobody of it.
LEMMA ReadPushesNobody ==
    ASSUME IndInv, NEW s \in Runs, Fire(s) \/ ReadBatch(s)
    PROVE  /\ run[s].pushed = 0 /\ run'[s].pushed = 0
           /\ \A t \in Runs \ {s} : run'[t] = run[t]
  <1>1. run \in [Runs -> RunStates]
    BY DEF IndInv, TypeOK, RunStates
  <1>2. run[s].pushed = 0
    BY DEF IndInv, RunInv, Fire, ReadBatch
  <1>3. run'[s].pushed = 0 /\ \A t \in Runs \ {s} : run'[t] = run[t]
    <2>1. CASE Fire(s)
      <3>1. AtQueue(0, BATCH).pushed = 0
        BY IdleIsIdle, AtQueueType
      <3> QED BY <1>1, <2>1, <3>1 DEF Fire
    <2>2. CASE ReadBatch(s)
      <3>1. NextQueue(run[s], run[s].remaining).pushed = 0
        BY <1>1, NextQueueType DEF RunStates
      <3>2. run[s] \in RunStates
        BY <1>1
      <3> QED BY <1>1, <1>2, <2>2, <3>1, <3>2 DEF ReadBatch, RunStates
    <2> QED BY <2>1, <2>2
  <1> QED BY <1>2, <1>3

-----------------------------------------------------------------------------
(* The places of the users: no entry is lost and none is made up.            *)

\* A list has finitely many places for a user.
LEMMA PlacesFinite ==
    ASSUME NEW q \in Seq(Users), NEW u
    PROVE  IsFiniteSet(Places(q, u)) /\ Cardinality(Places(q, u)) \in Nat
  <1>1. IsFiniteSet(1 .. Len(q))
    BY FS_Interval
  <1>2. Places(q, u) \in SUBSET (1 .. Len(q))
    BY DEF Places
  <1> QED BY <1>1, <1>2, FS_Subset, FS_CardinalityType

\* rpush: one place more for the user who is appended, and none for the others.
LEMMA PlacesAppend ==
    ASSUME NEW q \in Seq(Users), NEW v \in Users, NEW u
    PROVE  Cardinality(Places(Append(q, v), u))
              = Cardinality(Places(q, u)) + IF u = v THEN 1 ELSE 0
  <1>1. /\ DOMAIN Append(q, v) = 1 .. Len(q) + 1 /\ Len(q) \in Nat
        /\ \A k \in 1 .. Len(q) : Append(q, v)[k] = q[k]
        /\ Append(q, v)[Len(q) + 1] = v
    BY AppendProperties
  <1>2. IsFiniteSet(Places(q, u)) /\ Cardinality(Places(q, u)) \in Nat
    BY PlacesFinite
  <1>3. CASE u = v
    <2>1. Places(Append(q, v), u) = Places(q, u) \cup {Len(q) + 1}
      BY <1>1, <1>3 DEF Places
    <2>2. Len(q) + 1 \notin Places(q, u)
      BY <1>1 DEF Places
    <2> QED BY <1>2, <1>3, <2>1, <2>2, FS_AddElement
  <1>4. CASE u # v
    <2>1. Places(Append(q, v), u) = Places(q, u)
      BY <1>1, <1>4 DEF Places
    <2> QED BY <1>2, <1>4, <2>1
  <1> QED BY <1>3, <1>4

\* ltrim: the places behind the first n move up, those within them are gone.
LEMMA PlacesTrimmed ==
    ASSUME NEW q \in Seq(Users), NEW n \in Nat, n <= Len(q), NEW u
    PROVE  Cardinality(Places(q, u))
              = Cardinality(Places(SubSeq(q, n + 1, Len(q)), u))
                + Cardinality({k \in 1 .. n : q[k] = u})
  <1> DEFINE rest == SubSeq(q, n + 1, Len(q))
  <1> DEFINE front == {k \in 1 .. n : q[k] = u}
  <1> DEFINE back == Places(q, u) \ front
  <1> DEFINE up1 == [k \in Places(rest, u) |-> n + k]
  <1>1. Len(q) \in Nat /\ DOMAIN q = 1 .. Len(q)
    OBVIOUS
  <1>2. /\ rest \in Seq(Users) /\ DOMAIN rest = 1 .. Len(rest) /\ Len(rest) \in Nat
        /\ \A k \in 1 .. Len(rest) : n + k \in 1 .. Len(q) /\ rest[k] = q[n + k]
        /\ \A k \in 1 .. Len(q) : k > n => k - n \in 1 .. Len(rest) /\ rest[k - n] = q[k]
    <2>1. rest \in Seq(Users)
      BY RestOfQueue
    <2>2. DOMAIN rest = 1 .. Len(rest) /\ Len(rest) \in Nat
      BY <2>1
    <2> QED BY <2>1, <2>2, RestOfQueue
  <1> HIDE DEF rest
  <1>3. IsFiniteSet(Places(q, u)) /\ IsFiniteSet(Places(rest, u))
    BY <1>2, PlacesFinite
  <1>4. front \subseteq Places(q, u)
    BY <1>1 DEF Places
  <1>5. up1 \in Bijection(Places(rest, u), back)
    <2>1. ASSUME NEW k \in Places(rest, u) PROVE up1[k] \in back
      BY <1>1, <1>2 DEF Places
    <2>2. \A j, k \in Places(rest, u) : up1[j] = up1[k] => j = k
      BY <1>2 DEF Places
    <2>3. ASSUME NEW k \in back PROVE \E j \in Places(rest, u) : up1[j] = k
      <3>1. k \in 1 .. Len(q) /\ k > n /\ q[k] = u
        BY <1>1 DEF Places
      <3>2. k - n \in Places(rest, u) /\ n + (k - n) = k
        BY <1>1, <1>2, <3>1 DEF Places
      <3> QED BY <3>2
    <2>4. up1 \in [Places(rest, u) -> back]
      BY <2>1
    <2>5. up1 \in Injection(Places(rest, u), back)
      BY <2>2, <2>4 DEF Injection, IsInjective
    <2>6. up1 \in Surjection(Places(rest, u), back)
      BY <2>3, <2>4 DEF Surjection
    <2> QED BY <2>5, <2>6 DEF Bijection
  <1>6. Cardinality(back) = Cardinality(Places(rest, u))
    BY <1>3, <1>5, FS_Bijection DEF ExistsBijection
  <1>7. Cardinality(Places(q, u)) = Cardinality(back) + Cardinality(front)
    BY <1>3, <1>4, PartRemoved
  <1> QED BY <1>6, <1>7 DEF rest

\* A step that changes one queue changes the waiting places in that queue alone.
LEMMA WaitingStep ==
    ASSUME IndInv, CountInv, NEW i \in Indices, NEW u \in Users,
           queue'[i] \in Seq(Users), \A j \in Indices \ {i} : queue'[j] = queue[j]
    PROVE  /\ IsFiniteSet(Waiting(u)')
           /\ Cardinality(Waiting(u)') + Cardinality(Places(queue[i], u))
                 = Cardinality(Waiting(u)) + Cardinality(Places(queue'[i], u))
  <1> DEFINE F == [j \in Indices |-> Places(queue[j], u)]
  <1> DEFINE G == [j \in Indices |-> Places(queue'[j], u)]
  <1>1. \A j \in Indices \ {i} : G[j] = F[j]
    OBVIOUS
  <1>2. /\ UNION {{j} \X F[j] : j \in Indices} = Waiting(u)
        /\ UNION {{j} \X G[j] : j \in Indices} = Waiting(u)'
    BY DEF Waiting, Places
  <1>3. F[i] = Places(queue[i], u) /\ G[i] = Places(queue'[i], u)
    OBVIOUS
  <1>4. IsFiniteSet(Waiting(u)) /\ IsFiniteSet(G[i])
    BY <1>3, PlacesFinite DEF CountInv
  <1> HIDE DEF F, G
  <1>5. IsFiniteSet(UNION {{j} \X F[j] : j \in Indices})
    BY <1>2, <1>4
  <1>6. /\ IsFiniteSet(UNION {{j} \X G[j] : j \in Indices})
        /\ Cardinality(UNION {{j} \X G[j] : j \in Indices}) + Cardinality(F[i])
              = Cardinality(UNION {{j} \X F[j] : j \in Indices}) + Cardinality(G[i])
    BY <1>1, <1>4, <1>5, TaggedStep
  <1> QED BY <1>2, <1>3, <1>6

\* A step of one run changes what has been moved in the batch of that run alone.
LEMMA MovedStep ==
    ASSUME IndInv, CountInv, NEW s \in Runs, NEW u \in Users,
           IsFiniteSet(MovedBy(s, u)'), \A t \in Runs \ {s} : run'[t] = run[t]
    PROVE  /\ IsFiniteSet(Moved(u)')
           /\ Cardinality(Moved(u)') + Cardinality(MovedBy(s, u))
                 = Cardinality(Moved(u)) + Cardinality(MovedBy(s, u)')
  <1> DEFINE F == [t \in Runs |-> MovedBy(t, u)]
  <1> DEFINE G == [t \in Runs |-> MovedBy(t, u)']
  <1>1. \A t \in Runs \ {s} : G[t] = F[t]
    BY DEF MovedBy
  <1>2. /\ UNION {{t} \X F[t] : t \in Runs} = Moved(u)
        /\ UNION {{t} \X G[t] : t \in Runs} = Moved(u)'
    BY DEF Moved, MovedBy
  <1>3. F[s] = MovedBy(s, u) /\ G[s] = MovedBy(s, u)'
    OBVIOUS
  <1>4. IsFiniteSet(Moved(u)) /\ IsFiniteSet(G[s])
    BY <1>3 DEF CountInv
  <1> HIDE DEF F, G
  <1>5. IsFiniteSet(UNION {{t} \X F[t] : t \in Runs})
    BY <1>2, <1>4
  <1>6. /\ IsFiniteSet(UNION {{t} \X G[t] : t \in Runs})
        /\ Cardinality(UNION {{t} \X G[t] : t \in Runs}) + Cardinality(F[s])
              = Cardinality(UNION {{t} \X F[t] : t \in Runs}) + Cardinality(G[s])
    BY <1>1, <1>4, <1>5, TaggedStep
  <1> QED BY <1>2, <1>3, <1>6

\* A step that leaves the lists and the history as they are, and takes a run at most
\* from one place outside of a batch to another.
LEMMA CountFrame ==
    ASSUME CountInv, UNCHANGED <<queue, use, pushes, stranded>>, overlapped => overlapped',
           \A s \in Runs, u \in Users : MovedBy(s, u)' = MovedBy(s, u)
    PROVE  CountInv'
  <1>1. \A u \in Users : Waiting(u)' = Waiting(u) /\ Moved(u)' = Moved(u)
    BY DEF Waiting, Moved
  <1> QED BY <1>1 DEF CountInv, EntriesConserved

LEMMA InitCount == ASSUME Init PROVE CountInv
  <1>1. ASSUME NEW u \in Users PROVE Waiting(u) = {} /\ Moved(u) = {} /\ Places(use, u) = {}
    <2>1. Waiting(u) = {} /\ Places(use, u) = {}
      BY DEF Init, Waiting, Places
    <2>2. Moved(u) = {}
      BY DEF Init, Moved, MovedBy, Idle
    <2> QED BY <2>1, <2>2
  <1>2. \A u \in Users : pushes[u] = 0 /\ stranded[u] = 0
    BY DEF Init
  <1> QED BY <1>1, <1>2, FS_EmptySet DEF CountInv, EntriesConserved

\* The user who is queued has one place and one push more.
LEMMA PushCount ==
    ASSUME IndInv, CountInv, NEW r \in Requests, Push(r) PROVE CountInv'
  <1>1. PICK v \in Users, i \in Indices : v = UserOf(r) /\ i = IdxOf(r)
    BY RequestType DEF Push
  <1>2. /\ queue' = [queue EXCEPT ![i] = Append(queue[i], v)]
        /\ pushes' = [pushes EXCEPT ![v] = pushes[v] + 1]
        /\ UNCHANGED <<use, run, stranded, overlapped>>
    BY <1>1 DEF Push
  <1>3. /\ queue \in [Indices -> Seq(Users)] /\ use \in Seq(Users)
        /\ pushes \in [Users -> Nat] /\ stranded \in [Users -> Nat]
    BY DEF IndInv, TypeOK
  <1>4. queue'[i] = Append(queue[i], v) /\ queue'[i] \in Seq(Users)
        /\ \A j \in Indices \ {i} : queue'[j] = queue[j]
    BY <1>2, <1>3
  <1>5. ASSUME NEW u \in Users
        PROVE  /\ IsFiniteSet(Waiting(u)') /\ Moved(u)' = Moved(u)
               /\ Cardinality(Waiting(u)') - pushes'[u] = Cardinality(Waiting(u)) - pushes[u]
               /\ pushes'[u] \in Nat /\ Cardinality(Waiting(u)') \in Nat
    <2>1. /\ IsFiniteSet(Waiting(u)')
          /\ Cardinality(Waiting(u)') + Cardinality(Places(queue[i], u))
                = Cardinality(Waiting(u)) + Cardinality(Places(queue'[i], u))
      BY <1>4, WaitingStep
    <2>2. Cardinality(Places(queue'[i], u))
             = Cardinality(Places(queue[i], u)) + IF u = v THEN 1 ELSE 0
      BY <1>3, <1>4, PlacesAppend
    <2>3. pushes'[u] = pushes[u] + IF u = v THEN 1 ELSE 0
      BY <1>2, <1>3
    <2>4. /\ Cardinality(Waiting(u)') \in Nat /\ Cardinality(Waiting(u)) \in Nat
          /\ Cardinality(Places(queue[i], u)) \in Nat /\ pushes[u] \in Nat
      BY <1>3, <2>1, PlacesFinite, FS_CardinalityType DEF CountInv
    <2>5. Moved(u)' = Moved(u)
      BY <1>2 DEF Moved, MovedBy
    <2> QED BY <2>1, <2>2, <2>3, <2>4, <2>5
  <1>6. ASSUME ~ overlapped, NEW u \in Users
        PROVE  Cardinality(Waiting(u)') + Cardinality(Places(use, u))
                  = pushes'[u] + stranded[u] + Cardinality(Moved(u))
    <2>1. Cardinality(Waiting(u)) + Cardinality(Places(use, u))
             = pushes[u] + stranded[u] + Cardinality(Moved(u))
      BY <1>6 DEF CountInv, EntriesConserved
    <2>2. /\ Cardinality(Waiting(u)) \in Nat /\ Cardinality(Moved(u)) \in Nat
          /\ Cardinality(Places(use, u)) \in Nat /\ pushes[u] \in Nat /\ stranded[u] \in Nat
      BY <1>3, PlacesFinite, FS_CardinalityType DEF CountInv
    <2> QED BY <1>5, <2>1, <2>2
  <1> QED BY <1>2, <1>5, <1>6 DEF CountInv, EntriesConserved

\* Whoever is admitted has one place more in the use list, and one in what the run
\* has moved.
LEMMA AdmitCount ==
    ASSUME IndInv, CountInv, NEW s \in Runs, Admit(s) PROVE CountInv'
  <1>1. PICK w \in RunStates : w = run[s]
    BY DEF IndInv, TypeOK, RunStates
  <1>2. /\ w.pushed \in Nat /\ w.batch \in Seq(Users) /\ Len(w.batch) \in Nat
        /\ w.pushed < Len(w.batch)
    <2>1. w.pushed < Len(w.batch)
      BY <1>1 DEF IndInv, TypeOK, Admit
    <2> QED BY <2>1 DEF RunStates
  <1>3. PICK v \in Users : v = w.batch[w.pushed + 1]
    BY <1>2
  <1>4. /\ use' = Append(use, v)
        /\ UNCHANGED <<queue, pushes, stranded, overlapped>>
    BY <1>1, <1>3 DEF Admit
  <1>5. /\ run'[s].pushed = w.pushed + 1 /\ run'[s].batch = w.batch
        /\ \A t \in Runs \ {s} : run'[t] = run[t]
    <2>1. run \in [Runs -> RunStates]
      BY DEF IndInv, TypeOK, RunStates
    <2> QED BY <1>1, <2>1 DEF Admit, RunStates
  <1>6. /\ use \in Seq(Users) /\ pushes \in [Users -> Nat] /\ stranded \in [Users -> Nat]
    BY DEF IndInv, TypeOK
  <1>7. ASSUME NEW u \in Users
        PROVE  /\ IsFiniteSet(MovedBy(s, u)')
               /\ Cardinality(MovedBy(s, u)')
                     = Cardinality(MovedBy(s, u)) + IF u = v THEN 1 ELSE 0
    <2>1. IsFiniteSet(MovedBy(s, u)) /\ Cardinality(MovedBy(s, u)) \in Nat
      BY MovedByType
    <2>2. MovedBy(s, u) = {k \in 1 .. w.pushed : w.batch[k] = u}
      BY <1>1 DEF MovedBy
    <2>3. MovedBy(s, u)' = {k \in 1 .. w.pushed + 1 : w.batch[k] = u}
      BY <1>5 DEF MovedBy
    <2>4. w.pushed + 1 \notin MovedBy(s, u)
      BY <1>2, <2>2
    <2>5. CASE u = v
      <3>1. MovedBy(s, u)' = MovedBy(s, u) \cup {w.pushed + 1}
        BY <1>2, <1>3, <2>2, <2>3, <2>5
      <3> QED BY <2>1, <2>4, <2>5, <3>1, FS_AddElement
    <2>6. CASE u # v
      <3>1. MovedBy(s, u)' = MovedBy(s, u)
        BY <1>2, <1>3, <2>2, <2>3, <2>6
      <3> QED BY <2>1, <2>6, <3>1
    <2> QED BY <2>5, <2>6
  <1>8. ASSUME NEW u \in Users
        PROVE  /\ IsFiniteSet(Moved(u)') /\ Waiting(u)' = Waiting(u)
               /\ ~ overlapped => Cardinality(Waiting(u)) + Cardinality(Places(use', u))
                                     = pushes[u] + stranded[u] + Cardinality(Moved(u)')
    <2>1. /\ IsFiniteSet(Moved(u)')
          /\ Cardinality(Moved(u)') + Cardinality(MovedBy(s, u))
                = Cardinality(Moved(u)) + Cardinality(MovedBy(s, u)')
      BY <1>5, <1>7, MovedStep
    <2>2. Cardinality(Places(use', u))
             = Cardinality(Places(use, u)) + IF u = v THEN 1 ELSE 0
      BY <1>4, <1>6, PlacesAppend
    <2>3. /\ Cardinality(Waiting(u)) \in Nat /\ Cardinality(Moved(u)) \in Nat
          /\ Cardinality(Moved(u)') \in Nat /\ Cardinality(MovedBy(s, u)) \in Nat
          /\ Cardinality(Places(use, u)) \in Nat /\ pushes[u] \in Nat /\ stranded[u] \in Nat
      BY <1>6, <2>1, MovedByType, PlacesFinite, FS_CardinalityType DEF CountInv
    <2>4. ~ overlapped => Cardinality(Waiting(u)) + Cardinality(Places(use, u))
                             = pushes[u] + stranded[u] + Cardinality(Moved(u))
      BY DEF CountInv, EntriesConserved
    <2>5. Waiting(u)' = Waiting(u)
      BY <1>4 DEF Waiting
    <2>6. PICK d \in {0, 1} : d = IF u = v THEN 1 ELSE 0
      OBVIOUS
    <2>7. Cardinality(MovedBy(s, u)') = Cardinality(MovedBy(s, u)) + d
      BY <1>7, <2>6
    <2>8. Cardinality(Moved(u)') = Cardinality(Moved(u)) + d
      BY <2>1, <2>3, <2>6, <2>7
    <2>9. Cardinality(Places(use', u)) = Cardinality(Places(use, u)) + d
      BY <2>2, <2>6
    <2> QED BY <2>1, <2>3, <2>4, <2>5, <2>8, <2>9
  <1> QED BY <1>4, <1>8 DEF CountInv, EntriesConserved

\* What a run has moved leaves its queue with the trim: the batch was the front of the
\* queue, and the run had pushed all of it.
LEMMA TrimCount ==
    ASSUME IndInv, CountInv, NEW s \in Runs, Trim(s) PROVE CountInv'
  <1>1. PICK w \in RunStates : w = run[s]
    BY DEF IndInv, TypeOK, RunStates
  <1>2. PICK n \in Nat, i \in Indices : n = Len(w.batch) /\ i = w.idx
    BY DEF RunStates
  <1>3. /\ queue' = [queue EXCEPT ![i] = SubSeq(queue[i], n + 1, Len(queue[i]))]
        /\ UNCHANGED <<use, pushes, stranded, overlapped>>
    BY <1>1, <1>2 DEF Trim
  <1>4. /\ queue \in [Indices -> Seq(Users)] /\ run \in [Runs -> RunStates]
        /\ use \in Seq(Users) /\ pushes \in [Users -> Nat] /\ stranded \in [Users -> Nat]
    BY DEF IndInv, TypeOK, RunStates
  <1>5. PICK q \in Seq(Users) : q = queue[i]
    BY <1>4
  <1>6. /\ queue'[i] = SubSeq(q, n + 1, Len(q)) /\ queue'[i] \in Seq(Users)
        /\ \A j \in Indices \ {i} : queue'[j] = queue[j]
    <2>1. queue'[i] = SubSeq(q, n + 1, Len(q))
      BY <1>3, <1>4, <1>5
    <2>2. SubSeq(q, n + 1, Len(q)) \in Seq(Users)
      BY RestOfQueue
    <2> QED BY <1>3, <1>4, <2>1, <2>2
  <1>7. run'[s].pushed = 0 /\ \A t \in Runs \ {s} : run'[t] = run[t]
    BY TrimEndsBatch
  <1>8. ASSUME NEW u \in Users
        PROVE  /\ IsFiniteSet(Waiting(u)') /\ IsFiniteSet(Moved(u)')
               /\ ~ overlapped => Cardinality(Waiting(u)') + Cardinality(Places(use, u))
                                     = pushes[u] + stranded[u] + Cardinality(Moved(u)')
    <2>1. MovedBy(s, u)' = {}
      BY <1>7 DEF MovedBy
    <2>2. /\ IsFiniteSet(Moved(u)')
          /\ Cardinality(Moved(u)') + Cardinality(MovedBy(s, u))
                = Cardinality(Moved(u)) + Cardinality(MovedBy(s, u)')
      BY <1>7, <2>1, FS_EmptySet, MovedStep
    <2>3. /\ IsFiniteSet(Waiting(u)')
          /\ Cardinality(Waiting(u)') + Cardinality(Places(q, u))
                = Cardinality(Waiting(u)) + Cardinality(Places(queue'[i], u))
      BY <1>5, <1>6, WaitingStep
    <2>4. /\ Cardinality(Waiting(u)) \in Nat /\ Cardinality(Moved(u)) \in Nat
          /\ Cardinality(Moved(u)') \in Nat /\ Cardinality(MovedBy(s, u)) \in Nat
          /\ Cardinality(Waiting(u)') \in Nat /\ Cardinality(Places(queue'[i], u)) \in Nat
          /\ Cardinality(Places(use, u)) \in Nat /\ pushes[u] \in Nat /\ stranded[u] \in Nat
      BY <1>4, <1>6, <2>2, <2>3, MovedByType, PlacesFinite, FS_CardinalityType DEF CountInv
    <2>5. ASSUME ~ overlapped
          PROVE  Cardinality(Waiting(u)') + Cardinality(Places(use, u))
                    = pushes[u] + stranded[u] + Cardinality(Moved(u)')
      <3>1. /\ w.pushed = n /\ n <= Len(q)
            /\ \A k \in 1 .. n : q[k] = w.batch[k]
        BY <1>1, <1>2, <1>5, <2>5 DEF IndInv, RunInv, Trim
      <3>2. MovedBy(s, u) = {k \in 1 .. n : q[k] = u}
        BY <1>1, <3>1 DEF MovedBy
      <3>3. Cardinality(Places(q, u))
               = Cardinality(Places(queue'[i], u)) + Cardinality(MovedBy(s, u))
        BY <1>6, <3>1, <3>2, PlacesTrimmed
      <3>4. Cardinality(Waiting(u)) + Cardinality(Places(use, u))
               = pushes[u] + stranded[u] + Cardinality(Moved(u))
        BY <2>5 DEF CountInv, EntriesConserved
      <3>5. Cardinality(MovedBy(s, u)') = 0
        BY <2>1, FS_EmptySet
      <3>6. Cardinality(Moved(u)') + Cardinality(MovedBy(s, u)) = Cardinality(Moved(u))
        BY <2>2, <2>4, <3>5
      <3>7. Cardinality(Waiting(u)') + Cardinality(MovedBy(s, u)) = Cardinality(Waiting(u))
        BY <2>3, <2>4, <3>3
      <3>8. PICK w0 \in Nat, w1 \in Nat :
               w0 = Cardinality(Waiting(u)) /\ w1 = Cardinality(Waiting(u)')
        BY <2>4
      <3>9. PICK d \in Nat, m \in Nat :
               d = Cardinality(MovedBy(s, u)) /\ m = Cardinality(Moved(u)')
        BY <2>4
      <3>10. PICK e \in Nat : e = Cardinality(Places(use, u))
        BY <2>4
      <3>11. PICK p \in Nat, r \in Nat : p = pushes[u] /\ r = stranded[u]
        BY <2>4
      <3>12. w1 + d = w0
        BY <3>7, <3>8, <3>9
      <3>13. Cardinality(Moved(u)) = m + d
        BY <3>6, <3>9
      <3>14. w0 + e = p + r + (m + d)
        BY <3>4, <3>8, <3>10, <3>11, <3>13
      <3>15. w1 + e = p + r + m
        BY <3>12, <3>14
      <3> QED BY <3>8, <3>9, <3>10, <3>11, <3>15
    <2> QED BY <2>2, <2>3, <2>5
  <1> QED BY <1>3, <1>8 DEF CountInv, EntriesConserved

\* A run that fails leaves what it has moved in both lists, ...
LEMMA RunFailsCount ==
    ASSUME IndInv, CountInv, NEW s \in Runs, RunFails(s) PROVE CountInv'
  <1>1. /\ run' = [run EXCEPT ![s] = Idle]
        /\ stranded' = [u \in Users |-> stranded[u] + Cardinality(MovedBy(s, u))]
        /\ UNCHANGED <<queue, use, pushes, overlapped>>
    BY DEF RunFails
  <1>2. /\ run \in [Runs -> RunStates]
        /\ use \in Seq(Users) /\ pushes \in [Users -> Nat] /\ stranded \in [Users -> Nat]
    BY DEF IndInv, TypeOK, RunStates
  <1>3. run'[s].pushed = 0 /\ \A t \in Runs \ {s} : run'[t] = run[t]
    BY <1>1, <1>2, IdleIsIdle
  <1>4. ASSUME NEW u \in Users
        PROVE  /\ Waiting(u)' = Waiting(u) /\ IsFiniteSet(Moved(u)')
               /\ stranded'[u] + Cardinality(Moved(u)')
                     = stranded[u] + Cardinality(Moved(u))
               /\ stranded'[u] \in Nat /\ Cardinality(Moved(u)') \in Nat
    <2>1. MovedBy(s, u)' = {}
      BY <1>3 DEF MovedBy
    <2>2. /\ IsFiniteSet(Moved(u)')
          /\ Cardinality(Moved(u)') + Cardinality(MovedBy(s, u))
                = Cardinality(Moved(u)) + Cardinality(MovedBy(s, u)')
      BY <1>3, <2>1, FS_EmptySet, MovedStep
    <2>3. Cardinality(MovedBy(s, u)') = 0
      BY <2>1, FS_EmptySet
    <2>4. /\ Cardinality(Moved(u)) \in Nat /\ Cardinality(Moved(u)') \in Nat
          /\ Cardinality(MovedBy(s, u)) \in Nat /\ stranded[u] \in Nat
      BY <1>2, <2>2, MovedByType, FS_CardinalityType DEF CountInv
    <2>5. stranded'[u] = stranded[u] + Cardinality(MovedBy(s, u))
      BY <1>1
    <2>6. Waiting(u)' = Waiting(u)
      BY <1>1 DEF Waiting
    <2> QED BY <2>2, <2>3, <2>4, <2>5, <2>6
  <1>5. ASSUME ~ overlapped, NEW u \in Users
        PROVE  Cardinality(Waiting(u)) + Cardinality(Places(use, u))
                  = pushes[u] + stranded'[u] + Cardinality(Moved(u)')
    <2>1. Cardinality(Waiting(u)) + Cardinality(Places(use, u))
             = pushes[u] + stranded[u] + Cardinality(Moved(u))
      BY <1>5 DEF CountInv, EntriesConserved
    <2>2. /\ pushes[u] \in Nat /\ stranded[u] \in Nat /\ Cardinality(Moved(u)) \in Nat
          /\ Cardinality(Waiting(u)) \in Nat /\ Cardinality(Places(use, u)) \in Nat
      BY <1>2, PlacesFinite, FS_CardinalityType DEF CountInv
    <2> QED BY <1>4, <2>1, <2>2
  <1> QED BY <1>1, <1>4, <1>5 DEF CountInv, EntriesConserved

\* ... and a crash does so with what all runs have moved.
LEMMA CrashCount == ASSUME IndInv, CountInv, Crash PROVE CountInv'
  <1>1. /\ run' = [s \in Runs |-> Idle]
        /\ stranded' = [u \in Users |-> stranded[u] + Cardinality(Moved(u))]
        /\ UNCHANGED <<queue, use, pushes, overlapped>>
    BY DEF Crash
  <1>2. ASSUME NEW u \in Users
        PROVE  /\ Moved(u)' = {} /\ Waiting(u)' = Waiting(u)
               /\ stranded'[u] = stranded[u] + Cardinality(Moved(u))
    <2>1. \A s \in Runs : MovedBy(s, u)' = {}
      BY <1>1 DEF MovedBy, Idle
    <2> QED BY <1>1, <2>1 DEF Moved, Waiting
  <1>3. \A u \in Users : pushes[u] + stranded[u] + Cardinality(Moved(u)) \in Nat
                         /\ pushes[u] \in Nat /\ stranded[u] \in Nat
                         /\ Cardinality(Moved(u)) \in Nat
    BY FS_CardinalityType DEF IndInv, TypeOK, CountInv
  <1>4. IsFiniteSet({}) /\ Cardinality({}) = 0
    BY FS_EmptySet
  <1>5. ASSUME ~ overlapped, NEW u \in Users
        PROVE  Cardinality(Waiting(u)) + Cardinality(Places(use, u))
                  = pushes[u] + stranded'[u] + 0
    <2>1. Cardinality(Waiting(u)) + Cardinality(Places(use, u))
             = pushes[u] + stranded[u] + Cardinality(Moved(u))
      BY <1>5 DEF CountInv, EntriesConserved
    <2> QED BY <1>2, <1>3, <2>1
  <1>6. \A u \in Users : IsFiniteSet(Waiting(u)') /\ IsFiniteSet(Moved(u)')
    BY <1>2, <1>4 DEF CountInv
  <1> QED BY <1>1, <1>2, <1>4, <1>5, <1>6 DEF CountInv, EntriesConserved

\* Reading moves nobody.
LEMMA ReadCount ==
    ASSUME IndInv, CountInv, NEW s \in Runs, Fire(s) \/ ReadBatch(s) PROVE CountInv'
  <1>1. /\ run[s].pushed = 0 /\ run'[s].pushed = 0
        /\ \A t \in Runs \ {s} : run'[t] = run[t]
    BY ReadPushesNobody
  <1>2. \A t \in Runs, u \in Users : MovedBy(t, u)' = MovedBy(t, u)
    <2> SUFFICES ASSUME NEW t \in Runs, NEW u \in Users
                 PROVE  MovedBy(t, u)' = MovedBy(t, u)
      OBVIOUS
    <2>1. CASE t = s
      BY <1>1, <2>1 DEF MovedBy
    <2>2. CASE t # s
      BY <1>1, <2>2 DEF MovedBy
    <2> QED BY <2>1, <2>2
  <1>3. UNCHANGED <<queue, use, pushes, stranded>>
    BY DEF Fire, ReadBatch
  <1>4. overlapped => overlapped'
    <2>1. CASE Fire(s)
      BY <2>1 DEF Fire
    <2>2. CASE ReadBatch(s)
      BY <2>2 DEF ReadBatch
    <2> QED BY <2>1, <2>2
  <1> QED BY <1>2, <1>3, <1>4, CountFrame

LEMMA NextCount == ASSUME IndInv, CountInv, Next PROVE CountInv'
  <1>1. CASE UNCHANGED <<queue, use, run, pushes, stranded, overlapped>>
    <2>1. \A s \in Runs, u \in Users : MovedBy(s, u)' = MovedBy(s, u)
      BY <1>1 DEF MovedBy
    <2> QED BY <1>1, <2>1, CountFrame
  <1>2. ASSUME NEW i \in Uuids, \/ Create(i) \/ FindUser(i) \/ StoreEntry(i)
                                \/ IssueFails(i) \/ Expire(i)
        PROVE  CountInv'
    BY <1>1, <1>2 DEF Create, FindUser, StoreEntry, IssueFails, Expire
  <1>3. ASSUME NEW r \in Requests, Arrive(r) \/ Refuse(r) \/ Advance(r) \/ CommandFails(r)
        PROVE  CountInv'
    <2>1. CASE Push(r)
      BY <2>1, PushCount
    <2>2. CASE \/ Arrive(r) \/ Refuse(r) \/ GetToken(r) \/ LookupUse(r) \/ LookupQueue(r)
               \/ NewPosition(r) \/ StoreToken(r) \/ CommandFails(r)
      BY <1>1, <2>2 DEF Arrive, Refuse, GetToken, LookupUse, LookupQueue, NewPosition,
         StoreToken, CommandFails
    <2> QED BY <1>3, <2>1, <2>2 DEF Advance
  <1>4. ASSUME NEW s \in Runs, Fire(s) \/ Move(s) \/ RunFails(s)
        PROVE  CountInv'
    BY <1>4, ReadCount, AdmitCount, TrimCount, RunFailsCount DEF Move
  <1>5. CASE Restart
    BY <1>1, <1>5 DEF Restart
  <1> QED BY <1>2, <1>3, <1>4, <1>5, CrashCount DEF Next

LEMMA StutterCount == ASSUME CountInv, UNCHANGED vars PROVE CountInv'
  <1>1. \A s \in Runs, u \in Users : MovedBy(s, u)' = MovedBy(s, u)
    BY DEF MovedBy, vars
  <1> QED BY <1>1, CountFrame DEF vars

\* Every reachable state satisfies the inductive invariant and the count of the places.
THEOREM Inductive == Spec => [](IndInv /\ CountInv)
  <1>1. Init => IndInv /\ CountInv
    BY InitInd, InitCount
  <1>2. IndInv /\ CountInv /\ [Next]_vars => IndInv' /\ CountInv'
    BY NextInd, StutterInd, NextCount, StutterCount
  <1> QED BY <1>1, <1>2, PTL DEF Spec

-----------------------------------------------------------------------------
(* The properties.                                                          *)

\* Every variable keeps its type; no run pushes more users than it has read.
THEOREM TypeCorrect == Spec => []TypeOK
  <1>1. IndInv => TypeOK
    BY DEF IndInv
  <1> QED BY <1>1, Inductive, PTL

\* Without overlapping runs the lists hold each user as often as the guard queued it,
\* but for the copies between the pushes of a batch and its trim and those a fault left.
THEOREM EntriesAreConserved == Spec => []EntriesConserved
  <1>1. CountInv => EntriesConserved
    BY DEF CountInv
  <1> QED BY <1>1, Inductive, PTL

\* The guard queues a user twice only when another request or a run came between
\* its lookups and its push.
THEOREM SecondEntriesAreRaced == Spec => []SecondEntryIsRaced
  <1>1. IndInv => SecondEntryIsRaced
    BY DEF IndInv, OvertakenInv, SecondEntryIsRaced
  <1> QED BY <1>1, Inductive, PTL

\* Without overlapping runs nobody falls behind the position in their new token.
THEOREM PositionsHold == Spec => []ToldPositionHolds
  <1>1. IndInv => ToldPositionHolds
    <2> SUFFICES ASSUME IndInv, NEW r \in Requests, reply[r] = "deny", told[r] > 0,
                        ~ overlapped, ~ Admitted(UserOf(r))
                 PROVE  Position(UserOf(r), IdxOf(r)) \in 1 .. told[r]
      BY DEF ToldPositionHolds
    <2>1. queue[IdxOf(r)] \in Seq(Users) /\ told[r] \in Nat
      BY RequestType DEF IndInv, TypeOK
    <2>2. \E k \in 1 .. Len(queue[IdxOf(r)]) :
             k <= told[r] /\ queue[IdxOf(r)][k] = UserOf(r)
      BY DEF IndInv, ToldInv, Within
    <2> QED BY <2>1, <2>2, PositionWithin
  <1> QED BY <1>1, Inductive, PTL

\* Without overlapping runs, everybody ahead of a user in the queue is in the use
\* list before the user is.
LEMMA AdmitInOrder ==
    ASSUME IndInv, Next, NEW s \in Runs,
           Len(use') > Len(use), run'[s] # run[s], ~ overlapped,
           NEW k \in 1 .. Position(use'[Len(use')], run[s].idx) - 1
    PROVE  Admitted(queue[run[s].idx][k])
  <1>1. use \in Seq(Users) /\ run \in [Runs -> RunStates]
    BY DEF IndInv, TypeOK, RunStates
  <1>2. use' # use
    <2>1. Len(use) \in Nat
      BY <1>1
    <2> QED BY <2>1
  <1>3. PICK t \in Runs : Admit(t)
    BY <1>2 DEF Next, Create, FindUser, StoreEntry, IssueFails, Expire, Arrive, Refuse,
       Advance, GetToken, LookupUse, LookupQueue, Push, NewPosition, StoreToken,
       CommandFails, Fire, Move, ReadBatch, Trim, RunFails, Crash, Restart
  <1>4. t = s
    <2>1. \A z \in Runs \ {t} : run'[z] = run[z]
      BY <1>1, <1>3 DEF Admit
    <2> QED BY <2>1
  <1>5. PICK w \in RunStates : w = run[s]
    BY <1>1
  <1>6. PICK i \in Indices, q \in Seq(Users) : i = w.idx /\ q = queue[i]
    BY DEF IndInv, TypeOK, RunStates
  <1>7. /\ w.pushed \in Nat /\ w.batch \in Seq(Users) /\ Len(w.batch) \in Nat
        /\ w.pushed < Len(w.batch) /\ w.pc = "admit"
    <2>1. w.pc = "admit"
      BY <1>3, <1>4, <1>5 DEF Admit
    <2>2. w.pushed < Len(w.batch)
      BY <1>5, <2>1 DEF IndInv, TypeOK
    <2> QED BY <2>1, <2>2 DEF RunStates
  <1>8. PICK u \in Users : u = w.batch[w.pushed + 1]
    BY <1>7
  <1>9. use'[Len(use')] = u
    <2>1. use' = Append(use, u)
      BY <1>3, <1>4, <1>5, <1>8 DEF Admit
    <2> QED BY <1>1, <2>1, AppendProperties
  <1>10. /\ Len(w.batch) <= Len(q) /\ Len(q) \in Nat
         /\ \A j \in 1 .. Len(w.batch) : q[j] = w.batch[j]
         /\ \A j \in 1 .. w.pushed : Admitted(w.batch[j])
    BY <1>5, <1>6, <1>7 DEF IndInv, RunInv
  <1>11. w.pushed + 1 \in 1 .. Len(q) /\ q[w.pushed + 1] = u
    BY <1>7, <1>8, <1>10
  <1>12. Position(u, i) \in 1 .. w.pushed + 1
    BY <1>6, <1>11, PositionMeaning
  <1>13. k \in 1 .. w.pushed
    BY <1>5, <1>6, <1>7, <1>9, <1>12
  <1>14. q[k] = w.batch[k] /\ Admitted(w.batch[k])
    BY <1>7, <1>10, <1>13
  <1> QED BY <1>5, <1>6, <1>14

\* Users are admitted in the order of their queue.
THEOREM AdmissionInOrder == Spec => AdmittedInOrder
  <1>1. IndInv /\ [Next]_vars => [\A s \in Runs : KeepsOrder(s)]_vars
    <2> SUFFICES ASSUME IndInv, Next, NEW s \in Runs PROVE KeepsOrder(s)
      OBVIOUS
    <2> QED BY AdmitInOrder DEF KeepsOrder
  <1> QED BY <1>1, Inductive, PTL DEF Spec, AdmittedInOrder

-----------------------------------------------------------------------------
(* A list in two parts: its first g places and the others.                  *)

\* What is appended to the list is appended to the back part.
LEMMA FrontAndBackAppend ==
    ASSUME NEW q \in Seq(Users), NEW v \in Users, NEW g \in Nat, g <= Len(q)
    PROVE  /\ SubSeq(Append(q, v), g + 1, Len(Append(q, v))) = Append(SubSeq(q, g + 1, Len(q)), v)
           /\ SubSeq(Append(q, v), 1, g) = SubSeq(q, 1, g)
  <1> DEFINE a == Append(q, v)
  <1>1. /\ a \in Seq(Users) /\ Len(a) = Len(q) + 1 /\ Len(q) \in Nat
        /\ \A k \in 1 .. Len(q) : a[k] = q[k]
        /\ a[Len(q) + 1] = v
    BY AppendProperties
  <1> HIDE DEF a
  <1>2. SubSeq(a, g + 1, Len(a)) = Append(SubSeq(q, g + 1, Len(q)), v)
    <2> DEFINE b == SubSeq(q, g + 1, Len(q))
    <2>1. \A k \in g + 1 .. Len(q) : q[k] \in Users
      BY <1>1
    <2>2. /\ b \in Seq(Users) /\ Len(b) = Len(q) - g
          /\ \A k \in 1 .. Len(q) - g : b[k] = q[g + k]
      <3>1. /\ b \in Seq(Users)
            /\ Len(b) = IF g + 1 <= Len(q) THEN Len(q) - (g + 1) + 1 ELSE 0
            /\ \A k \in 1 .. Len(q) - (g + 1) + 1 : b[k] = q[g + 1 + k - 1]
        BY <1>1, <2>1, SubSeqProperties
      <3> HIDE DEF b
      <3> QED BY <1>1, <3>1
    <2>3. \A k \in g + 1 .. Len(a) : a[k] \in Users
      BY <1>1
    <2>4. /\ SubSeq(a, g + 1, Len(a)) \in Seq(Users)
          /\ Len(SubSeq(a, g + 1, Len(a))) = Len(q) - g + 1
          /\ \A k \in 1 .. Len(q) - g + 1 : SubSeq(a, g + 1, Len(a))[k] = a[g + k]
      <3> DEFINE c == SubSeq(a, g + 1, Len(a))
      <3>1. /\ c \in Seq(Users)
            /\ Len(c) = IF g + 1 <= Len(a) THEN Len(a) - (g + 1) + 1 ELSE 0
            /\ \A k \in 1 .. Len(a) - (g + 1) + 1 : c[k] = a[g + 1 + k - 1]
        BY <1>1, <2>3, SubSeqProperties
      <3> HIDE DEF c
      <3>2. /\ c \in Seq(Users) /\ Len(c) = Len(q) - g + 1
            /\ \A k \in 1 .. Len(q) - g + 1 : c[k] = a[g + k]
        BY <1>1, <3>1
      <3> QED BY <3>2 DEF c
    <2> HIDE DEF b
    <2>5. /\ Append(b, v) \in Seq(Users) /\ Len(Append(b, v)) = Len(q) - g + 1
          /\ \A k \in 1 .. Len(q) - g : Append(b, v)[k] = q[g + k]
          /\ Append(b, v)[Len(q) - g + 1] = v
      BY <2>2, AppendProperties
    <2>6. \A k \in 1 .. Len(q) - g + 1 : SubSeq(a, g + 1, Len(a))[k] = Append(b, v)[k]
      <3> SUFFICES ASSUME NEW k \in 1 .. Len(q) - g + 1
                   PROVE  SubSeq(a, g + 1, Len(a))[k] = Append(b, v)[k]
        OBVIOUS
      <3>1. CASE k = Len(q) - g + 1
        <4>1. g + k = Len(q) + 1
          BY <1>1, <3>1
        <4> QED BY <1>1, <2>4, <2>5, <3>1, <4>1
      <3>2. CASE k # Len(q) - g + 1
        <4>1. k \in 1 .. Len(q) - g /\ g + k \in 1 .. Len(q)
          BY <1>1, <3>2
        <4> QED BY <1>1, <2>4, <2>5, <4>1
      <3> QED BY <3>1, <3>2
    <2>7. SubSeq(a, g + 1, Len(a)) = Append(b, v)
      BY <2>4, <2>5, <2>6, SeqEqual
    <2> QED BY <2>7 DEF b
  <1>3. SubSeq(a, 1, g) = SubSeq(q, 1, g)
    <2>1. (\A k \in 1 .. g : a[k] = q[k]) /\ \A k \in 1 .. g : q[k] \in Users
      BY <1>1
    <2>2. \A k \in 1 .. g : a[k] \in Users
      BY <2>1
    <2>3. /\ SubSeq(a, 1, g) \in Seq(Users)
          /\ Len(SubSeq(a, 1, g)) = IF 1 <= g THEN g - 1 + 1 ELSE 0
          /\ \A k \in 1 .. g - 1 + 1 : SubSeq(a, 1, g)[k] = a[1 + k - 1]
      BY <2>2, SubSeqProperties
    <2>4. /\ SubSeq(q, 1, g) \in Seq(Users)
          /\ Len(SubSeq(q, 1, g)) = IF 1 <= g THEN g - 1 + 1 ELSE 0
          /\ \A k \in 1 .. g - 1 + 1 : SubSeq(q, 1, g)[k] = q[1 + k - 1]
      BY <2>1, SubSeqProperties
    <2>5. \A k \in 1 .. g : SubSeq(a, 1, g)[k] = SubSeq(q, 1, g)[k]
      BY <2>1, <2>3, <2>4
    <2>6. Len(SubSeq(a, 1, g)) = g /\ Len(SubSeq(q, 1, g)) = g
      BY <2>3, <2>4
    <2> QED BY <2>3, <2>4, <2>5, <2>6, SeqEqual
  <1> QED BY <1>2, <1>3 DEF a

\* The next place moves from the head of the back part to the end of the front part.
LEMMA FrontAndBackEnter ==
    ASSUME NEW q \in Seq(Users), NEW g \in Nat, g < Len(q)
    PROVE  /\ SubSeq(q, g + 1, Len(q)) # <<>>
           /\ Head(SubSeq(q, g + 1, Len(q))) = q[g + 1]
           /\ Tail(SubSeq(q, g + 1, Len(q))) = SubSeq(q, (g + 1) + 1, Len(q))
           /\ Append(SubSeq(q, 1, g), q[g + 1]) = SubSeq(q, 1, g + 1)
  <1>1. /\ Len(q) \in Nat /\ g + 1 \in 1 .. Len(q) /\ Len(q) \in g + 1 .. Len(q)
        /\ 1 \in 1 .. Len(q) /\ g + 1 \in 1 .. Len(q) /\ (g + 1) - 1 = g
    OBVIOUS
  <1>2. \A k \in 1 .. Len(q) : q[k] \in Users
    OBVIOUS
  <1>3. SubSeq(q, g + 1, Len(q)) # <<>>
    <2>1. \A k \in g + 1 .. Len(q) : q[k] \in Users
      BY <1>1, <1>2
    <2>2. Len(SubSeq(q, g + 1, Len(q))) = IF g + 1 <= Len(q) THEN Len(q) - (g + 1) + 1 ELSE 0
      BY <1>1, <2>1, SubSeqProperties
    <2>3. Len(SubSeq(q, g + 1, Len(q))) # 0
      BY <1>1, <2>2
    <2>4. Len(<<>>) = 0
      OBVIOUS
    <2> QED BY <2>3, <2>4
  <1>4. /\ Head(SubSeq(q, g + 1, Len(q))) = q[g + 1]
        /\ Tail(SubSeq(q, g + 1, Len(q))) = SubSeq(q, (g + 1) + 1, Len(q))
    BY <1>1, HeadTailOfSubSeq
  <1>5. SubSeq(q, 1, g + 1) = SubSeq(q, 1, g) \o <<q[g + 1]>>
    <2>1. SubSeq(q, 1, g + 1) = SubSeq(q, 1, (g + 1) - 1) \o <<q[g + 1]>>
      BY <1>1, SubSeqRecursiveSecond
    <2> QED BY <1>1, <2>1
  <1>6. SubSeq(q, 1, g) \in Seq(Users) /\ q[g + 1] \in Users
    <2>1. \A k \in 1 .. g : q[k] \in Users
      BY <1>1, <1>2
    <2> QED BY <1>1, <1>2, <2>1, SubSeqProperties
  <1>7. Append(SubSeq(q, 1, g), q[g + 1]) = SubSeq(q, 1, g) \o <<q[g + 1]>>
    BY <1>6, AppendIsConcat
  <1> QED BY <1>3, <1>4, <1>5, <1>7

-----------------------------------------------------------------------------
(* The component implements WaitingLine.                                    *)

\* What each run adds to the number of users gone from queue i is all that counts.
LEMMA GoneFrame ==
    ASSUME NEW rs, NEW rt, NEW i,
           \A t \in Runs : (IF rs[t].idx = i THEN rs[t].pushed ELSE 0)
                              = (IF rt[t].idx = i THEN rt[t].pushed ELSE 0)
    PROVE  Gone(rs, i) = Gone(rt, i)
  <1>1. {0} \cup {rs[s].pushed : s \in {t \in Runs : rs[t].idx = i}}
           = {0} \cup {rt[s].pushed : s \in {t \in Runs : rt[t].idx = i}}
    OBVIOUS
  <1> QED BY <1>1 DEF Gone

\* With one run at the queue i it is what this run has pushed.
LEMMA GoneOfOne ==
    ASSUME NEW rs, NEW i, NEW s \in Runs, rs[s].idx = i, rs[s].pushed \in Nat,
           \A t \in Runs \ {s} : rs[t].idx = i => rs[t].pushed = 0
    PROVE  Gone(rs, i) = rs[s].pushed
  <1>1. PICK n \in Nat : n = rs[s].pushed
    OBVIOUS
  <1>2. {0} \cup {rs[z].pushed : z \in {t \in Runs : rs[t].idx = i}} = {0, n}
    BY <1>1
  <1>3. Max({0, n}) = n
    <2>1. n \in {0, n} /\ \A y \in {0, n} : n >= y
      OBVIOUS
    <2>2. \A x \in {0, n} : (\A y \in {0, n} : x >= y) => x = n
      OBVIOUS
    <2> QED BY <2>1, <2>2 DEF Max
  <1> QED BY <1>1, <1>2, <1>3 DEF Gone

LEMMA GoneOfNone ==
    ASSUME NEW rs, NEW i, \A t \in Runs : rs[t].idx = i => rs[t].pushed = 0
    PROVE  Gone(rs, i) = 0
  <1>1. {0} \cup {rs[z].pushed : z \in {t \in Runs : rs[t].idx = i}} = {0}
    OBVIOUS
  <1>2. Max({0}) = 0
    BY DEF Max
  <1> QED BY <1>1, <1>2 DEF Gone

\* Without overlapping runs, those who are gone from a queue are at its front, and a
\* run that is in a batch has pushed all of them.
LEMMA GoneIsPushed ==
    ASSUME IndInv, ~ overlapped, NEW i \in Indices
    PROVE  /\ Gone(run, i) \in Nat /\ Gone(run, i) <= Len(queue[i])
           /\ \A s \in Runs : run[s].pc \in {"admit", "trim"} /\ run[s].idx = i =>
                 /\ Gone(run, i) = run[s].pushed
                 /\ \A t \in Runs \ {s} : run[t].idx = i => run[t].pushed = 0
  <1>1. /\ run \in [Runs -> RunStates] /\ queue[i] \in Seq(Users)
        /\ \A s \in Runs : run[s].pushed \in Nat /\ run[s].pushed <= Len(run[s].batch)
    BY DEF IndInv, TypeOK, RunStates
  <1>2. \A t \in Runs : run[t].pc \notin {"admit", "trim"} => run[t].pushed = 0
    BY DEF IndInv, RunInv
  <1>3. ASSUME NEW s \in Runs, run[s].pc \in {"admit", "trim"}, run[s].idx = i
        PROVE  /\ Gone(run, i) = run[s].pushed /\ run[s].pushed <= Len(queue[i])
               /\ \A t \in Runs \ {s} : run[t].idx = i => run[t].pushed = 0
    <2>1. \A t \in Runs \ {s} : run[t].idx = i => run[t].pushed = 0
      BY <1>2, <1>3 DEF IndInv, Apart
    <2>2. Len(run[s].batch) <= Len(queue[i])
      BY <1>3 DEF IndInv, RunInv
    <2>3. Len(run[s].batch) \in Nat /\ Len(queue[i]) \in Nat
      BY <1>1 DEF RunStates
    <2>4. Gone(run, i) = run[s].pushed
      BY <1>1, <1>3, <2>1, GoneOfOne
    <2> QED BY <1>1, <2>1, <2>2, <2>3, <2>4
  <1>4. CASE \E s \in Runs : run[s].pc \in {"admit", "trim"} /\ run[s].idx = i
    BY <1>1, <1>3, <1>4
  <1>5. CASE ~ \E s \in Runs : run[s].pc \in {"admit", "trim"} /\ run[s].idx = i
    <2>1. Gone(run, i) = 0
      BY <1>2, <1>5, GoneOfNone
    <2>2. Len(queue[i]) \in Nat
      BY <1>1
    <2> QED BY <1>5, <2>1, <2>2
  <1> QED BY <1>4, <1>5

\* The lines depend on the queues and on what is gone from each.
LEMMA LineFrame ==
    ASSUME UNCHANGED <<queue, use>>, \A j \in Indices : Gone(run', j) = Gone(run, j)
    PROVE  UNCHANGED Line!lineVars
  BY DEF line, passing, Line!lineVars

\* The part of an updated line that waits, and the part that has entered.
LEMMA LineUpdate ==
    ASSUME NEW i \in Indices, NEW ahead, NEW behind,
           \A j \in Indices \ {i} : queue'[j] = queue[j] /\ Gone(run', j) = Gone(run, j),
           behind = SubSeq(queue'[i], Gone(run', i) + 1, Len(queue'[i])),
           ahead = SubSeq(queue'[i], 1, Gone(run', i))
    PROVE  /\ line' = [line EXCEPT ![i] = behind]
           /\ passing' = [passing EXCEPT ![i] = ahead]
  BY DEF line, passing

\* A push joins the line of its queue.
LEMMA PushJoins ==
    ASSUME IndInv, ~ overlapped, NEW r \in Requests, Push(r)
    PROVE  Line!LineNext
  <1>1. PICK v \in Users, i \in Indices : v = UserOf(r) /\ i = IdxOf(r)
    BY RequestType DEF Push
  <1>2. /\ queue' = [queue EXCEPT ![i] = Append(queue[i], v)]
        /\ UNCHANGED <<use, run>>
    BY <1>1 DEF Push
  <1>3. PICK q \in Seq(Users), g \in Nat :
           q = queue[i] /\ g = Gone(run, i) /\ g <= Len(q)
    BY GoneIsPushed DEF IndInv, TypeOK
  <1>4. /\ queue'[i] = Append(q, v) /\ Gone(run', i) = g
        /\ \A j \in Indices \ {i} : queue'[j] = queue[j] /\ Gone(run', j) = Gone(run, j)
    BY <1>2, <1>3 DEF IndInv, TypeOK
  <1>5. line[i] = SubSeq(q, g + 1, Len(q)) /\ passing[i] = SubSeq(q, 1, g)
    BY <1>3 DEF line, passing
  <1>6. /\ SubSeq(Append(q, v), g + 1, Len(Append(q, v))) = Append(SubSeq(q, g + 1, Len(q)), v)
        /\ SubSeq(Append(q, v), 1, g) = SubSeq(q, 1, g)
    BY <1>3, FrontAndBackAppend
  <1>7. /\ line' = [line EXCEPT ![i] = Append(line[i], v)]
        /\ passing' = [passing EXCEPT ![i] = passing[i]]
    <2>1. /\ Append(line[i], v) = SubSeq(queue'[i], Gone(run', i) + 1, Len(queue'[i]))
          /\ passing[i] = SubSeq(queue'[i], 1, Gone(run', i))
      BY <1>4, <1>5, <1>6
    <2> QED BY <1>4, <2>1, LineUpdate
  <1>8. passing' = passing
    BY <1>7 DEF passing
  <1>9. Line!Join(i, v)
    BY <1>2, <1>7, <1>8 DEF Line!Join
  <1> QED BY <1>9 DEF Line!LineNext

\* An admission takes the first of the line.
LEMMA AdmitEnters ==
    ASSUME IndInv, ~ overlapped, NEW s \in Runs, Admit(s)
    PROVE  Line!LineNext
  <1>1. PICK w \in RunStates : w = run[s]
    BY DEF IndInv, TypeOK, RunStates
  <1>2. PICK i \in Indices, g \in Nat : i = w.idx /\ g = w.pushed
    BY DEF RunStates
  <1>3. PICK q \in Seq(Users) : q = queue[i]
    BY DEF IndInv, TypeOK
  <1>4. /\ Gone(run, i) = g
        /\ \A t \in Runs \ {s} : run[t].idx = i => run[t].pushed = 0
    BY <1>1, <1>2, GoneIsPushed DEF Admit
  <1>5. g < Len(q) /\ q[g + 1] = w.batch[g + 1]
    <2>1. w.pc = "admit" /\ w.batch \in Seq(Users) /\ Len(w.batch) \in Nat
      BY <1>1 DEF Admit, RunStates
    <2>2. g < Len(w.batch)
      BY <1>1, <1>2, <2>1 DEF IndInv, TypeOK
    <2>3. /\ Len(w.batch) <= Len(q)
          /\ \A k \in 1 .. Len(w.batch) : q[k] = w.batch[k]
      BY <1>1, <1>2, <1>3, <2>1 DEF IndInv, RunInv
    <2>4. g + 1 \in 1 .. Len(w.batch) /\ Len(q) \in Nat
      BY <2>1, <2>2
    <2> QED BY <2>1, <2>2, <2>3, <2>4
  <1>6. use' = Append(use, q[g + 1]) /\ queue' = queue
    BY <1>1, <1>2, <1>5 DEF Admit
  <1>7. /\ run'[s].pushed = g + 1 /\ run'[s].idx = i
        /\ \A t \in Runs \ {s} : run'[t] = run[t]
    <2>1. run \in [Runs -> RunStates]
      BY DEF IndInv, TypeOK, RunStates
    <2> QED BY <1>1, <1>2, <2>1 DEF Admit, RunStates
  <1>8. Gone(run', i) = g + 1
    BY <1>4, <1>7, GoneOfOne
  <1>9. \A j \in Indices \ {i} : Gone(run', j) = Gone(run, j)
    BY <1>1, <1>2, <1>7, GoneFrame
  <1>10. line[i] = SubSeq(q, g + 1, Len(q)) /\ passing[i] = SubSeq(q, 1, g)
    BY <1>3, <1>4 DEF line, passing
  <1>11. /\ line[i] # <<>> /\ Head(line[i]) = q[g + 1]
         /\ Tail(line[i]) = SubSeq(q, (g + 1) + 1, Len(q))
         /\ Append(passing[i], q[g + 1]) = SubSeq(q, 1, g + 1)
    BY <1>5, <1>10, FrontAndBackEnter
  <1>12. /\ line' = [line EXCEPT ![i] = Tail(line[i])]
         /\ passing' = [passing EXCEPT ![i] = Append(passing[i], q[g + 1])]
    <2>1. /\ Tail(line[i]) = SubSeq(queue'[i], Gone(run', i) + 1, Len(queue'[i]))
          /\ Append(passing[i], q[g + 1]) = SubSeq(queue'[i], 1, Gone(run', i))
      BY <1>3, <1>6, <1>8, <1>11
    <2>2. \A j \in Indices \ {i} : queue'[j] = queue[j] /\ Gone(run', j) = Gone(run, j)
      BY <1>6, <1>9
    <2> QED BY <2>1, <2>2, LineUpdate
  <1>13. Line!Enter(i)
    BY <1>6, <1>11, <1>12 DEF Line!Enter
  <1> QED BY <1>13 DEF Line!LineNext

\* A trim settles what its run has pushed: the others of the line go on waiting.
LEMMA TrimSettles ==
    ASSUME IndInv, ~ overlapped, NEW s \in Runs, Trim(s)
    PROVE  Line!LineNext
  <1>1. PICK w \in RunStates : w = run[s]
    BY DEF IndInv, TypeOK, RunStates
  <1>2. PICK n \in Nat, i \in Indices : n = Len(w.batch) /\ i = w.idx
    BY DEF RunStates
  <1>3. PICK q \in Seq(Users) : q = queue[i]
    BY DEF IndInv, TypeOK
  <1>4. PICK rest \in Seq(Users) : rest = SubSeq(q, n + 1, Len(q))
    BY RestOfQueue
  <1>5. /\ queue'[i] = rest /\ use' = use
        /\ \A j \in Indices \ {i} : queue'[j] = queue[j]
    <2>1. queue' = [queue EXCEPT ![i] = SubSeq(queue[i], n + 1, Len(queue[i]))]
          /\ use' = use
      BY <1>1, <1>2 DEF Trim
    <2> QED BY <1>3, <1>4, <2>1 DEF IndInv, TypeOK
  <1>6. /\ Gone(run, i) = n
        /\ \A t \in Runs \ {s} : run[t].idx = i => run[t].pushed = 0
    <2>1. w.pc = "trim" /\ w.pushed = n
      BY <1>1, <1>2 DEF Trim, IndInv, RunInv
    <2> QED BY <1>1, <1>2, <2>1, GoneIsPushed
  <1>7. run'[s].pushed = 0 /\ \A t \in Runs \ {s} : run'[t] = run[t]
    BY TrimEndsBatch
  <1>8. Gone(run', i) = 0
    BY <1>6, <1>7, GoneOfNone
  <1>9. \A j \in Indices \ {i} : Gone(run', j) = Gone(run, j)
    BY <1>1, <1>2, <1>7, GoneFrame
  <1>10. line[i] = rest
    BY <1>3, <1>4, <1>6 DEF line
  <1>11. SubSeq(rest, 0 + 1, Len(rest)) = rest /\ SubSeq(rest, 1, 0) = <<>>
    BY SubSeqFull, SubSeqEmpty
  <1>12. /\ line' = [line EXCEPT ![i] = line[i]]
         /\ passing' = [passing EXCEPT ![i] = <<>>]
    <2>1. /\ line[i] = SubSeq(queue'[i], Gone(run', i) + 1, Len(queue'[i]))
          /\ <<>> = SubSeq(queue'[i], 1, Gone(run', i))
      BY <1>5, <1>8, <1>10, <1>11
    <2>2. \A j \in Indices \ {i} : queue'[j] = queue[j] /\ Gone(run', j) = Gone(run, j)
      BY <1>5, <1>9
    <2> QED BY <2>1, <2>2, LineUpdate
  <1>13. line' = line
    BY <1>12 DEF line
  <1>14. Line!Settle(i)
    BY <1>5, <1>12, <1>13 DEF Line!Settle
  <1> QED BY <1>14 DEF Line!LineNext

\* When the runs I lose track of is all that was pushed in some queues, the places in
\* these are taken again.
LEMMA FaultReturns ==
    ASSUME IndInv, ~ overlapped, UNCHANGED <<queue, use>>, NEW I \in SUBSET Indices,
           \A i \in I : Gone(run', i) = 0,
           \A i \in Indices \ I : Gone(run', i) = Gone(run, i)
    PROVE  Line!LineNext
  <1>1. ASSUME NEW i \in I
        PROVE  /\ SubSeq(queue[i], 0 + 1, Len(queue[i])) = passing[i] \o line[i]
               /\ SubSeq(queue[i], 1, 0) = <<>>
    <2>1. PICK q \in Seq(Users), g \in Nat :
             q = queue[i] /\ g = Gone(run, i) /\ g <= Len(q)
      BY GoneIsPushed DEF IndInv, TypeOK
    <2>2. line[i] = SubSeq(q, g + 1, Len(q)) /\ passing[i] = SubSeq(q, 1, g)
      BY <2>1 DEF line, passing
    <2>3. SubSeq(q, 1, g) \o SubSeq(q, g + 1, Len(q)) = SubSeq(q, 1, Len(q))
      <3>1. Len(q) \in Nat
        OBVIOUS
      <3>2. 1 \in 1 .. Len(q) + 1 /\ g \in 1 - 1 .. Len(q) /\ Len(q) \in g .. Len(q)
        BY <2>1, <3>1
      <3> QED BY <3>2, ConcatAdjacentSubSeq
    <2>4. SubSeq(q, 1, 0) = <<>>
      BY SubSeqEmpty
    <2>5. passing[i] \o line[i] = SubSeq(q, 1, Len(q))
      BY <2>2, <2>3
    <2>6. 0 + 1 = 1
      OBVIOUS
    <2> HIDE DEF line, passing
    <2> QED BY <2>1, <2>4, <2>5, <2>6
  <1>2. line' = [i \in Indices |-> IF i \in I THEN passing[i] \o line[i] ELSE line[i]]
    BY <1>1 DEF line
  <1>3. passing' = [i \in Indices |-> IF i \in I THEN <<>> ELSE passing[i]]
    BY <1>1 DEF passing
  <1>4. Line!Return(I)
    BY <1>2, <1>3 DEF Line!Return
  <1> QED BY <1>4 DEF Line!LineNext

LEMMA StepRefines ==
    ASSUME IndInv, ~ overlapped, Next
    PROVE  Line!LineNext \/ UNCHANGED Line!lineVars
  <1>1. CASE UNCHANGED <<queue, use, run>>
    BY <1>1, LineFrame
  <1>2. ASSUME NEW i \in Uuids, \/ Create(i) \/ FindUser(i) \/ StoreEntry(i)
                                \/ IssueFails(i) \/ Expire(i)
        PROVE  Line!LineNext \/ UNCHANGED Line!lineVars
    BY <1>1, <1>2 DEF Create, FindUser, StoreEntry, IssueFails, Expire
  <1>3. ASSUME NEW r \in Requests, Arrive(r) \/ Refuse(r) \/ Advance(r) \/ CommandFails(r)
        PROVE  Line!LineNext \/ UNCHANGED Line!lineVars
    <2>1. CASE Push(r)
      BY <2>1, PushJoins
    <2>2. CASE \/ Arrive(r) \/ Refuse(r) \/ GetToken(r) \/ LookupUse(r) \/ LookupQueue(r)
               \/ NewPosition(r) \/ StoreToken(r) \/ CommandFails(r)
      BY <1>1, <2>2 DEF Arrive, Refuse, GetToken, LookupUse, LookupQueue, NewPosition,
         StoreToken, CommandFails
    <2> QED BY <1>3, <2>1, <2>2 DEF Advance
  <1>4. ASSUME NEW s \in Runs, Fire(s) \/ ReadBatch(s)
        PROVE  UNCHANGED Line!lineVars
    <2>1. /\ run[s].pushed = 0 /\ run'[s].pushed = 0
          /\ \A t \in Runs \ {s} : run'[t] = run[t]
      BY <1>4, ReadPushesNobody
    <2>2. ASSUME NEW j \in Indices PROVE Gone(run', j) = Gone(run, j)
      BY <2>1, GoneFrame
    <2>3. UNCHANGED <<queue, use>>
      BY <1>4 DEF Fire, ReadBatch
    <2> QED BY <2>2, <2>3, LineFrame
  <1>5. ASSUME NEW s \in Runs, RunFails(s)
        PROVE  Line!LineNext \/ UNCHANGED Line!lineVars
    <2>1. /\ run'[s].pushed = 0 /\ \A t \in Runs \ {s} : run'[t] = run[t]
          /\ UNCHANGED <<queue, use>> /\ run[s].idx \in Indices
      BY <1>5, IdleIsIdle DEF RunFails, IndInv, TypeOK
    <2>2. CASE run[s].pc \in {"admit", "trim"}
      <3>1. PICK i \in Indices : i = run[s].idx
        BY <2>1
      <3>2. \A t \in Runs \ {s} : run[t].idx = i => run[t].pushed = 0
        BY <2>2, <3>1, GoneIsPushed
      <3>3. Gone(run', i) = 0
        BY <2>1, <3>2, GoneOfNone
      <3>4. \A j \in Indices \ {i} : Gone(run', j) = Gone(run, j)
        <4> SUFFICES ASSUME NEW j \in Indices \ {i} PROVE Gone(run', j) = Gone(run, j)
          OBVIOUS
        <4>1. \A t \in Runs : (IF run'[t].idx = j THEN run'[t].pushed ELSE 0)
                                 = (IF run[t].idx = j THEN run[t].pushed ELSE 0)
          BY <2>1, <3>1
        <4> QED BY <4>1, GoneFrame
      <3>5. \A j \in {i} : Gone(run', j) = 0
        BY <3>3
      <3>6. {i} \in SUBSET Indices
        OBVIOUS
      <3> QED BY <2>1, <3>4, <3>5, <3>6, FaultReturns
    <2>3. CASE run[s].pc \notin {"admit", "trim"}
      <3>1. run[s].pushed = 0
        BY <2>3 DEF IndInv, RunInv
      <3>2. ASSUME NEW j \in Indices PROVE Gone(run', j) = Gone(run, j)
        BY <2>1, <3>1, GoneFrame
      <3> QED BY <2>1, <3>2, LineFrame
    <2> QED BY <2>2, <2>3
  <1>6. CASE Crash
    <2>1. (\A t \in Runs : run'[t].pushed = 0) /\ UNCHANGED <<queue, use>>
      BY <1>6 DEF Crash, Idle
    <2>2. ASSUME NEW i \in Indices PROVE Gone(run', i) = 0
      BY <2>1, GoneOfNone
    <2> QED BY <2>1, <2>2, FaultReturns
  <1>7. CASE Restart
    BY <1>1, <1>7 DEF Restart
  <1> QED BY <1>2, <1>3, <1>4, <1>5, <1>6, <1>7, AdmitEnters, TrimSettles DEF Next, Move

\* The flag of overlapping runs is never taken back.
LEMMA OverlapStays == ASSUME IndInv, [Next]_vars, overlapped PROVE overlapped'
  <1>1. CASE \E s \in Runs : ReadBatch(s)
    BY <1>1 DEF ReadBatch
  <1>2. CASE UNCHANGED overlapped
    BY <1>2
  <1> QED BY <1>1, <1>2 DEF Next, Create, FindUser, StoreEntry, IssueFails, Expire,
      Arrive, Refuse, Advance, GetToken, LookupUse, LookupQueue, Push, NewPosition,
      StoreToken, CommandFails, Fire, Move, Admit, Trim, RunFails, Crash, Restart, vars,
      history

LEMMA InitRefines == ASSUME Init PROVE Line!LineInit
  <1>1. ASSUME NEW i \in Indices
        PROVE  /\ SubSeq(queue[i], Gone(run, i) + 1, Len(queue[i])) = <<>>
               /\ SubSeq(queue[i], 1, Gone(run, i)) = <<>>
    <2>1. Gone(run, i) = 0
      BY GoneOfNone DEF Init, Idle
    <2>2. queue[i] = <<>> /\ Len(<<>>) = 0
      BY DEF Init
    <2> QED BY <2>1, <2>2, SubSeqEmpty
  <1>2. use = <<>>
    BY DEF Init
  <1> QED BY <1>1, <1>2 DEF line, passing, Line!LineInit

\* Until two runs read the same queue at once, the guard and the scheduler behave like
\* WaitingLine.tla, for any number of requests, runs, users and queues.
THEOREM Refinement == Spec => ImplementsLine
  <1>1. Init => Line!LineInit
    BY InitRefines
  <1>2. IndInv /\ [Next]_vars => [overlapped' \/ Line!LineNext]_(Line!lineVars)
    <2> SUFFICES ASSUME IndInv, [Next]_vars, ~ overlapped'
                 PROVE  Line!LineNext \/ UNCHANGED Line!lineVars
      OBVIOUS
    <2>1. ~ overlapped
      BY OverlapStays
    <2>2. CASE UNCHANGED vars
      BY <2>2, LineFrame DEF vars
    <2> QED BY <2>1, <2>2, StepRefines
  <1> QED BY <1>1, <1>2, Inductive, PTL DEF Spec, ImplementsLine

\* If the cron job never has two runs under way, nothing is left of the condition: the
\* component implements WaitingLine.
THEOREM OneRunIsALine ==
    ASSUME \A s, t \in Runs : s = t
    PROVE  Spec => Line!LineSpec
  <1>1. Init => ~ overlapped
    BY DEF Init
  <1>2. ~ overlapped /\ [Next]_vars => ~ overlapped'
    <2> SUFFICES ASSUME ~ overlapped, [Next]_vars PROVE ~ overlapped'
      OBVIOUS
    <2>1. CASE \E s \in Runs : ReadBatch(s)
      BY <2>1 DEF ReadBatch
    <2>2. CASE UNCHANGED overlapped
      BY <2>2
    <2> QED BY <2>1, <2>2 DEF Next, Create, FindUser, StoreEntry, IssueFails, Expire,
        Arrive, Refuse, Advance, GetToken, LookupUse, LookupQueue, Push, NewPosition,
        StoreToken, CommandFails, Fire, Move, Admit, Trim, RunFails, Crash, Restart, vars,
        history
  <1>3. ~ overlapped' /\ [overlapped' \/ Line!LineNext]_(Line!lineVars)
            => [Line!LineNext]_(Line!lineVars)
    OBVIOUS
  <1> QED BY <1>1, <1>2, <1>3, Refinement, PTL DEF Spec, ImplementsLine, Line!LineSpec
=============================================================================
