---------------------------- MODULE TicketQueue -----------------------------
(***************************************************************************)
(* The waiting queue: UserTokenController and UserTokenService, which       *)
(* issue tokens, UserTokenGuard, which lets a request in or queues its      *)
(* user, and QueueScheduler, which moves queued users to the use list.      *)
(* They share nothing but Redis: the token entries, one list per queue      *)
(* index and the list 'use'.                                                *)
(*                                                                         *)
(* A Redis command is atomic; everything else may happen between two of     *)
(* them.  The cron job starts a run every ten minutes whether or not the    *)
(* one before has ended, so runs may overlap.                               *)
(*                                                                         *)
(* No token of UserTokenService passes the guard, whose keys are others     *)
(* than the service's.  The guard expects an issuer that signs with its     *)
(* keys and knows the queue of a user: External stands for it.              *)
(***************************************************************************)
EXTENDS Integers, Sequences, SequencesExt, FiniteSetsExt, FiniteSets

CONSTANTS
    Requests,      \* the requests that reach the guard over a behaviour
    Runs,          \* runs of the cron job that may be under way together
    Users,         \* user ids
    KnownUsers,    \* those with a row in the user table
    Uuids,         \* the uuids of tokens
    External,      \* those of them whose tokens the external issuer signed
    Holder,        \* the user of each token
    QueueOf,       \* the queueIdx in each external token
    LastIdx,       \* the last queue index that occurs in a token
    BATCH,         \* batchSize
    MAX_CRASHES,   \* bound on the crashes and failed runs of a behaviour
    None           \* no token, no value

Indices == 0 .. LastIdx

\* The secrets of the guard, clientSecretKey and serverSecretKey ...
GuardClient == "userToken-server-secret-key"
GuardServer == "serverToken-client-secret-key"
\* ... and those of UserTokenService.
IssueClient == "userToken-client-secret-key"
IssueServer == "userToken-server-secret-key"
Secrets == {GuardClient, GuardServer, IssueClient, IssueServer}

ASSUME QueueAssumption ==
    /\ LastIdx \in Nat /\ MAX_CRASHES \in Nat /\ BATCH \in Nat \ {0}
    /\ KnownUsers \subseteq Users /\ External \subseteq Uuids
    /\ Holder \in [Uuids -> Users] /\ QueueOf \in [External -> Indices]
    /\ None \notin Secrets

\* The path the guard compares with is a route pattern, never the path of a
\* request for seats.
Paths == {"pattern", "seats"}

VARIABLES
    entry,         \* Redis: the server token under userToken:<uuid>
    misfiled,      \* Redis: the uuids with a token under userToekn:<uuid>
    queue,         \* Redis: the list queue:<idx> of each index
    use,           \* Redis: the list 'use'
    issue,         \* the await each POST /userTokens has reached
    header,        \* the secret that signed the client token of each uuid
    up,            \* is the server process running
    crashes,
    job,           \* the token and the path of each request
    pc,            \* the await each request has reached
    told,          \* the position in the new token of a request, 0 for none
    reply,         \* how the request ended
    run,           \* the state of each run of the scheduler
    \* History, which no action depends on:
    pushes,        \* how often the guard queued each user
    stranded,      \* how often a run left each user in both lists
    overlapped,    \* two runs read the same queue before either trimmed it
    overtaken      \* requests whose user was queued or admitted behind them

redis == <<entry, misfiled, queue, use>>
tokens == <<entry, misfiled, issue, header>>
requests == <<job, pc, told, reply>>
history == <<pushes, stranded, overlapped, overtaken>>
vars == <<redis, issue, header, up, crashes, requests, run, history>>

Idle == [pc |-> "idle", idx |-> 0, remaining |-> 0, batch |-> <<>>, pushed |-> 0]
Active == {"get", "use", "queue", "push", "position", "store"}
NoJob == [uuid |-> None, path |-> "seats"]

UserOf(r) == Holder[job[r].uuid]
IdxOf(r) == QueueOf[job[r].uuid]

\* lpos: the index of the first occurrence, counted from 1.
Queued(u, i) == Contains(queue[i], u)
Admitted(u) == Contains(use, u)
Position(u, i) == SelectInSeq(queue[i], LAMBDA v : v = u)

Init ==
    /\ entry = [i \in Uuids |-> IF i \in External THEN GuardServer ELSE None]
    /\ misfiled = {}
    /\ queue = [i \in Indices |-> <<>>]
    /\ use = <<>>
    /\ issue = [i \in Uuids |-> "none"]
    /\ header = [i \in Uuids |-> IF i \in External THEN GuardClient ELSE None]
    /\ up = TRUE
    /\ crashes = 0
    /\ job = [r \in Requests |-> NoJob]
    /\ pc = [r \in Requests |-> "idle"]
    /\ told = [r \in Requests |-> 0]
    /\ reply = [r \in Requests |-> "none"]
    /\ run = [s \in Runs |-> Idle]
    /\ pushes = [u \in Users |-> 0]
    /\ stranded = [u \in Users |-> 0]
    /\ overlapped = FALSE
    /\ overtaken = {}

-----------------------------------------------------------------------------
(* POST /userTokens.                                                        *)

\* The controller starts the transaction of the use case.
Create(i) ==
    /\ up
    /\ i \notin External
    /\ issue[i] = "none"
    /\ issue' = [issue EXCEPT ![i] = "user"]
    /\ UNCHANGED <<redis, header, up, crashes, requests, run, history>>

IsKnown(u) == u \in KnownUsers

\* user.id: nothing has refused a missing user before, so this is a TypeError.
AfterUser(u) == IF IsKnown(u) THEN "store" ELSE "error"

\* user() tests the promise of the row, which is never null, instead of the row.
FindUser(i) ==
    /\ issue[i] = "user"
    /\ issue' = [issue EXCEPT ![i] = AfterUser(Holder[i])]
    /\ UNCHANGED <<redis, header, up, crashes, requests, run, history>>

\* What the answer offers as a token: its Authorization header prints the body, an
\* object, and is no token; the body holds the client token.
HeaderToken == None
BodyToken == IssueClient

\* The server token is stored under the uuid.  The answer waits for the COMMIT of
\* the transaction, which has written nothing; when the COMMIT fails or the answer
\* is lost, no token is handed out.
StoreEntry(i) ==
    /\ issue[i] = "store"
    /\ issue' = [issue EXCEPT ![i] = "end"]
    /\ entry' = [entry EXCEPT ![i] = IssueServer]
    /\ \E t \in {HeaderToken, BodyToken} : header' = [header EXCEPT ![i] = t]
    /\ UNCHANGED <<misfiled, queue, use, up, crashes, requests, run, history>>

\* The entry reaches its time to live.
Expire(i) ==
    /\ entry[i] # None
    /\ entry' = [entry EXCEPT ![i] = None]
    /\ UNCHANGED <<misfiled, queue, use, issue, header, up, crashes, requests, run,
                   history>>

-----------------------------------------------------------------------------
(* UserTokenGuard.canActivate.                                              *)

\* jwt.verify: the token was signed with this key.
Verified(secret, key) == secret = key

Goto(r, s) == pc' = [pc EXCEPT ![r] = s]
Answer(r, a) ==
    /\ Goto(r, "end")
    /\ reply' = [reply EXCEPT ![r] = a]

\* Requests of the user u that have looked for it already.
Behind(u) == {q \in Requests : pc[q] \in {"queue", "push"} /\ UserOf(q) = u}

\* The header names a token that the client's key verifies.
Arrive(r) ==
    /\ up
    /\ pc[r] = "idle"
    /\ \E i \in Uuids, p \in Paths :
          /\ header[i] # None
          /\ Verified(header[i], GuardClient)
          /\ job' = [job EXCEPT ![r] = [uuid |-> i, path |-> p]]
    /\ Goto(r, "get")
    /\ UNCHANGED <<redis, issue, header, up, crashes, told, reply, run, history>>

\* The header is missing or its token has expired, or the token was signed with
\* another key.  A request has no status(): the refusal is a TypeError.
Refuse(r) ==
    /\ up
    /\ pc[r] = "idle"
    /\ \/ UNCHANGED job
       \/ \E i \in Uuids :
             /\ header[i] # None
             /\ ~ Verified(header[i], GuardClient)
             /\ job' = [job EXCEPT ![r].uuid = i]
    /\ Answer(r, "error")
    /\ UNCHANGED <<redis, issue, header, up, crashes, told, run, history>>

\* The entry of the uuid is missing or does not verify, again a TypeError; or
\* the request goes on, to the queue only if its path is the pattern.
GetToken(r) ==
    LET e == entry[job[r].uuid]
    IN  /\ pc[r] = "get"
        /\ \/ /\ e = None \/ ~ Verified(e, GuardServer)
              /\ Answer(r, "error")
           \/ /\ e # None /\ Verified(e, GuardServer)
              /\ job[r].path = "pattern"
              /\ Goto(r, "use")
              /\ UNCHANGED reply
           \/ /\ e # None /\ Verified(e, GuardServer)
              /\ job[r].path # "pattern"
              /\ Answer(r, "allow")
        /\ UNCHANGED <<redis, issue, header, up, crashes, job, told, run, history>>

\* Mutant: whoever is not admitted is queued.
LookupUseOnly(r) ==
    /\ pc[r] = "use"
    /\ \/ Admitted(UserOf(r)) /\ Answer(r, "allow")
       \/ ~ Admitted(UserOf(r)) /\ Goto(r, "push") /\ UNCHANGED reply
    /\ UNCHANGED <<redis, issue, header, up, crashes, job, told, run, history>>

LookupUse(r) ==
    /\ pc[r] = "use"
    /\ \/ Admitted(UserOf(r)) /\ Answer(r, "allow")
       \/ ~ Admitted(UserOf(r)) /\ Goto(r, "queue") /\ UNCHANGED reply
    /\ UNCHANGED <<redis, issue, header, up, crashes, job, told, run, history>>

\* The position of a user who is queued goes into the body of the request, which
\* nobody is answered with: the caller gets a bare 403.
LookupQueue(r) ==
    /\ pc[r] = "queue"
    /\ \/ Queued(UserOf(r), IdxOf(r)) /\ Answer(r, "deny")
       \/ ~ Queued(UserOf(r), IdxOf(r)) /\ Goto(r, "push") /\ UNCHANGED reply
    /\ UNCHANGED <<redis, issue, header, up, crashes, job, told, run, history>>

\* Mutant: the queue is a stack (lpush).
PushInFront(r) ==
    /\ pc[r] = "push"
    /\ queue' = [queue EXCEPT ![IdxOf(r)] = <<UserOf(r)>> \o @]
    /\ Goto(r, "position")
    /\ pushes' = [pushes EXCEPT ![UserOf(r)] = @ + 1]
    /\ overtaken' = overtaken \cup (Behind(UserOf(r)) \ {r})
    /\ UNCHANGED <<entry, misfiled, use, issue, header, up, crashes, job, told, reply,
                   run, stranded, overlapped>>

Push(r) ==
    /\ pc[r] = "push"
    /\ queue' = [queue EXCEPT ![IdxOf(r)] = Append(@, UserOf(r))]
    /\ Goto(r, "position")
    /\ pushes' = [pushes EXCEPT ![UserOf(r)] = @ + 1]
    /\ overtaken' = overtaken \cup (Behind(UserOf(r)) \ {r})
    /\ UNCHANGED <<entry, misfiled, use, issue, header, up, crashes, job, told, reply,
                   run, stranded, overlapped>>

\* Mutant: the index of lpos is told as it is, counted from 0.
NewPositionFromZero(r) ==
    /\ pc[r] = "position"
    /\ told' = [told EXCEPT ![r] = Max({0, Position(UserOf(r), IdxOf(r)) - 1})]
    /\ header' = [header EXCEPT ![job[r].uuid] = GuardClient]
    /\ Goto(r, "store")
    /\ UNCHANGED <<redis, issue, up, crashes, job, reply, run, history>>

\* lpos answers null for a user who was moved in the meantime, and null + 1 is
\* 1.  The new client token is signed with the client's key.
NewPosition(r) ==
    LET p == Position(UserOf(r), IdxOf(r))
    IN  /\ pc[r] = "position"
        /\ told' = [told EXCEPT ![r] = IF p = 0 THEN 1 ELSE p]
        /\ header' = [header EXCEPT ![job[r].uuid] = GuardClient]
        /\ Goto(r, "store")
        /\ UNCHANGED <<redis, issue, up, crashes, job, reply, run, history>>

\* The new server token goes under a misspelled key, which nobody reads.
StoreToken(r) ==
    /\ pc[r] = "store"
    /\ misfiled' = misfiled \cup {job[r].uuid}
    /\ Answer(r, "deny")
    /\ UNCHANGED <<entry, queue, use, issue, header, up, crashes, job, told, run,
                   history>>

-----------------------------------------------------------------------------
(* QueueScheduler.moveQueueToUseList.                                       *)

\* A run that is about to read the queue i.
AtQueue(i, left) ==
    [pc |-> "range", idx |-> i, remaining |-> left, batch |-> <<>>, pushed |-> 0]

\* A run behind the last queue in use finds only empty lists, for ever: it
\* changes nothing any more and its place is free.
Fire(s) ==
    /\ up
    /\ run[s].pc \in {"idle", "spin"}
    /\ run' = [run EXCEPT ![s] = AtQueue(0, BATCH)]
    /\ UNCHANGED <<redis, issue, header, up, crashes, requests, history>>

\* Mutant: the index is not incremented when the queue is empty.
SameQueue(w, left) == AtQueue(w.idx, left)

NextQueue(w, left) ==
    IF w.idx = LastIdx
    THEN [Idle EXCEPT !.pc = "spin"]
    ELSE AtQueue(w.idx + 1, left)

\* lrange 0 remaining-1.
ReadBatch(s) ==
    LET w == run[s]
        users == SubSeq(queue[w.idx], 1, Min({w.remaining, Len(queue[w.idx])}))
    IN  /\ w.pc = "range"
        /\ run' = [run EXCEPT ![s] =
                      IF users = <<>>
                      THEN NextQueue(w, w.remaining)
                      ELSE [w EXCEPT !.pc = "admit", !.batch = users]]
        /\ overlapped' = (overlapped \/ \E t \in Runs \ {s} :
                            run[t].pc \in {"admit", "trim"} /\ run[t].idx = w.idx)
        /\ UNCHANGED <<redis, issue, header, up, crashes, requests, pushes, stranded,
                       overtaken>>

\* Mutant: the loop over the batch takes one step too many.
AdmitPastEnd(s) ==
    LET w == run[s]
    IN  /\ w.pc = "admit"
        /\ use' = Append(use, w.batch[w.pushed + 1])
        /\ run' = [run EXCEPT ![s].pushed = @ + 1,
                              ![s].pc = IF w.pushed = Len(w.batch) THEN "trim" ELSE @]
        /\ UNCHANGED <<entry, misfiled, queue, issue, header, up, crashes, requests,
                       history>>

\* The next user of the batch is pushed to the use list.
Admit(s) ==
    LET w == run[s]
        u == w.batch[w.pushed + 1]
    IN  /\ w.pc = "admit"
        /\ use' = Append(use, u)
        /\ run' = [run EXCEPT ![s].pushed = @ + 1,
                              ![s].pc = IF w.pushed + 1 = Len(w.batch) THEN "trim" ELSE @]
        /\ overtaken' = overtaken \cup Behind(u)
        /\ UNCHANGED <<entry, misfiled, queue, issue, header, up, crashes, requests,
                       pushes, stranded, overlapped>>

\* Mutant: ltrim keeps what is behind the index it is given.
TrimOneMore(s) ==
    LET w == run[s]
        n == Len(w.batch)
    IN  /\ w.pc = "trim"
        /\ queue' = [queue EXCEPT ![w.idx] = SubSeq(@, n + 2, Len(@))]
        /\ run' = [run EXCEPT ![s] =
                      IF w.remaining > n THEN NextQueue(w, w.remaining - n) ELSE Idle]
        /\ UNCHANGED <<entry, misfiled, use, issue, header, up, crashes, requests,
                       history>>

\* Mutant: ltrim takes away as many as the run had asked for.
TrimAsked(s) ==
    LET w == run[s]
        n == Len(w.batch)
    IN  /\ w.pc = "trim"
        /\ queue' = [queue EXCEPT ![w.idx] = SubSeq(@, w.remaining + 1, Len(@))]
        /\ run' = [run EXCEPT ![s] =
                      IF w.remaining > n THEN NextQueue(w, w.remaining - n) ELSE Idle]
        /\ UNCHANGED <<entry, misfiled, use, issue, header, up, crashes, requests,
                       history>>

\* ltrim: as many as were read leave the front of the queue.
Trim(s) ==
    LET w == run[s]
        n == Len(w.batch)
    IN  /\ w.pc = "trim"
        /\ queue' = [queue EXCEPT ![w.idx] = SubSeq(@, n + 1, Len(@))]
        /\ run' = [run EXCEPT ![s] =
                      IF w.remaining > n THEN NextQueue(w, w.remaining - n) ELSE Idle]
        /\ UNCHANGED <<entry, misfiled, use, issue, header, up, crashes, requests,
                       history>>

-----------------------------------------------------------------------------
(* Faults.                                                                  *)

\* The places of u in the part of its batch that a run has pushed to the use list
\* and not yet trimmed, and those of all runs.
MovedBy(s, u) == {k \in 1 .. run[s].pushed : run[s].batch[k] = u}
Moved(u) == UNION {{s} \X MovedBy(s, u) : s \in Runs}

\* The process stops; Redis goes on.
Crash ==
    /\ up
    /\ crashes < MAX_CRASHES
    /\ up' = FALSE
    /\ crashes' = crashes + 1
    /\ pc' = [r \in Requests |-> IF pc[r] \in Active THEN "end" ELSE pc[r]]
    /\ reply' = [r \in Requests |-> IF pc[r] \in Active THEN "error" ELSE reply[r]]
    /\ issue' = [i \in Uuids |-> IF issue[i] \in {"user", "store"} THEN "error"
                                  ELSE issue[i]]
    /\ run' = [s \in Runs |-> Idle]
    /\ stranded' = [u \in Users |-> stranded[u] + Cardinality(Moved(u))]
    /\ UNCHANGED <<redis, header, job, told, pushes, overlapped, overtaken>>

\* A command fails, or a query of the user table: the error ends the request, ...
CommandFails(r) ==
    /\ pc[r] \in Active
    /\ Answer(r, "error")
    /\ UNCHANGED <<redis, issue, header, up, crashes, job, told, run, history>>

\* ... the issue of a token, ...
IssueFails(i) ==
    /\ issue[i] \in {"user", "store"}
    /\ issue' = [issue EXCEPT ![i] = "error"]
    /\ UNCHANGED <<redis, header, up, crashes, requests, run, history>>

\* ... or the run, wherever it is.  It is counted with the crashes.
RunFails(s) ==
    /\ run[s].pc \in {"range", "admit", "trim"}
    /\ crashes < MAX_CRASHES
    /\ crashes' = crashes + 1
    /\ run' = [run EXCEPT ![s] = Idle]
    /\ stranded' = [u \in Users |-> stranded[u] + Cardinality(MovedBy(s, u))]
    /\ UNCHANGED <<redis, issue, header, up, requests, pushes, overlapped, overtaken>>

Restart ==
    /\ ~ up
    /\ up' = TRUE
    /\ UNCHANGED <<redis, issue, header, crashes, requests, run, history>>

-----------------------------------------------------------------------------

Advance(r) ==
    \/ GetToken(r) \/ LookupUse(r) \/ LookupQueue(r)
    \/ Push(r) \/ NewPosition(r) \/ StoreToken(r)
Move(s) == ReadBatch(s) \/ Admit(s) \/ Trim(s)

Next ==
    \/ \E i \in Uuids :
          \/ Create(i) \/ FindUser(i) \/ StoreEntry(i)
          \/ IssueFails(i) \/ Expire(i)
    \/ \E r \in Requests : Arrive(r) \/ Refuse(r) \/ Advance(r) \/ CommandFails(r)
    \/ \E s \in Runs : Fire(s) \/ Move(s) \/ RunFails(s)
    \/ Crash
    \/ Restart

Spec == Init /\ [][Next]_vars

(***************************************************************************)
(* Fairness: whatever is ready is run, the process is restarted, and the    *)
(* cron job goes on firing.                                                 *)
(***************************************************************************)
Fairness ==
    /\ WF_vars(Restart)
    /\ \A r \in Requests : WF_vars(Advance(r))
    /\ \A s \in Runs : WF_vars(Fire(s)) /\ WF_vars(Move(s))
FairSpec == Spec /\ Fairness

-----------------------------------------------------------------------------
(* Safety.                                                                  *)

\* The type invariant: in particular a run never pushes more users than it read.
TypeOK ==
    /\ entry \in [Uuids -> Secrets \cup {None}]
    /\ header \in [Uuids -> Secrets \cup {None}]
    /\ misfiled \subseteq Uuids
    /\ queue \in [Indices -> Seq(Users)]
    /\ use \in Seq(Users)
    /\ issue \in [Uuids -> {"none", "user", "store", "end", "error"}]
    /\ up \in BOOLEAN
    /\ crashes \in 0 .. MAX_CRASHES
    /\ job \in [Requests -> [uuid : Uuids \cup {None}, path : Paths]]
    /\ pc \in [Requests -> Active \cup {"idle", "end"}]
    /\ told \in [Requests -> Nat]
    /\ reply \in [Requests -> {"none", "allow", "deny", "error"}]
    /\ run \in [Runs -> [pc : {"idle", "range", "admit", "trim", "spin"}, idx : Indices,
                         remaining : 0 .. BATCH, batch : Seq(Users), pushed : Nat]]
    /\ \A s \in Runs :
          /\ run[s].pushed <= Len(run[s].batch)
          /\ run[s].pc = "admit" => run[s].pushed < Len(run[s].batch)
    /\ pushes \in [Users -> Nat]
    /\ stranded \in [Users -> Nat]
    /\ overlapped \in BOOLEAN
    /\ overtaken \subseteq Requests

\* The places of u in a list, and in all queues.
Places(list, u) == {k \in DOMAIN list : list[k] = u}
Waiting(u) == UNION {{i} \X Places(queue[i], u) : i \in Indices}

\* Nobody is lost and nobody admitted twice but for the copies a fault between
\* the pushes and the trim leaves behind: as long as no two runs read the same
\* queue at once, the lists hold each user as often as the guard queued it.
EntriesConserved ==
    ~ overlapped =>
        \A u \in Users :
            Cardinality(Waiting(u)) + Cardinality(Places(use, u))
                = pushes[u] + stranded[u] + Cardinality(Moved(u))

\* A user who was turned away with a new token is waiting no further back than the
\* position in the token, or was admitted since.
ToldPositionHolds ==
    \A r \in Requests :
        reply[r] = "deny" /\ told[r] > 0 /\ ~ overlapped /\ ~ Admitted(UserOf(r)) =>
            Position(UserOf(r), IdxOf(r)) \in 1 .. told[r]

\* The guard is about to queue a user for a second time only if somebody else
\* queued or admitted the user after the guard's own lookups began.
SecondEntryIsRaced ==
    \A r \in Requests :
        pc[r] = "push" /\ (Admitted(UserOf(r)) \/ Queued(UserOf(r), IdxOf(r)))
            => r \in overtaken

KeepsOrder(s) ==
    Len(use') > Len(use) /\ run'[s] # run[s] /\ ~ overlapped =>
        \A k \in 1 .. Position(use'[Len(use')], run[s].idx) - 1 :
            Admitted(queue[run[s].idx][k])

\* Nobody is admitted before a user who was ahead in the queue: all of those are
\* in the use list already, unless two runs read the same queue at once.
AdmittedInOrder == [][\A s \in Runs : KeepsOrder(s)]_vars

-----------------------------------------------------------------------------
(* The component implements WaitingLine.                                    *)

\* How many users at the front of the queue i the runs rs have pushed and not yet
\* trimmed.
Gone(rs, i) == Max({0} \cup {rs[s].pushed : s \in {t \in Runs : rs[t].idx = i}})

line == [i \in Indices |-> SubSeq(queue[i], Gone(run, i) + 1, Len(queue[i]))]
passing == [i \in Indices |-> SubSeq(queue[i], 1, Gone(run, i))]

Line == INSTANCE WaitingLine WITH Lines <- Indices, entered <- use

\* Until two runs read the same queue at once, every behaviour of the component is
\* one of WaitingLine.tla: users enter one by one from the front of their line, and
\* a crash or a failed run gives back the places of its batch, all of them in their
\* order and nothing else.
ImplementsLine == Line!LineInit /\ [][overlapped' \/ Line!LineNext]_(Line!lineVars)

-----------------------------------------------------------------------------
(* Liveness.                                                                *)

\* Although no run ends before it has moved BATCH users, a user in a queue is
\* admitted sooner or later, unless runs overlap.
QueuedAreAdmitted ==
    \A u \in Users, i \in Indices : Queued(u, i) ~> Admitted(u) \/ overlapped

-----------------------------------------------------------------------------
(* What the documentation says and the code does not do.                    *)

\* README.md, request for seats: only a user whose token has been admitted is
\* shown seats.
SeatsNeedAdmission ==
    \A r \in Requests :
        reply[r] = "allow" /\ job[r].path = "seats" => Admitted(UserOf(r))
=============================================================================
