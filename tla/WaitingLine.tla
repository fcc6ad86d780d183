----------------------------- MODULE WaitingLine ----------------------------
(***************************************************************************)
(* What the waiting queue promises, as long as no two runs of the scheduler *)
(* read the same queue at once: a line per queue index, which is joined at  *)
(* the back and left from the front, into one list of the users who were    *)
(* admitted.  Admission is at least once: whoever has entered goes on       *)
(* holding the place until the entries are settled, and a fault before that *)
(* gives the places back, in front of the line and in the old order.        *)
(* Nothing is said of tokens, requests, runs or batches.                    *)
(* TicketQueue.tla is shown to implement this specification.                *)
(***************************************************************************)
EXTENDS Sequences

CONSTANTS
    Users,
    Lines          \* one for each queue index

VARIABLES
    line,          \* the users who wait in each line
    passing,       \* those who have entered from it and still hold their place
    entered        \* the users admitted from all lines, in their order

lineVars == <<line, passing, entered>>

LineInit ==
    /\ line = [i \in Lines |-> <<>>]
    /\ passing = [i \in Lines |-> <<>>]
    /\ entered = <<>>

Join(i, u) ==
    /\ line' = [line EXCEPT ![i] = Append(@, u)]
    /\ UNCHANGED <<passing, entered>>

Enter(i) ==
    /\ line[i] # <<>>
    /\ entered' = Append(entered, Head(line[i]))
    /\ passing' = [passing EXCEPT ![i] = Append(@, Head(line[i]))]
    /\ line' = [line EXCEPT ![i] = Tail(@)]

\* The places of those who have entered are given up for good, ...
Settle(i) ==
    /\ passing' = [passing EXCEPT ![i] = <<>>]
    /\ UNCHANGED <<line, entered>>

\* ... or taken again, in all the lines of I.
Return(I) ==
    /\ line' = [i \in Lines |-> IF i \in I THEN passing[i] \o line[i] ELSE line[i]]
    /\ passing' = [i \in Lines |-> IF i \in I THEN <<>> ELSE passing[i]]
    /\ UNCHANGED entered

LineNext ==
    \/ \E i \in Lines : Enter(i) \/ Settle(i) \/ \E u \in Users : Join(i, u)
    \/ \E I \in SUBSET Lines : Return(I)

LineSpec == LineInit /\ [][LineNext]_lineVars
=============================================================================
