--------------------------- MODULE MemoryApprovals ---------------------------
(***************************************************************************)
(* The approval sink in memory: packages/harness/src/approvals/in-memory.ts*)
(*                                                                         *)
(* A row per request, under an id of its own.  Nothing runs in the         *)
(* background: a row expires, or is voted on by the sink itself, only      *)
(* inside a wait(), which never waits.  decide() asks for no state: a late *)
(* vote overturns a settled row, and whoever was told before is not told   *)
(* again.                                                                  *)
(***************************************************************************)
EXTENDS Naturals

CONSTANTS
    Requests,  \* the requests made, one row for each
    Ttl,       \* ttlMs
    Timeout,   \* waitOpts.timeoutMs, as the harness passes it
    MaxTime    \* bound on the clock

VARIABLES
    now,  \* the clock read by Date.now()
    row   \* row[r]: what the Map holds for request r

sinkVars == <<now, row>>

Verdicts == {"approved", "denied"}
Settled == Verdicts \cup {"expired", "cancelled"}

\* votes: the outcomes among the row's approvers.
NoRow == [state |-> "none"]
Rows == [state : Settled \cup {"pending"}, expiresAt : Nat, votes : SUBSET Verdicts]

SinkTypeOK ==
    /\ now \in Nat
    /\ row \in [Requests -> Rows \cup {NoRow}]

SinkInit ==
    /\ now = 0
    /\ row = [r \in Requests |-> NoRow]

----------------------------------------------------------------------------
Request(r) ==
    /\ row[r] = NoRow
    /\ row' = [row EXCEPT ![r] = [state |-> "pending", expiresAt |-> now + Ttl, votes |-> {}]]
    /\ UNCHANGED now

\* Defect (for ExpiredForCause): a ttl as long as the caller waits is overdue.
OverdueAtOnce(r) ==
    \/ row[r].expiresAt <= now
    \/ row[r].expiresAt >= now + Timeout

\* What is left of the ttl has run out, or is longer than the caller waits.
Overdue(r) ==
    \/ row[r].expiresAt <= now
    \/ row[r].expiresAt > now + Timeout

\* Defect (for RowTellsVotes): a row settled before is not returned as it is.
WaitAnew(r, denyMode) ==
    /\ row[r] # NoRow
    /\ \/ Overdue(r) /\ row' = [row EXCEPT ![r].state = "expired"]
       \/ ~Overdue(r) /\ UNCHANGED row
    /\ UNCHANGED now

\* wait(): a settled row as it is, an overdue one expired, any other with the
\* vote the sink itself gives.
Wait(r, denyMode) ==
    /\ \/ row[r].state \in Settled /\ UNCHANGED row
       \/ /\ row[r].state = "pending"
          /\ Overdue(r)
          /\ row' = [row EXCEPT ![r].state = "expired"]
       \/ /\ row[r].state = "pending"
          /\ ~Overdue(r)
          /\ LET outcome == IF denyMode THEN "denied" ELSE "approved"
             IN row' = [row EXCEPT ![r].state = outcome, ![r].votes = {outcome}]
    /\ UNCHANGED now

\* Defect (for WiringTypeOK): the vote is not held to what a row may be.
DecideAnything(r) ==
    /\ row[r] # NoRow
    /\ \E v \in Verdicts \cup {"escalated"} : row' = [row EXCEPT ![r].state = v]
    /\ UNCHANGED now

\* decide(): the vote becomes the state, whatever that was.
Decide(r) ==
    /\ row[r] # NoRow
    /\ \E v \in Verdicts : row' = [row EXCEPT ![r].state = v, ![r].votes = @ \cup {v}]
    /\ UNCHANGED now

\* The process that holds the Map stops.
Forget(S) ==
    /\ row' = [r \in Requests |-> IF r \in S THEN NoRow ELSE row[r]]
    /\ UNCHANGED now

Tick ==
    /\ now < MaxTime
    /\ now' = now + 1
    /\ UNCHANGED row

----------------------------------------------------------------------------
\* A row's state is the work of its approvers: approved and denied rows hold a
\* vote for it, pending and expired ones none, so a wait() overturns nothing
\* that was voted, however votes, waits and deadlines interleave.
RowTellsVotes ==
    \A r \in Requests : row[r] # NoRow =>
        IF row[r].state \in Verdicts THEN row[r].state \in row[r].votes
                                     ELSE row[r].votes = {}
==============================================================================
