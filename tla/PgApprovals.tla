----------------------------- MODULE PgApprovals -----------------------------
(***************************************************************************)
(* The Postgres approval sink: packages/harness/src/approvals/pg.ts over   *)
(* the approvals table of packages/audit/migrations/0001_init.sql.         *)
(*                                                                         *)
(* A requester is the harness method approve(), which calls request() and  *)
(* then wait(); an approver calls decide().  Requesters, approvers and the *)
(* database run concurrently: a query is one step of the database, and its *)
(* result reaches the caller in a later step, when the row may have moved  *)
(* on.  Any query may reject, before or after its statement took effect,   *)
(* and any process may stop.  One clock stands for the clocks of all.      *)
(***************************************************************************)
EXTENDS Naturals, FiniteSets

CONSTANTS
    Requests,   \* request() calls, each with its own approvalId
    Plans,
    PlanOf,     \* PlanOf[i]: the plan request i asks approval for
    Votes,      \* decide() calls
    Verdict,    \* Verdict[v]: the outcome vote v asks for
    Ttl,        \* ttlMs
    Poll,       \* waitPollMs
    Timeout,    \* Timeout[i]: wait()'s timeoutMs, or NoTimeout
    NoTimeout,
    NoRequest,
    MaxTime     \* bound on the clock

Terminal == {"approved", "denied", "expired"}
States == {"none", "pending"} \cup Terminal

ASSUME PgAssumption ==
    /\ PlanOf \in [Requests -> Plans]
    /\ Verdict \in [Votes -> {"approved", "denied"}]
    /\ Ttl \in Nat /\ Poll \in Nat \ {0} /\ MaxTime \in Nat
    /\ NoTimeout \notin Nat
    /\ Timeout \in [Requests -> Nat \cup {NoTimeout}]
    /\ NoRequest \notin Requests

VARIABLES
    state,     \* column state; "none" where there is no row
    expires,   \* column expires_at (from the moment request() is called)
    votes,     \* column approvers: the votes appended to the row
    now,
    req,       \* where each requester stands
    started,   \* when it called wait()
    seen,      \* the state its last SELECT read, while the loop needs it
    wakeAt,    \* when its sleep ends, while it sleeps
    told,      \* what approve() was told
    vote,      \* where each approver stands
    voteOn,    \* the request it decides
    heard      \* what decide() told it

rowVars == <<state, votes>>
reqVars == <<expires, req, started, seen, wakeAt, told>>
voteVars == <<vote, voteOn, heard>>
vars == <<rowVars, reqVars, voteVars, now>>

\* "insert", "fetch", "flip", "refetch": a statement is on its way to the
\* database (the SELECT at the head of wait()'s loop, its UPDATE and the SELECT
\* after that); "inserted", "fetched", "refetched": it ran and its result is on
\* its way back.  "inserted" lasts until wait() is called.
ReqPCs == {"idle", "insert", "inserted", "fetch", "fetched", "asleep",
           "flip", "refetch", "refetched", "done"}
VotePCs == {"idle", "update", "won", "lost", "done"}

TypeOK ==
    /\ state \in [Requests -> States]
    /\ expires \in [Requests -> Nat]
    /\ votes \in [Requests -> SUBSET Votes]
    /\ now \in 0..MaxTime
    /\ req \in [Requests -> ReqPCs]
    /\ started \in [Requests -> Nat]
    /\ seen \in [Requests -> States]
    /\ wakeAt \in [Requests -> Nat]
    /\ told \in [Requests -> States \cup {"error"}]
    /\ vote \in [Votes -> VotePCs]
    /\ voteOn \in [Votes -> Requests \cup {NoRequest}]
    /\ heard \in [Votes -> States \cup {"illegal", "error"}]
    /\ \A v \in Votes : vote[v] # "idle" => voteOn[v] \in Requests

Init ==
    /\ state = [i \in Requests |-> "none"]
    /\ expires = [i \in Requests |-> 0]
    /\ votes = [i \in Requests |-> {}]
    /\ now = 0
    /\ req = [i \in Requests |-> "idle"]
    /\ started = [i \in Requests |-> 0]
    /\ seen = [i \in Requests |-> "none"]
    /\ wakeAt = [i \in Requests |-> 0]
    /\ told = [i \in Requests |-> "none"]
    /\ vote = [v \in Votes |-> "idle"]
    /\ voteOn = [v \in Votes |-> NoRequest]
    /\ heard = [v \in Votes |-> "none"]

----------------------------------------------------------------------------
\* Defect (for Lifecycle): the UPDATE lacks its state precondition.
FlipAny(i, target, cast) ==
    IF state[i] # "none"
    THEN /\ state' = [state EXCEPT ![i] = target]
         /\ votes' = [votes EXCEPT ![i] = @ \cup cast]
    ELSE UNCHANGED rowVars

\* The UPDATE of transitionFromPending: it matches the row only while the row
\* is pending, and appends the vote if there is one.
FlipPending(i, target, cast) ==
    IF state[i] = "pending"
    THEN /\ state' = [state EXCEPT ![i] = target]
         /\ votes' = [votes EXCEPT ![i] = @ \cup cast]
    ELSE UNCHANGED rowVars

----------------------------------------------------------------------------
\* request()

\* The expiry time is fixed before the INSERT is sent.
RequestCalled(i) ==
    /\ req[i] = "idle"
    /\ now + Ttl <= MaxTime
    /\ expires' = [expires EXCEPT ![i] = now + Ttl]
    /\ req' = [req EXCEPT ![i] = "insert"]
    /\ UNCHANGED <<rowVars, started, seen, wakeAt, told, voteVars, now>>

\* The partial unique index: one pending row per plan.
PendingFor(plan) == {j \in Requests : PlanOf[j] = plan /\ state[j] = "pending"}

\* Defect (for AbandonedNeedsAVote): the index is not unique.
InsertIgnoresIndex(i) ==
    /\ req[i] = "insert"
    /\ state' = [state EXCEPT ![i] = "pending"]
    /\ req' = [req EXCEPT ![i] = "inserted"]
    /\ UNCHANGED <<votes, expires, started, seen, wakeAt, told, voteVars, now>>

InsertCommits(i) ==
    /\ req[i] = "insert"
    /\ PendingFor(PlanOf[i]) = {}
    /\ state' = [state EXCEPT ![i] = "pending"]
    /\ req' = [req EXCEPT ![i] = "inserted"]
    /\ UNCHANGED <<votes, expires, started, seen, wakeAt, told, voteVars, now>>

\* A unique violation: request() throws.
InsertRefused(i) ==
    /\ req[i] = "insert"
    /\ PendingFor(PlanOf[i]) # {}
    /\ req' = [req EXCEPT ![i] = "done"]
    /\ told' = [told EXCEPT ![i] = "error"]
    /\ UNCHANGED <<rowVars, expires, started, seen, wakeAt, voteVars, now>>

----------------------------------------------------------------------------
\* wait()

\* request() has returned, and approve() has appended approval.requested.
WaitCalled(i) ==
    /\ req[i] = "inserted"
    /\ started' = [started EXCEPT ![i] = now]
    /\ req' = [req EXCEPT ![i] = "fetch"]
    /\ UNCHANGED <<rowVars, expires, seen, wakeAt, told, voteVars, now>>

\* The database runs a SELECT of fetchRow; rows are never deleted.
WaitFetches(i) ==
    /\ \/ req[i] = "fetch" /\ req' = [req EXCEPT ![i] = "fetched"]
       \/ req[i] = "refetch" /\ req' = [req EXCEPT ![i] = "refetched"]
    /\ seen' = [seen EXCEPT ![i] = state[i]]
    /\ UNCHANGED <<rowVars, expires, started, wakeAt, told, voteVars, now>>

Smaller(a, b) == IF a <= b THEN a ELSE b

\* Defect (for NeverExpiredEarly): the deadline by which the last poll that
\* fits must have started.
DeadlineOfLastPoll(i) ==
    (IF Timeout[i] = NoTimeout THEN expires[i]
                               ELSE Smaller(expires[i], started[i] + Timeout[i])) - Poll

\* The earlier of the row's expiry and the caller's own deadline.
Deadline(i) ==
    IF Timeout[i] = NoTimeout THEN expires[i]
                              ELSE Smaller(expires[i], started[i] + Timeout[i])

\* Defect (for WaitEnds): a wait without a timeout of its own polls for ever.
WaitLooksForVotesOnly(i) ==
    /\ req[i] = "fetched"
    /\ \/ /\ seen[i] # "pending"
          /\ req' = [req EXCEPT ![i] = "done"]
          /\ told' = [told EXCEPT ![i] = seen[i]]
          /\ UNCHANGED wakeAt
       \/ /\ seen[i] = "pending"
          /\ req' = [req EXCEPT ![i] = "asleep"]
          /\ wakeAt' = [wakeAt EXCEPT ![i] = now]
          /\ UNCHANGED told
    /\ seen' = [seen EXCEPT ![i] = "none"]
    /\ UNCHANGED <<rowVars, expires, started, voteVars, now>>

\* wait() gets the row: it returns a settled one, flips a pending one whose
\* time is up, and else sleeps until the next poll or the deadline.
WaitLooks(i) ==
    /\ req[i] = "fetched"
    /\ \/ /\ seen[i] # "pending"
          /\ req' = [req EXCEPT ![i] = "done"]
          /\ told' = [told EXCEPT ![i] = seen[i]]
          /\ UNCHANGED wakeAt
       \/ /\ seen[i] = "pending"
          /\ now >= Deadline(i)
          /\ req' = [req EXCEPT ![i] = "flip"]
          /\ UNCHANGED <<wakeAt, told>>
       \/ /\ seen[i] = "pending"
          /\ now < Deadline(i)
          /\ req' = [req EXCEPT ![i] = "asleep"]
          /\ wakeAt' = [wakeAt EXCEPT ![i] = Smaller(now + Poll, Deadline(i))]
          /\ UNCHANGED told
    /\ seen' = [seen EXCEPT ![i] = "none"]
    /\ UNCHANGED <<rowVars, expires, started, voteVars, now>>

WaitWakes(i) ==
    /\ req[i] = "asleep"
    /\ now >= wakeAt[i]
    /\ req' = [req EXCEPT ![i] = "fetch"]
    /\ wakeAt' = [wakeAt EXCEPT ![i] = 0]
    /\ UNCHANGED <<rowVars, expires, started, seen, told, voteVars, now>>

\* The database runs the UPDATE to expired; whoever won, a SELECT follows.
WaitFlips(i) ==
    /\ req[i] = "flip"
    /\ FlipPending(i, "expired", {})
    /\ req' = [req EXCEPT ![i] = "refetch"]
    /\ UNCHANGED <<expires, started, seen, wakeAt, told, voteVars, now>>

WaitReturns(i) ==
    /\ req[i] = "refetched"
    /\ req' = [req EXCEPT ![i] = "done"]
    /\ told' = [told EXCEPT ![i] = seen[i]]
    /\ seen' = [seen EXCEPT ![i] = "none"]
    /\ UNCHANGED <<rowVars, expires, started, wakeAt, voteVars, now>>

\* A query of request() or wait() rejects, or the process stops: the row
\* stays as it is and nobody waits for it any more.
RequesterGone(i) ==
    /\ req[i] \notin {"idle", "done"}
    /\ req' = [req EXCEPT ![i] = "done"]
    /\ told' = [told EXCEPT ![i] = "error"]
    /\ seen' = [seen EXCEPT ![i] = "none"]
    /\ wakeAt' = [wakeAt EXCEPT ![i] = 0]
    /\ UNCHANGED <<rowVars, expires, started, voteVars, now>>

----------------------------------------------------------------------------
\* decide()

DecideCalled(v, i) ==
    /\ vote[v] = "idle"
    /\ vote' = [vote EXCEPT ![v] = "update"]
    /\ voteOn' = [voteOn EXCEPT ![v] = i]
    /\ UNCHANGED <<rowVars, reqVars, heard, now>>

\* The database runs the UPDATE; decide() looks at no deadline.
DecideFlips(v) ==
    /\ vote[v] = "update"
    /\ FlipPending(voteOn[v], Verdict[v], {v})
    /\ vote' = [vote EXCEPT ![v] = IF state[voteOn[v]] = "pending" THEN "won" ELSE "lost"]
    /\ UNCHANGED <<reqVars, voteOn, heard, now>>

\* After the SELECT that follows the UPDATE: the winner gets the row, a loser
\* an error (no such approval, or an illegal transition).
DecideReturns(v) ==
    /\ vote[v] \in {"won", "lost"}
    /\ vote' = [vote EXCEPT ![v] = "done"]
    /\ heard' = [heard EXCEPT ![v] = IF vote[v] = "won" THEN state[voteOn[v]] ELSE "illegal"]
    /\ UNCHANGED <<rowVars, reqVars, voteOn, now>>

\* A query of decide() rejects or its process stops, perhaps after the UPDATE.
DeciderGone(v) ==
    /\ vote[v] \in {"update", "won", "lost"}
    /\ vote' = [vote EXCEPT ![v] = "done"]
    /\ heard' = [heard EXCEPT ![v] = "error"]
    /\ UNCHANGED <<rowVars, reqVars, voteOn, now>>

Tick ==
    /\ now < MaxTime
    /\ now' = now + 1
    /\ UNCHANGED <<rowVars, reqVars, voteVars>>

----------------------------------------------------------------------------
RequesterStep(i) ==
    \/ InsertCommits(i) \/ InsertRefused(i)
    \/ WaitCalled(i) \/ WaitFetches(i) \/ WaitLooks(i) \/ WaitWakes(i)
    \/ WaitFlips(i) \/ WaitReturns(i)

DeciderStep(v) == DecideFlips(v) \/ DecideReturns(v)

Next ==
    \/ \E i \in Requests : RequestCalled(i) \/ RequesterStep(i) \/ RequesterGone(i)
    \/ \E v \in Votes : DeciderStep(v) \/ DeciderGone(v)
    \/ \E v \in Votes, i \in Requests : DecideCalled(v, i)
    \/ Tick

Spec == Init /\ [][Next]_vars

\* The event loop and the database go on and the clock advances; no approver
\* ever has to call decide().
FairSpec == Spec /\ WF_vars(Tick) /\ \A i \in Requests : WF_vars(RequesterStep(i))

----------------------------------------------------------------------------
\* Properties.

\* The sink keeps the promise of ApprovalLifecycle: the WHERE state = 'pending'
\* of every UPDATE settles a row once among racing votes and expiries, a
\* waiter is told what the row says, one vote at most hears that it counted.
Promise == INSTANCE ApprovalLifecycle

Lifecycle == Promise!LifecycleSpec

\* wait() never gives up early: a row expires only once its time to live or
\* its waiter's own timeout has passed (the deadline test of wait()).
ExpiryIsDue(i) ==
    \/ now >= expires[i]
    \/ Timeout[i] # NoTimeout /\ now >= started[i] + Timeout[i]

NeverExpiredEarly == \A i \in Requests : state[i] = "expired" => ExpiryIsDue(i)

\* A loser of the race tells the truth: a waiter that decided to expire the
\* row and finds it settled by a vote returns that vote's outcome, so approve()
\* never reports a timeout for an approved row (current of lines 214-215).
ToldIsTheRow ==
    \A i \in Requests : req[i] = "done" =>
        \/ told[i] = "error"
        \/ told[i] \in Terminal /\ told[i] = state[i]

\* A pending row whose requester is gone blocks its plan.
Abandoned(i) == req[i] = "done" /\ state[i] = "pending"

\* No clock settles a row that nobody waits for: after its requester crashed
\* it stays pending, past its expires_at, until a vote settles it, which
\* counts however late; and for as long no other request of its plan gets a
\* pending row (request(), and the partial unique index of the migration; the
\* sweeper that the header of pg.ts speaks of is no part of the code).
AbandonedNeedsAVote ==
    [][\A i \in Requests : Abandoned(i) =>
         /\ \/ state'[i] = "pending"
            \/ \E v \in Votes : state'[i] = Verdict[v] /\ votes'[i] = {v}
         /\ \A j \in Requests \ {i} : PlanOf[j] = PlanOf[i] => state'[j] # "pending"]_vars

\* Every call of wait() ends, whether anybody votes or not.
WaitEnds == \A i \in Requests : req[i] = "fetch" ~> req[i] = "done"

----------------------------------------------------------------------------
\* The inductive invariant behind the safety properties and the refinement.

Waiting == {"inserted", "fetch", "fetched", "asleep", "flip", "refetch", "refetched"}

\* Where a requester stands and what its row says.
RowOf(i) ==
    /\ req[i] \in {"idle", "insert"} => state[i] = "none"
    /\ req[i] \in Waiting => state[i] # "none"
    /\ req[i] \in {"refetch", "refetched"} => state[i] \in Terminal
    /\ state[i] = "expired" => req[i] \in {"refetch", "refetched", "done"}

\* A state that was read is still the row's, unless it was pending.
SeenOf(i) ==
    /\ req[i] = "fetched" => seen[i] # "none" /\ (seen[i] # "pending" => seen[i] = state[i])
    /\ req[i] = "refetched" => seen[i] = state[i]

ToldOf(i) ==
    /\ req[i] = "done" <=> told[i] # "none"
    /\ told[i] \notin {"none", "error"} => told[i] = state[i] /\ told[i] \in Terminal

\* Expiry is due when the UPDATE is sent, and stays due.
DueOf(i) == req[i] = "flip" \/ state[i] = "expired" => ExpiryIsDue(i)

\* Votes are on rows that a vote settled, and a vote is where it was cast.
VotesOf(i) == state[i] \in {"none", "pending", "expired"} => votes[i] = {}

CastOf(v) ==
    /\ vote[v] # "done" => heard[v] = "none"
    /\ vote[v] \in {"idle", "update", "lost"} => \A i \in Requests : v \notin votes[i]
    /\ vote[v] = "won" => votes[voteOn[v]] = {v} /\ state[voteOn[v]] \in Terminal

\* The rows that the index allows.
OnePending ==
    \A i, j \in Requests :
        state[i] = "pending" /\ state[j] = "pending" /\ PlanOf[i] = PlanOf[j] => i = j

IInv ==
    /\ TypeOK
    /\ \A i \in Requests : RowOf(i) /\ SeenOf(i) /\ ToldOf(i) /\ DueOf(i) /\ VotesOf(i)
    /\ \A v \in Votes : CastOf(v)
==============================================================================
