------------------------------ MODULE HarnessPg ------------------------------
(***************************************************************************)
(* The harness over the approval sink of Postgres: approve() of            *)
(* packages/harness/src/harness.ts calls request() and wait() of           *)
(* approvals/pg.ts, as tests/e2e.pg.test.ts wires them.                    *)
(*                                                                         *)
(* `approval` is what a call was told of its row; the row itself is        *)
(* Pg's `state`.  The statements of a call that is no more, because its    *)
(* process stopped or a query rejected, may still take effect, and votes   *)
(* come at any time.                                                       *)
(***************************************************************************)
EXTENDS Harness

CONSTANTS
    Votes, Verdict,  \* decide() calls and their outcomes
    TtlMs, PollMs,   \* the options of the sink
    WaitMs,          \* the timeoutMs that approve() passes to wait()
    NoTimeout, MaxClock

VARIABLES
    clock, state, expires, votes,
    req, started, seen, wakeAt, told,
    vote, voteOn, heard

PlanOf == [c \in Calls |-> PlanId(c)]

Pg == INSTANCE PgApprovals
    WITH Requests <- Calls, Plans <- {PlanId(c) : c \in Calls},
         Ttl <- TtlMs, Poll <- PollMs, MaxTime <- MaxClock, now <- clock,
         Timeout <- [c \in Calls |-> WaitMs], NoRequest <- NoCall

pgVars == <<clock, state, expires, votes, req, started, seen, wakeAt, told, vote, voteOn, heard>>
wiredVars == <<vars, pgVars>>

ASSUME PgWiringAssumption ==
    /\ Verdict \in [Votes -> {"approved", "denied"}]
    /\ TtlMs \in Nat /\ PollMs \in Nat \ {0} /\ WaitMs \in Nat /\ MaxClock \in Nat
    /\ NoTimeout \notin Nat

PgWiringInit == Init /\ Pg!Init

----------------------------------------------------------------------------
\* request(): its INSERT is sent, and the pending row returned.
RequestSent(c) ==
    /\ pc[c] = "approvals.request"
    /\ Pg!RequestCalled(c)
    /\ UNCHANGED vars

RequestReturns(c) ==
    /\ req[c] = "inserted"
    /\ SinkRequest(c)
    /\ UNCHANGED pgVars

\* wait() is called once approval.requested is durable; it polls, and returns
\* a settled row.
MethodRuns(c) ==
    /\ MethodStep(c)
    /\ IF pc[c] = "approval.requested" /\ pc'[c] = "approvals.wait"
       THEN Pg!WaitCalled(c) ELSE UNCHANGED pgVars

WaitGoesOn(c) ==
    /\ pc[c] = "approvals.wait"
    /\ Pg!WaitLooks(c) \/ Pg!WaitWakes(c)
    /\ told'[c] = told[c]
    /\ UNCHANGED vars

\* Defect (for VoterAndCallerAgree): wait() says that it timed out.
WaitResolvesToExpired(c) ==
    /\ Pg!WaitLooks(c) \/ Pg!WaitReturns(c)
    /\ told'[c] # told[c]
    /\ WaitReturns(c)
    /\ approval' = [approval EXCEPT ![c] = IF req[c] = "refetched" THEN "expired" ELSE told'[c]]

WaitResolves(c) ==
    /\ Pg!WaitLooks(c) \/ Pg!WaitReturns(c)
    /\ told'[c] # told[c]
    /\ WaitReturns(c)
    /\ approval' = [approval EXCEPT ![c] = told'[c]]

\* A statement of call c takes effect, whether or not the call still runs.
StatementRuns(c) ==
    /\ Pg!InsertCommits(c) \/ Pg!WaitFetches(c) \/ Pg!WaitFlips(c)
    /\ UNCHANGED vars

\* request() or wait() rejects, and approve() with it.
SinkRejects(c) ==
    /\ SinkFails(c)
    /\ Pg!InsertRefused(c) \/ Pg!RequesterGone(c)

\* What a call that is no more left behind comes to nothing.
Dropped(c) ==
    /\ pc[c] = "done"
    /\ Pg!RequesterGone(c)
    /\ UNCHANGED vars

\* An approver finds the row and decides it.
ApproverDecides(v) ==
    /\ \/ \E c \in Calls : state[c] # "none" /\ Pg!DecideCalled(v, c)
       \/ Pg!DeciderStep(v) \/ Pg!DeciderGone(v)
    /\ UNCHANGED vars

SinkStep(c) ==
    \/ RequestSent(c) \/ RequestReturns(c) \/ WaitGoesOn(c) \/ WaitResolves(c) \/ StatementRuns(c)

PgWiringNext ==
    \/ \E c \in Calls :
         \/ MethodRuns(c) \/ SinkStep(c) \/ SinkRejects(c) \/ Dropped(c)
         \/ /\ OutsideStep(c) \/ PolicyEvaluates(c) \/ PolicyUnreachable(c)
            /\ UNCHANGED pgVars
    \/ \E v \in Votes : ApproverDecides(v)
    \/ \E p \in Procs : Restart(p) /\ UNCHANGED pgVars
    \/ Pg!Tick /\ UNCHANGED vars

PgWiringSpec == PgWiringInit /\ [][PgWiringNext]_wiredVars

----------------------------------------------------------------------------
\* Properties.

\* End to end, no write without a vote: a request that leaves for Guidewire
\* under require_approval has a row of its own in the database that one vote
\* approved, and that no expiry, second vote or restart takes back (approve()
\* and the guard of executeEffect over the UPDATEs of pg.ts).
WritesAreVotedFor ==
    \A c \in Calls : wire[c] # "none" /\ decision[c] = "require_approval" =>
        state[c] = "approved" /\ \E v \in Votes : Verdict[v] = "approved" /\ votes[c] = {v}

\* The approver and the caller hear the same: one told that its approval
\* counted approved no call that answers a timeout or a denial, and one told
\* that its denial counted denied no call that writes, although both race with
\* the expiry of wait() and with each other.
VoterAndCallerAgree ==
    \A v \in Votes :
        /\ heard[v] = "approved" =>
             answer[voteOn[v]] \notin {"APPROVAL_DENIED", "APPROVAL_TIMEOUT"}
        /\ heard[v] = "denied" => wire[voteOn[v]] = "none"

\* A caller that hears APPROVAL_TIMEOUT may plan anew: its row has expired, its
\* time was up, and no vote counts on it any more.
TimeoutIsFinal ==
    \A c \in Calls : answer[c] = "APPROVAL_TIMEOUT" =>
        state[c] = "expired" /\ votes[c] = {} /\ Pg!ExpiryIsDue(c)
==============================================================================
