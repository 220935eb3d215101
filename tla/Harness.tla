------------------------------ MODULE Harness ------------------------------
(***************************************************************************)
(* The write-governing harness: packages/harness/src/harness.ts.           *)
(*                                                                         *)
(* A call is one run of the pipeline a tool drives,                        *)
(*     plan() -> policy() -> approve()? -> execute()                       *)
(* Every `await` of the code is a point where other calls run, where the   *)
(* audit store or the approval sink may fail, and where the process may    *)
(* stop.  pc[c] names what call c awaits; when it awaits audit.append, pc  *)
(* is the event type being appended.                                       *)
(*                                                                         *)
(* Several server processes may run, each with its own idempotency cache,  *)
(* over one audit store, one approval sink and one Guidewire tenant.       *)
(***************************************************************************)
EXTENDS Naturals, FiniteSets

CONSTANTS
    Calls,           \* the calls tools make
    InputOf,         \* InputOf[c]: the PlanInput of call c
    Procs,           \* server processes: one createHarness() instance each
    ProcOf,          \* ProcOf[c]: the process that runs call c
    PolicyOutcomes,  \* PolicyOutcomes[c]: what the policy engine may decide
    NoCall,          \* stands for `undefined`
    MaxFaults        \* bound on restarts and failed appends

Modes == {"read_only", "draft_only", "approved_execute"}
Outcomes == {"allow", "deny", "require_approval"}
ApprovalStates == {"pending", "approved", "denied", "expired", "cancelled"}

\* The idempotency key: everything in the preimage, the rest of the plan
\* (mode, summary, traceId) left out.  SHA-256 is taken to be injective.
deriveKeys(input) ==
    <<input.toolName, input.toolVersion, input.tenantId, input.args, input.actorId>>

\* The content-addressed planId covers every field of the input.
derivePlanId(input) == <<deriveKeys(input), input.mode, input.summary, input.traceId>>

KeyOf(c) == deriveKeys(InputOf[c])
PlanId(c) == derivePlanId(InputOf[c])
ModeOf(c) == InputOf[c].mode
Keys == {KeyOf(c) : c \in Calls}

\* Only the effect of an approved_execute tool writes to Guidewire.
Writers == {c \in Calls : ModeOf(c) = "approved_execute"}

ASSUME CallsAssumption ==
    /\ NoCall \notin Calls
    /\ ProcOf \in [Calls -> Procs]
    /\ PolicyOutcomes \in [Calls -> SUBSET Outcomes]
    /\ MaxFaults \in Nat
    /\ \A c \in Calls : ModeOf(c) \in Modes

\* A tool declares one mode in its metadata, so calls that share an
\* idempotency key (which holds the tool name but not the mode) share it.
ASSUME SameToolSameMode ==
    \A c, d \in Calls : KeyOf(c) = KeyOf(d) => ModeOf(c) = ModeOf(d)

Events == {"plan.created", "policy.decided", "approval.requested",
           "approval.decided", "execute.replayed", "execute.started",
           "execute.completed", "execute.failed"}

Awaits == {"policy.evaluate", "approvals.request", "approvals.wait", "effect"}

\* "planned": plan() returned; "decided": policy() returned; "approved":
\* approve() returned; "done": the pipeline answered.
PCs == Events \cup Awaits \cup {"planned", "decided", "approved", "done"}

Errors == {"POLICY_UNREACHABLE", "POLICY_DENIED", "APPROVAL_DENIED",
           "APPROVAL_TIMEOUT", "GW_DBTRANSACTION_DUPLICATE",
           "EFFECT_ERROR", "AUDIT_ERROR", "SINK_ERROR"}

\* "lost": the process stopped while the call was running.
Answers == Errors \cup {"none", "executed", "replayed", "lost"}

VARIABLES
    pc,        \* what each call awaits
    answer,    \* what each call answered, or will answer when its catch ends
    decision,  \* the PolicyDecision outcome the call holds
    approval,  \* the sink's row for the call's plan
    passed,    \* the call whose Approval was passed as opts.approval
    cache,     \* cache[p][k]: the call whose result process p keeps for key k
    replayOf,  \* the call whose cached result is being replayed
    audit,     \* durable audit entries: [event, call]
    wire,      \* progress of the call's Guidewire request
    written,   \* written[k]: the call Guidewire executed under k's id
    faults     \* restarts and failed appends so far

harnessVars == <<pc, answer, decision, passed, cache, replayOf>>
vars == <<harnessVars, approval, audit, wire, written, faults>>

Entry(e, c) == [event |-> e, call |-> c]
Recorded(e, c) == Entry(e, c) \in audit

\* The wire request: not sent, in flight, executed, refused as a duplicate
\* (AlreadyExecutedException), refused for another reason, or lost.
WireStates == {"none", "sent", "applied", "duplicate", "refused", "lost"}

TypeOK ==
    /\ pc \in [Calls -> PCs]
    /\ answer \in [Calls -> Answers]
    /\ decision \in [Calls -> Outcomes \cup {"none"}]
    /\ approval \in [Calls -> ApprovalStates \cup {"none"}]
    /\ passed \in [Calls -> Calls \cup {NoCall}]
    /\ cache \in [Procs -> [Keys -> Calls \cup {NoCall}]]
    /\ replayOf \in [Calls -> Calls \cup {NoCall}]
    /\ audit \subseteq [event : Events, call : Calls]
    /\ wire \in [Calls -> WireStates]
    /\ written \in [Keys -> Calls \cup {NoCall}]
    /\ faults \in 0..MaxFaults

Init ==
    /\ pc = [c \in Calls |-> "planned"]
    /\ answer = [c \in Calls |-> "none"]
    /\ decision = [c \in Calls |-> "none"]
    /\ approval = [c \in Calls |-> "none"]
    /\ passed = [c \in Calls |-> NoCall]
    /\ cache = [p \in Procs |-> [k \in Keys |-> NoCall]]
    /\ replayOf = [c \in Calls |-> NoCall]
    /\ audit = {}
    /\ wire = [c \in Calls |-> "none"]
    /\ written = [k \in Keys |-> NoCall]
    /\ faults = 0

----------------------------------------------------------------------------
\* Steps every method is made of.

Goto(c, label) == pc' = [pc EXCEPT ![c] = label]

\* The method returns or throws: the caller has its answer.
Finish(c, a) ==
    /\ Goto(c, "done")
    /\ answer' = [answer EXCEPT ![c] = a]

\* The audit store makes the entry that call c is appending durable.  The
\* caller's `await` settles later, so other calls may run in between.
AuditCommit(c) ==
    /\ pc[c] \in Events
    /\ ~Recorded(pc[c], c)
    /\ audit' = audit \cup {Entry(pc[c], c)}
    /\ UNCHANGED <<harnessVars, approval, wire, written, faults>>

\* audit.append rejects, before or after the entry became durable.  No
\* method catches it, so the method rejects with it: in execute()'s catch it
\* replaces the effect's own error, and after the effect it leaves the
\* result out of the cache.
AuditRejects(c) ==
    /\ pc[c] \in Events
    /\ faults < MaxFaults
    /\ faults' = faults + 1
    /\ Finish(c, "AUDIT_ERROR")
    /\ UNCHANGED <<decision, approval, passed, cache, replayOf, audit, wire, written>>

----------------------------------------------------------------------------
\* policy()

\* plan() has returned and the tool calls policy(), whose first await is the
\* append of plan.created.
PolicyCalled(c) ==
    /\ pc[c] = "planned"
    /\ Goto(c, "plan.created")
    /\ UNCHANGED <<answer, decision, approval, passed, cache, replayOf, audit, wire, written, faults>>

PlanRecorded(c) ==
    /\ pc[c] = "plan.created"
    /\ Recorded("plan.created", c)
    /\ Goto(c, "policy.evaluate")
    /\ UNCHANGED <<answer, decision, approval, passed, cache, replayOf, audit, wire, written, faults>>

PolicyEvaluates(c) ==
    /\ pc[c] = "policy.evaluate"
    /\ \E o \in PolicyOutcomes[c] : decision' = [decision EXCEPT ![c] = o]
    /\ Goto(c, "policy.decided")
    /\ UNCHANGED <<answer, approval, passed, cache, replayOf, audit, wire, written, faults>>

\* policy.evaluate throws: no policy.decided entry is written.
PolicyUnreachable(c) ==
    /\ pc[c] = "policy.evaluate"
    /\ Finish(c, "POLICY_UNREACHABLE")
    /\ UNCHANGED <<decision, approval, passed, cache, replayOf, audit, wire, written, faults>>

PolicyReturns(c) ==
    /\ pc[c] = "policy.decided"
    /\ Recorded("policy.decided", c)
    /\ \/ /\ decision[c] = "deny"
          /\ Finish(c, "POLICY_DENIED")
       \/ /\ decision[c] # "deny"
          /\ Goto(c, "decided")
          /\ UNCHANGED answer
    /\ UNCHANGED <<decision, approval, passed, cache, replayOf, audit, wire, written, faults>>

----------------------------------------------------------------------------
\* approve(), and the approval sink it uses.

ApproveCalled(c) ==
    /\ pc[c] = "decided"
    /\ decision[c] = "require_approval"
    /\ Goto(c, "approvals.request")
    /\ UNCHANGED <<answer, decision, approval, passed, cache, replayOf, audit, wire, written, faults>>

\* approvals.request stores a pending row and returns it.
SinkRequest(c) ==
    /\ pc[c] = "approvals.request"
    /\ approval' = [approval EXCEPT ![c] = "pending"]
    /\ Goto(c, "approval.requested")
    /\ UNCHANGED <<answer, decision, passed, cache, replayOf, audit, wire, written, faults>>

\* request or wait throws (the database is away, or a pending row for the
\* plan exists already); approve() rejects with it.
SinkFails(c) ==
    /\ pc[c] \in {"approvals.request", "approvals.wait"}
    /\ Finish(c, "SINK_ERROR")
    /\ UNCHANGED <<decision, approval, passed, cache, replayOf, audit, wire, written, faults>>

RequestRecorded(c) ==
    /\ pc[c] = "approval.requested"
    /\ Recorded("approval.requested", c)
    /\ Goto(c, "approvals.wait")
    /\ UNCHANGED <<answer, decision, approval, passed, cache, replayOf, audit, wire, written, faults>>

\* An approver or an operator settles a pending row, whether or not anyone
\* still waits for it.
SinkDecide(c) ==
    /\ approval[c] = "pending"
    /\ \E v \in {"approved", "denied", "cancelled"} : approval' = [approval EXCEPT ![c] = v]
    /\ UNCHANGED <<harnessVars, audit, wire, written, faults>>

\* Defect (for EveryCallSettles): wait() has no deadline.
WaitReturnsOnceDecided(c) ==
    /\ pc[c] = "approvals.wait"
    /\ approval[c] # "pending"
    /\ Goto(c, "approval.decided")
    /\ UNCHANGED <<answer, decision, approval, passed, cache, replayOf, audit, wire, written, faults>>

\* wait() finds the row settled, or settles it before it returns: both sinks
\* expire it at a deadline, the one in memory also votes on it.
WaitReturns(c) ==
    /\ pc[c] = "approvals.wait"
    /\ \/ approval[c] # "pending" /\ UNCHANGED approval
       \/ /\ approval[c] = "pending"
          /\ \E v \in ApprovalStates \ {"pending"} : approval' = [approval EXCEPT ![c] = v]
    /\ Goto(c, "approval.decided")
    /\ UNCHANGED <<answer, decision, passed, cache, replayOf, audit, wire, written, faults>>

\* Defect (for WriteAuthorised): only a denial is an error, so an expired or
\* cancelled row passes for an Approval.
ApproveReturnsUnlessDenied(c) ==
    /\ pc[c] = "approval.decided"
    /\ Recorded("approval.decided", c)
    /\ \/ approval[c] = "denied" /\ Finish(c, "APPROVAL_DENIED")
       \/ approval[c] # "denied" /\ Goto(c, "approved") /\ UNCHANGED answer
    /\ UNCHANGED <<decision, approval, passed, cache, replayOf, audit, wire, written, faults>>

ApproveReturns(c) ==
    /\ pc[c] = "approval.decided"
    /\ Recorded("approval.decided", c)
    /\ \/ /\ approval[c] = "denied"
          /\ Finish(c, "APPROVAL_DENIED")
       \/ /\ approval[c] \in {"expired", "cancelled"}
          /\ Finish(c, "APPROVAL_TIMEOUT")
       \/ /\ approval[c] = "approved"
          /\ Goto(c, "approved")
          /\ UNCHANGED answer
    /\ UNCHANGED <<decision, approval, passed, cache, replayOf, audit, wire, written, faults>>

----------------------------------------------------------------------------
\* execute()

\* The guard looks at whether an Approval is there, not at its state or plan.
ApprovalMissing(c, a) ==
    ModeOf(c) = "approved_execute" /\ decision[c] = "require_approval" /\ a = NoCall

Cached(c) == cache[ProcOf[c]][KeyOf(c)]

\* The synchronous head of execute(): guard and cache lookup, up to the first
\* await.  a is the call whose Approval is passed, NoCall if none is.
ExecuteCalled(c, a) ==
    /\ pc[c] \in {"decided", "approved"}
    /\ passed' = [passed EXCEPT ![c] = a]
    /\ \/ /\ ApprovalMissing(c, a)
          /\ Finish(c, "APPROVAL_DENIED")
          /\ UNCHANGED replayOf
       \/ /\ ~ApprovalMissing(c, a)
          /\ Cached(c) # NoCall
          /\ Goto(c, "execute.replayed")
          /\ replayOf' = [replayOf EXCEPT ![c] = Cached(c)]
          /\ UNCHANGED answer
       \/ /\ ~ApprovalMissing(c, a)
          /\ Cached(c) = NoCall
          /\ Goto(c, "execute.started")
          /\ UNCHANGED <<answer, replayOf>>
    /\ UNCHANGED <<decision, approval, cache, audit, wire, written, faults>>

\* The documented sequence: the tool passes the Approval that approve()
\* returned for this plan, and none when it did not call approve().
OwnApproval(c) == IF pc[c] = "approved" THEN c ELSE NoCall

\* Any Approval a tool may hold: what some earlier approve() returned.
HeldApprovals == {d \in Calls : approval[d] = "approved" /\ Recorded("approval.decided", d)}

ReplayReturns(c) ==
    /\ pc[c] = "execute.replayed"
    /\ Recorded("execute.replayed", c)
    /\ Finish(c, "replayed")
    /\ UNCHANGED <<decision, approval, passed, cache, replayOf, audit, wire, written, faults>>

\* Defect (for WriteAheadAudit): the append of execute.started is not awaited.
EffectInvokedAtOnce(c) ==
    /\ pc[c] = "execute.started"
    /\ Goto(c, "effect")
    /\ wire' = [wire EXCEPT ![c] = IF c \in Writers THEN "sent" ELSE @]
    /\ UNCHANGED <<answer, decision, approval, passed, cache, replayOf, audit, written, faults>>

\* execute.started is durable and the effect is invoked.  The effect of an
\* approved_execute tool sends its request with GW-DBTransaction-ID =
\* sha256(idempotencyKey); other effects stay local.
EffectInvoked(c) ==
    /\ pc[c] = "execute.started"
    /\ Recorded("execute.started", c)
    /\ Goto(c, "effect")
    /\ wire' = [wire EXCEPT ![c] = IF c \in Writers THEN "sent" ELSE @]
    /\ UNCHANGED <<answer, decision, approval, passed, cache, replayOf, audit, written, faults>>

\* Guidewire handles a request in flight, even when nobody waits for the
\* reply any more.  It executes an id at most once and answers a later use
\* with AlreadyExecutedException; it may refuse a request for its own reasons.
GuidewireHandles(c) ==
    /\ wire[c] = "sent"
    /\ \/ /\ written[KeyOf(c)] = NoCall
          /\ written' = [written EXCEPT ![KeyOf(c)] = c]
          /\ wire' = [wire EXCEPT ![c] = "applied"]
       \/ /\ wire' = [wire EXCEPT ![c] =
                        IF written[KeyOf(c)] = NoCall THEN "refused" ELSE "duplicate"]
          /\ UNCHANGED written
    /\ UNCHANGED <<harnessVars, approval, audit, faults>>

RequestLost(c) ==
    /\ wire[c] = "sent"
    /\ wire' = [wire EXCEPT ![c] = "lost"]
    /\ UNCHANGED <<harnessVars, approval, audit, written, faults>>

\* Defect (for ExecutedIsTheWrite): a duplicate reply passes for success.
EffectReturnsOnDuplicate(c) ==
    /\ pc[c] = "effect"
    /\ c \in Writers => wire[c] \in {"applied", "duplicate"}
    /\ Goto(c, "execute.completed")
    /\ UNCHANGED <<answer, decision, approval, passed, cache, replayOf, audit, wire, written, faults>>

\* Defect (for AtMostOnce): a lost reply passes for success.
EffectReturnsOnTimeout(c) ==
    /\ pc[c] = "effect"
    /\ c \in Writers => wire[c] \in {"applied", "lost"}
    /\ Goto(c, "execute.completed")
    /\ UNCHANGED <<answer, decision, approval, passed, cache, replayOf, audit, wire, written, faults>>

\* Defect (for ReplayIsBacked): the result is cached before the append of
\* execute.completed, which may reject.
EffectReturnsAndCaches(c) ==
    /\ pc[c] = "effect"
    /\ c \in Writers => wire[c] = "applied"
    /\ cache' = [cache EXCEPT ![ProcOf[c]][KeyOf(c)] = c]
    /\ Goto(c, "execute.completed")
    /\ UNCHANGED <<answer, decision, approval, passed, replayOf, audit, wire, written, faults>>

EffectReturns(c) ==
    /\ pc[c] = "effect"
    /\ c \in Writers => wire[c] = "applied"
    /\ Goto(c, "execute.completed")
    /\ UNCHANGED <<answer, decision, approval, passed, cache, replayOf, audit, wire, written, faults>>

\* Defect (for TrailTellsAnswer): a duplicate is rethrown before
\* execute.failed is appended.
EffectThrowsUnrecorded(c) ==
    /\ pc[c] = "effect"
    /\ \/ /\ wire[c] = "duplicate"
          /\ Finish(c, "GW_DBTRANSACTION_DUPLICATE")
       \/ /\ answer' = [answer EXCEPT ![c] = "EFFECT_ERROR"]
          /\ Goto(c, "execute.failed")
    /\ UNCHANGED <<decision, approval, passed, cache, replayOf, audit, wire, written, faults>>

\* The effect throws: an error reply, a connection lost before or after
\* Guidewire executed the request, or a failure of the effect's own.  A
\* duplicate reply is recognised by the text of the error, which the client
\* cuts at 256 characters, so it may also pass for another error.
EffectThrows(c) ==
    /\ pc[c] = "effect"
    /\ \E e \in {"EFFECT_ERROR", "GW_DBTRANSACTION_DUPLICATE"} :
         /\ e = "GW_DBTRANSACTION_DUPLICATE" => wire[c] = "duplicate"
         /\ answer' = [answer EXCEPT ![c] = e]
    /\ Goto(c, "execute.failed")
    /\ UNCHANGED <<decision, approval, passed, cache, replayOf, audit, wire, written, faults>>

\* The catch block rethrows what it caught once execute.failed is durable.
FailureRecorded(c) ==
    /\ pc[c] = "execute.failed"
    /\ Recorded("execute.failed", c)
    /\ Goto(c, "done")
    /\ UNCHANGED <<answer, decision, approval, passed, cache, replayOf, audit, wire, written, faults>>

ExecuteReturns(c) ==
    /\ pc[c] = "execute.completed"
    /\ Recorded("execute.completed", c)
    /\ cache' = [cache EXCEPT ![ProcOf[c]][KeyOf(c)] = c]
    /\ Finish(c, "executed")
    /\ UNCHANGED <<decision, approval, passed, replayOf, audit, wire, written, faults>>

----------------------------------------------------------------------------
\* Process p stops and starts again: its calls are gone and its cache, a Map
\* in memory, is empty.  Rows, entries and requests in flight outlive it.
Running(c) == pc[c] \notin {"planned", "done"}

Restart(p) ==
    /\ faults < MaxFaults
    /\ faults' = faults + 1
    /\ pc' = [c \in Calls |-> IF ProcOf[c] = p /\ Running(c) THEN "done" ELSE pc[c]]
    /\ answer' = [c \in Calls |-> IF ProcOf[c] = p /\ Running(c) THEN "lost" ELSE answer[c]]
    /\ cache' = [cache EXCEPT ![p] = [k \in Keys |-> NoCall]]
    /\ UNCHANGED <<decision, approval, passed, replayOf, audit, wire, written>>

----------------------------------------------------------------------------
\* Steps of the methods that neither the policy engine nor the sink takes part in.
MethodStep(c) ==
    \/ AuditCommit(c) \/ PlanRecorded(c) \/ PolicyReturns(c)
    \/ ApproveCalled(c) \/ RequestRecorded(c) \/ ApproveReturns(c)
    \/ ExecuteCalled(c, OwnApproval(c)) \/ ReplayReturns(c)
    \/ EffectInvoked(c) \/ EffectReturns(c) \/ EffectThrows(c)
    \/ FailureRecorded(c) \/ ExecuteReturns(c)

\* Steps of call c that settle an await or continue after one.
CallStep(c) ==
    MethodStep(c) \/ PolicyEvaluates(c) \/ SinkRequest(c) \/ WaitReturns(c)

\* Steps of the tool, the store, the network and Guidewire, and those of the
\* policy engine and the sink, which nothing obliges to happen.
OutsideStep(c) == PolicyCalled(c) \/ AuditRejects(c) \/ GuidewireHandles(c) \/ RequestLost(c)

Environment(c) == OutsideStep(c) \/ PolicyUnreachable(c) \/ SinkDecide(c) \/ SinkFails(c)

Next ==
    \/ \E c \in Calls : CallStep(c) \/ Environment(c)
    \/ \E p \in Procs : Restart(p)

Spec == Init /\ [][Next]_vars

\* The event loop resumes a settled await, appends and policy evaluations
\* settle, the sink's wait has a deadline, and an effect without a reply throws
\* (the HTTP client gives up); approvers and Guidewire owe nothing.
FairSpec == Spec /\ \A c \in Calls : WF_vars(CallStep(c))

\* A tool that may pass any Approval it holds instead of its plan's own.
NextLax == Next \/ \E c \in Calls, a \in HeldApprovals : ExecuteCalled(c, a)
SpecLax == Init /\ [][NextLax]_vars

----------------------------------------------------------------------------
\* Properties.

\* Write-ahead audit: no request leaves for Guidewire before the plan, the
\* policy decision and execute.started are durable in the audit store, and it
\* stays so whatever fails or restarts later (the order of awaits in
\* evaluatePolicy and executeEffect).
AuditedAhead(c) ==
    wire[c] # "none" =>
        \A e \in {"plan.created", "policy.decided", "execute.started"} : Recorded(e, c)

WriteAheadAudit == \A c \in Calls : AuditedAhead(c)

\* No write without authority: a request leaves only under a policy outcome
\* `allow`, or `require_approval` with this plan's own row approved, recorded
\* as decided, and approved still (guard of executeEffect, requestApproval).
Authorised(c) ==
    \/ decision[c] = "allow"
    \/ /\ decision[c] = "require_approval"
       /\ approval[c] = "approved"
       /\ Recorded("approval.decided", c)

Sanctioned(c) == wire[c] # "none" => Authorised(c)

WriteAuthorised == \A c \in Calls : Sanctioned(c)

\* A writing tool told "executed" owns the one write Guidewire executed for
\* its key: concurrent calls, other processes, retries after a lost reply and
\* a cache emptied by a restart never make a second call say so.
ExecutedIsTheWrite ==
    \A c \in Writers : answer[c] = "executed" => written[KeyOf(c)] = c

\* A replayed answer refers (blobRef, auditEntryId) to a durable
\* execute.completed entry of a call with the same key that itself answered
\* "executed" and, for a writing tool, whose write is in Guidewire.
ReplayIsBacked ==
    \A c \in Calls : answer[c] = "replayed" =>
        \E d \in Calls : /\ replayOf[c] = d
                         /\ KeyOf(d) = KeyOf(c)
                         /\ answer[d] = "executed"
                         /\ Recorded("execute.completed", d)
                         /\ c \in Writers => written[KeyOf(c)] = d

\* The trail tells the answer: the entries of a finished call, which are all
\* an auditor sees, are those of its answer and no others (the appends on each
\* path of evaluatePolicy, requestApproval and executeEffect).  Calls that a
\* failing audit store or a stop cut short are excepted.
Trail(c) == {e \in Events : Recorded(e, c)}
Approve == {"approval.requested", "approval.decided"}
Planned == {"plan.created", "policy.decided"}

TrailOf(c) ==
    LET before == Planned \cup IF passed[c] = NoCall THEN {} ELSE Approve
    IN CASE answer[c] = "executed" -> {before \cup {"execute.started", "execute.completed"}}
         [] answer[c] = "replayed" -> {before \cup {"execute.replayed"}}
         [] answer[c] \in {"EFFECT_ERROR", "GW_DBTRANSACTION_DUPLICATE"} ->
              {before \cup {"execute.started", "execute.failed"}}
         [] answer[c] = "POLICY_UNREACHABLE" -> {{"plan.created"}}
         [] answer[c] = "POLICY_DENIED" -> {Planned}
         [] answer[c] = "APPROVAL_TIMEOUT" -> {Planned \cup Approve}
         [] answer[c] = "APPROVAL_DENIED" ->
              IF passed[c] = NoCall /\ approval[c] = "none" THEN {Planned}
                                                            ELSE {Planned \cup Approve}
         [] answer[c] = "SINK_ERROR" -> {Planned, Planned \cup {"approval.requested"}}

TrailTellsAnswer ==
    \A c \in Calls : pc[c] = "done" /\ answer[c] \notin {"AUDIT_ERROR", "lost"} =>
        Trail(c) \in TrailOf(c)

\* Only an execution the audit store knows to be complete is replayable: what
\* a cache holds was answered "executed" to its own caller (order of the
\* completed append and idempCache.set).
CacheIsAnswered ==
    \A p \in Procs : \A k \in Keys :
        cache[p][k] # NoCall => /\ answer[cache[p][k]] = "executed"
                                /\ KeyOf(cache[p][k]) = k
                                /\ Recorded("execute.completed", cache[p][k])

\* Every call whose policy() was called is answered, whatever approvers, the
\* audit store and Guidewire do (no path of the methods waits without end).
EveryCallSettles == \A c \in Calls : pc[c] # "planned" ~> pc[c] = "done"

\* The harness implements the abstract at-most-once write for its writing
\* tools.  A result counts as told when the method returns it.
Told(c) ==
    IF pc[c] # "done" THEN "none"
    ELSE IF answer[c] \in {"executed", "replayed"} THEN answer[c] ELSE "failed"

Promise == INSTANCE AtMostOnceWrite
    WITH Calls <- Writers, Key <- KeyOf, writer <- written,
         reply <- [c \in Writers |-> Told(c)]

AtMostOnce == Promise!AbsSpec

\* A doc comment on the error code (packages/harness/src/error.ts): the cache
\* short-circuits first, so the duplicate error should never fire in normal
\* operation: no stop, no failed append, no request refused or lost, no
\* effect that throws.
NormalOperation ==
    /\ faults = 0
    /\ \A c \in Calls : /\ wire[c] \notin {"refused", "lost"}
                        /\ answer[c] # "EFFECT_ERROR"

DuplicateNeverFires ==
    NormalOperation => \A c \in Calls : answer[c] # "GW_DBTRANSACTION_DUPLICATE"

\* The guard's comment in executeEffect: approved_execute requires a matching
\* Approval, one requested for the plan being executed.
ApprovalMatches ==
    \A c \in Calls : wire[c] # "none" /\ decision[c] = "require_approval" =>
        \E a \in Calls : passed[c] = a /\ PlanId(a) = PlanId(c)

----------------------------------------------------------------------------
\* The inductive invariant behind the safety properties.

PastPlan == PCs \ {"planned", "plan.created", "done"}
InApprove == {"approvals.request", "approval.requested", "approvals.wait", "approval.decided", "approved"}
InExecute == {"execute.started", "effect", "execute.completed", "execute.failed"}
PastPolicy == InApprove \cup InExecute \cup {"decided", "execute.replayed"}

\* Where a call stands, its earlier entries are durable.
Progress(c) ==
    /\ pc[c] \in PastPlan => Recorded("plan.created", c)
    /\ pc[c] = "policy.decided" => decision[c] # "none"
    /\ pc[c] \in PastPolicy => Recorded("policy.decided", c) /\ decision[c] \in {"allow", "require_approval"}
    /\ pc[c] \in InExecute \ {"execute.started"} => Recorded("execute.started", c)

\* What approve() has established when it returns.
Approval(c) ==
    /\ pc[c] \in InApprove => decision[c] = "require_approval"
    /\ pc[c] \in InApprove \ {"approvals.request"} => approval[c] # "none"
    /\ pc[c] = "approval.decided" => approval[c] # "pending"
    /\ pc[c] = "approved" => Authorised(c)
    /\ c \in Writers /\ pc[c] \in InExecute => Authorised(c)

\* The wire and Guidewire agree on who wrote.
Wire(c) ==
    /\ wire[c] # "none" => /\ c \in Writers
                           /\ pc[c] \in InExecute \cup {"done"}
                           /\ pc[c] # "execute.started"
    /\ wire[c] = "applied" <=> written[KeyOf(c)] = c
    /\ c \in Writers /\ pc[c] = "execute.completed" => wire[c] = "applied"

\* An answer is given once, and `executed` only for a durable completion.
Answer(c) ==
    /\ pc[c] \notin {"done", "execute.failed"} => answer[c] = "none"
    /\ pc[c] = "execute.failed" => answer[c] \in {"EFFECT_ERROR", "GW_DBTRANSACTION_DUPLICATE"}
    /\ answer[c] = "executed" => /\ Recorded("execute.completed", c)
                                 /\ c \in Writers => wire[c] = "applied"

\* A replay copies a result that was answered.
Replay(c) ==
    pc[c] = "execute.replayed" \/ answer[c] = "replayed" =>
        /\ replayOf[c] \in Calls
        /\ KeyOf(replayOf[c]) = KeyOf(c)
        /\ answer[replayOf[c]] = "executed"

IInv ==
    /\ TypeOK
    /\ \A c \in Calls : Progress(c) /\ Approval(c) /\ Wire(c) /\ Answer(c) /\ Replay(c)
    /\ WriteAheadAudit
    /\ WriteAuthorised
    /\ CacheIsAnswered
============================================================================
