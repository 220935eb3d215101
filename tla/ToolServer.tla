------------------------------ MODULE ToolServer ------------------------------
(***************************************************************************)
(* The PolicyCenter server: the callback of every tool and the wiring in   *)
(* servers/policycenter-mcp/src/cli.ts, the handlers in its tools/, and    *)
(* the evidence exporter of packages/harness/src/evidence/exporter.ts.     *)
(*                                                                         *)
(* Every call writes entries of its own (emitAudit); a draft also runs the *)
(* pipeline of module Harness, which writes others into the same chain;    *)
(* and an exporter may read the chain at any time.  As wired in cli.ts,    *)
(* the chain is in memory, so an append takes its place at once and never  *)
(* fails, and the policy engine allows every draft: the pipeline is        *)
(* Harness's without faults, approvals and writes to Guidewire.            *)
(*                                                                         *)
(* Entries of different traces are kept apart: what the exporter does with *)
(* a trace depends on their order within it only.                          *)
(***************************************************************************)
EXTENDS Naturals, FiniteSets, Sequences, SequencesExt

CONSTANTS
    Drafts,   \* calls of draft tools
    Reads,    \* calls of read-only tools
    Stubs,    \* calls of tools that are declared, and not implemented
    PlanKey,  \* PlanKey[d]: the idempotency key of the plan of draft d
    TraceOf,  \* TraceOf[x]: the trace id of call x; calls may share one
    NoDraft   \* stands for `undefined`

ToolCalls == Drafts \cup Reads \cup Stubs
Traces == {TraceOf[x] : x \in ToolCalls}
Keys == {PlanKey[d] : d \in Drafts}

ASSUME ServerAssumption ==
    /\ Drafts \cap Reads = {} /\ Drafts \cap Stubs = {} /\ Reads \cap Stubs = {}
    /\ DOMAIN PlanKey = Drafts /\ DOMAIN TraceOf = ToolCalls
    /\ NoDraft \notin Drafts

VARIABLES
    at,      \* what the handler of each call awaits, or how it was answered
    trail,   \* trail[t]: the entries of trace t, in the order of the chain
    cache,   \* the harness's idempotency cache: the draft whose body it keeps
    body,    \* body[d]: the draft whose body draft d answers with
    export   \* the evidence bundle being built, or built

vars == <<at, trail, cache, body, export>>

\* "get": client.get; "policy", "decided", "replay", "effect", "recorded": the
\* harness, after its appends of plan.created, policy.decided, execute.replayed,
\* execute.started and execute.completed; "executed": execute() returned.  The
\* answer follows the last emitAudit with nothing in between.
Ats == {"idle", "get", "policy", "decided", "replay", "effect", "recorded",
        "executed", "value", "error", "refused"}

HarnessEvents == {"plan.created", "policy.decided", "execute.replayed",
                  "execute.started", "execute.completed"}
ToolEvents == {"execute.started", "execute.completed", "execute.failed"}
Entries == [by : {"harness"}, event : HarnessEvents, call : Drafts]
             \cup [by : {"tool"}, event : ToolEvents, call : Drafts \cup Reads]

\* An exporter collects the entries of a trace, then verifies the chain, which
\* reaches the first `verified` entries of the trace.
NoExport == [stage |-> "idle"]
Exporting(stage, t, n, v) == [stage |-> stage, trace |-> t, entries |-> n, verified |-> v]

ServerTypeOK ==
    /\ at \in [ToolCalls -> Ats]
    /\ \A t \in Traces : \A i \in DOMAIN trail[t] :
         trail[t][i] \in Entries /\ TraceOf[trail[t][i].call] = t
    /\ cache \in [Keys -> Drafts \cup {NoDraft}]
    /\ body \in [Drafts -> Drafts \cup {NoDraft}]
    /\ export # NoExport =>
         /\ export.stage \in {"collected", "built"}
         /\ export.entries \in 0..Len(trail[export.trace])
         /\ export.verified \in 0..Len(trail[export.trace])

ServerInit ==
    /\ at = [x \in ToolCalls |-> "idle"]
    /\ trail = [t \in Traces |-> <<>>]
    /\ cache = [k \in Keys |-> NoDraft]
    /\ body = [d \in Drafts |-> NoDraft]
    /\ export = NoExport

----------------------------------------------------------------------------
\* The callback and the handlers.

\* Call x goes from one await to the next.
Moves(x, from, to) == at[x] = from /\ at' = [at EXCEPT ![x] = to]

Append_(by, event, x) ==
    trail' = [trail EXCEPT ![TraceOf[x]] =
                Append(@, [by |-> by, event |-> event, call |-> x])]

Emit(event, x) == Append_("tool", event, x)
Audit(event, d) == Append_("harness", event, d)

\* The arguments do not parse: nothing is recorded.
ArgsRefused(x) ==
    /\ Moves(x, "idle", "refused")
    /\ UNCHANGED <<trail, cache, body, export>>

\* A stub throws before it records anything.
NotImplemented(x) ==
    /\ x \in Stubs
    /\ Moves(x, "idle", "error")
    /\ UNCHANGED <<trail, cache, body, export>>

ToolCalled(x) ==
    /\ x \notin Stubs
    /\ Moves(x, "idle", "get")
    /\ Emit("execute.started", x)
    /\ UNCHANGED <<cache, body, export>>

\* A read maps what it got to its result.
ReadCompletes(r) ==
    /\ r \in Reads
    /\ Moves(r, "get", "value")
    /\ Emit("execute.completed", r)
    /\ UNCHANGED <<cache, body, export>>

\* The catch block: the request failed, or its reply has an unexpected shape.
HandlerThrows(x) ==
    /\ Moves(x, "get", "error")
    /\ Emit("execute.failed", x)
    /\ UNCHANGED <<cache, body, export>>

\* A draft composes its body, plans and calls policy().
DraftComposed(d) ==
    /\ d \in Drafts
    /\ Moves(d, "get", "policy")
    /\ Audit("plan.created", d)
    /\ UNCHANGED <<cache, body, export>>

PolicyAllows(d) ==
    /\ Moves(d, "policy", "decided")
    /\ Audit("policy.decided", d)
    /\ UNCHANGED <<cache, body, export>>

\* policy() has returned; execute() looks into the cache and appends.
ExecuteReplays(d) ==
    /\ cache[PlanKey[d]] # NoDraft
    /\ Moves(d, "decided", "replay")
    /\ body' = [body EXCEPT ![d] = cache[PlanKey[d]]]
    /\ Audit("execute.replayed", d)
    /\ UNCHANGED <<cache, export>>

ExecuteStarts(d) ==
    /\ cache[PlanKey[d]] = NoDraft
    /\ Moves(d, "decided", "effect")
    /\ Audit("execute.started", d)
    /\ UNCHANGED <<cache, body, export>>

\* Defect (for ReplayIsShown): the result is cached before it is recorded.
EffectReturnsAndCaches(d) ==
    /\ Moves(d, "effect", "recorded")
    /\ cache' = [cache EXCEPT ![PlanKey[d]] = d]
    /\ UNCHANGED <<trail, body, export>>

\* The effect returns the body that the draft composed.
EffectReturns(d) ==
    /\ Moves(d, "effect", "recorded")
    /\ Audit("execute.completed", d)
    /\ UNCHANGED <<cache, body, export>>

\* The result is cached, over any that another call put there, and returned.
ExecuteReturns(d) ==
    /\ Moves(d, "recorded", "executed")
    /\ cache' = [cache EXCEPT ![PlanKey[d]] = d]
    /\ body' = [body EXCEPT ![d] = d]
    /\ UNCHANGED <<trail, export>>

\* Defect (for TrailTellsTool): a replay is not recorded as complete.
DraftReturnsSilently(d) ==
    \/ /\ Moves(d, "executed", "value")
       /\ Emit("execute.completed", d)
       /\ UNCHANGED <<cache, body, export>>
    \/ /\ Moves(d, "replay", "value")
       /\ UNCHANGED <<trail, cache, body, export>>

\* execute() has returned: the handler records that it is complete.
DraftReturns(d) ==
    /\ Moves(d, "replay", "value") \/ Moves(d, "executed", "value")
    /\ Emit("execute.completed", d)
    /\ UNCHANGED <<cache, body, export>>

----------------------------------------------------------------------------
\* The evidence exporter.

\* Defect (for ServerTypeOK): the bundle counts the entries of every trace.
CollectsAll(t) ==
    /\ export = NoExport
    /\ export' = Exporting("collected", t,
                   FoldFunction(LAMBDA s, n : Len(s) + n, 0, trail), 0)
    /\ UNCHANGED <<at, trail, cache, body>>

\* The loop over audit.query keeps the entries of the trace.  It walks the live
\* array, so it ends with those that are there when it gets to the end.
Collects(t) ==
    /\ export = NoExport
    /\ export' = Exporting("collected", t, Len(trail[t]), 0)
    /\ UNCHANGED <<at, trail, cache, body>>

\* Defect (for BundleIsCovered): the chain is verified before it is read.
VerifiesFirst ==
    /\ export # NoExport /\ export.stage = "collected"
    /\ export' = Exporting("built", export.trace, Len(trail[export.trace]), export.entries)
    /\ UNCHANGED <<at, trail, cache, body>>

\* verifyChain looks at the whole chain (its verdict: module HashChain).
Verifies ==
    /\ export # NoExport /\ export.stage = "collected"
    /\ export' = Exporting("built", export.trace, export.entries, Len(trail[export.trace]))
    /\ UNCHANGED <<at, trail, cache, body>>

BuildReturns ==
    /\ export # NoExport /\ export.stage = "built"
    /\ export' = NoExport
    /\ UNCHANGED <<at, trail, cache, body>>

\* The entries of the bundle.
Bundle == SubSeq(trail[export.trace], 1, export.entries)

\* Defect (for ExecutionIsShown): the last entry of the event type.
FindLast(event) == SelectLastInSeq(Bundle, LAMBDA e : e.event = event)

\* entries.find: the place of the first entry of an event type, 0 if none.
Find(event) == SelectInSeq(Bundle, LAMBDA e : e.event = event)

\* The idempotency key in an entry: emitAudit makes up one of its own.
KeyIn(e) == IF e.by = "tool" THEN "read" ELSE PlanKey[e.call]

----------------------------------------------------------------------------
ServerNext ==
    \/ \E x \in ToolCalls :
         \/ ArgsRefused(x) \/ NotImplemented(x) \/ ToolCalled(x)
         \/ ReadCompletes(x) \/ HandlerThrows(x)
    \/ \E d \in Drafts :
         \/ DraftComposed(d) \/ PolicyAllows(d) \/ ExecuteReplays(d) \/ ExecuteStarts(d)
         \/ EffectReturns(d) \/ ExecuteReturns(d) \/ DraftReturns(d)
    \/ \E t \in Traces : Collects(t)
    \/ Verifies \/ BuildReturns

ServerSpec == ServerInit /\ [][ServerNext]_vars

----------------------------------------------------------------------------
\* Properties.

\* What call x wrote, in the order of the chain, are entries of these events.
Own(x) == {i \in DOMAIN trail[TraceOf[x]] : trail[TraceOf[x]][i].call = x}

Wrote(x, events) ==
    /\ Cardinality(Own(x)) = Len(events)
    /\ \A i \in Own(x) :
         trail[TraceOf[x]][i].event = events[Cardinality({j \in Own(x) : j <= i})]

Pipeline(x) == {<<"plan.created", "policy.decided">> \o s :
                  s \in {<<"execute.started", "execute.completed">>, <<"execute.replayed">>}}

\* The trail tells what became of a tool call: whatever ran in between, the
\* entries of an answered call are, in order, its start, the complete pipeline
\* if it is a draft that succeeded, and its end (emitAudit on each path of the
\* handlers, around the appends of evaluatePolicy and executeEffect).
TrailTellsTool ==
    \A x \in ToolCalls :
        /\ at[x] = "value" =>
             \E s \in IF x \in Drafts THEN Pipeline(x) ELSE {<<>>} :
                 Wrote(x, <<"execute.started">> \o s \o <<"execute.completed">>)
        /\ at[x] = "error" /\ x \notin Stubs =>
             Wrote(x, <<"execute.started", "execute.failed">>)
        /\ at[x] = "refused" => Wrote(x, <<>>)

\* A bundle never holds an entry its own chain verification did not reach,
\* although calls append while it is built (order of the query and verifyChain
\* in build()).
BundleIsCovered == export # NoExport /\ export.stage = "built" => export.entries <= export.verified

\* The bundle of a draft that ran alone in its trace and was executed shows the
\* execution of its plan, with the plan's key, and not the entry of the same
\* event type that the tool wrote for itself (entries.find over entries in
\* chain order).
AloneInTrace(x) == \A y \in ToolCalls : TraceOf[y] = TraceOf[x] => y = x

ExecutionIsShown ==
    export # NoExport /\ Find("execute.completed") # 0 =>
        \A d \in Drafts :
            TraceOf[d] = export.trace /\ AloneInTrace(d) /\ body[d] \in {d, NoDraft} =>
                KeyIn(Bundle[Find("execute.completed")]) = PlanKey[d]

\* Nothing is replayed that the chain does not show complete: once a trail has
\* an execute.replayed entry, the trail of the draft whose body is returned has
\* the harness's execute.completed entry, to which blobRef refers, and that
\* draft's plan has the same idempotency key (order of the append and
\* idempCache.set in executeEffect, and the key under which both look).
HarnessRecorded(event, d) ==
    \E i \in DOMAIN trail[TraceOf[d]] :
        trail[TraceOf[d]][i] = [by |-> "harness", event |-> event, call |-> d]

ReplayIsShown ==
    \A d \in Drafts : HarnessRecorded("execute.replayed", d) =>
        /\ HarnessRecorded("execute.completed", body[d])
        /\ PlanKey[body[d]] = PlanKey[d]

\* The schema of a bundle (packages/schemas/src/harness/evidence.ts, execute.ts):
\* its `execution`, when it has one, is an ExecuteResult, whose idempotencyKey
\* is a gwh1 key.
EvidenceHoldsResult ==
    export # NoExport /\ export.stage = "built"
        /\ Find("plan.created") # 0 /\ Find("execute.completed") # 0 =>
            KeyIn(Bundle[Find("execute.completed")]) # "read"

\* The user journey (000-docs/blueprint/04-USER-JOURNEY.md): the draft tool adds
\* a hash_summary of the draft body, which it takes of the body it composed.
HashIsOfBody == \A d \in Drafts : at[d] = "value" => body[d] = d
==============================================================================
