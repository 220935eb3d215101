-------------------------- MODULE ToolServerProofs --------------------------
(***************************************************************************)
(* Theorems about the callbacks and the exporter of the PolicyCenter       *)
(* server, for any number of calls, keys and traces.                       *)
(***************************************************************************)
EXTENDS ToolServer, FiniteSetTheorems, WellFoundedInduction, TLAPS

\* Calls that never draft, or never begin.
ReadAts == {"idle", "get", "value", "error", "refused"}
StubAts == {"idle", "error", "refused"}

TypeInv ==
    /\ at \in [ToolCalls -> Ats]
    /\ \A x \in Reads : at[x] \in ReadAts
    /\ \A x \in Stubs : at[x] \in StubAts
    /\ trail \in [Traces -> Seq(Entries)]
    /\ \A t \in Traces : \A i \in 1..Len(trail[t]) : TraceOf[trail[t][i].call] = t
    /\ cache \in [Keys -> Drafts \cup {NoDraft}]
    /\ body \in [Drafts -> Drafts \cup {NoDraft}]

\* The entry at place i of the trace of x.
EntryAt(x, i) == trail[TraceOf[x]][i]
Harnessed(event, d) == [by |-> "harness", event |-> event, call |-> d]
Tooled(event, x) == [by |-> "tool", event |-> event, call |-> x]
Completed(x) == Tooled("execute.completed", x)

\* The bundle: the entries of a trace that were there, the verified ones last.
ExportInv ==
    export # NoExport =>
        \E t \in Traces, n \in Nat, v \in Nat :
            /\ n <= Len(trail[t]) /\ v <= Len(trail[t])
            /\ \/ export = Exporting("collected", t, n, v)
               \/ export = Exporting("built", t, n, v) /\ n <= v

\* What is cached, and replayed, is in the chain.
CacheInv ==
    /\ \A k \in Keys : cache[k] # NoDraft =>
         /\ at[cache[k]] \in {"executed", "value"}
         /\ HarnessRecorded("execute.completed", cache[k])
    /\ \A d \in Drafts : at[d] \in {"recorded", "executed"} =>
         HarnessRecorded("execute.completed", d)
    /\ \A d \in Drafts : at[d] = "executed" => body[d] = d
    /\ \A d \in Drafts : at[d] = "replay" => body[d] \notin {d, NoDraft}

\* A draft that was executed records that it is complete after the harness did.
OrderInv ==
    \A d \in Drafts : \A i \in 1..Len(trail[TraceOf[d]]) :
        EntryAt(d, i) = Completed(d) =>
            /\ at[d] = "value"
            /\ body[d] \in {d, NoDraft} =>
                 \E j \in 1..(i - 1) : EntryAt(d, j) = Harnessed("execute.completed", d)

\* A replay answers with a body that the chain shows complete.
ReplayInv ==
    \A d \in Drafts : HarnessRecorded("execute.replayed", d) =>
        body[d] \in Drafts /\ HarnessRecorded("execute.completed", body[d])

\* What is cached under a key, or answered, is of a plan with that key.
KeyInv ==
    /\ \A k \in Keys : cache[k] # NoDraft => PlanKey[cache[k]] = k
    /\ \A d \in Drafts : body[d] # NoDraft => PlanKey[body[d]] = PlanKey[d]
    /\ \A d \in Drafts : at[d] \in {"replay", "executed", "value"} => body[d] # NoDraft

\* What a call has written when it awaits a, or was answered with a.
Events == HarnessEvents \cup ToolEvents
Asked == Append(<<>>, "execute.started")
Planned == Append(Asked, "plan.created")
Decided == Append(Planned, "policy.decided")
Replayed == Append(Decided, "execute.replayed")
Begun == Append(Decided, "execute.started")
Executed == Append(Begun, "execute.completed")
Done(s) == Append(s, "execute.completed")

Tells(x, a, s) ==
    /\ x \in Stubs \/ a \in {"idle", "refused"} => s = <<>>
    /\ x \notin Stubs => /\ a = "get" => s = Asked
                         /\ a = "error" => s = Append(Asked, "execute.failed")
    /\ x \in Reads /\ a = "value" => s = Done(Asked)
    /\ x \in Drafts => /\ a = "policy" => s = Planned
                       /\ a = "decided" => s = Decided
                       /\ a = "replay" => s = Replayed
                       /\ a = "effect" => s = Begun
                       /\ a \in {"recorded", "executed"} => s = Executed
                       /\ a = "value" => s \in {Done(Executed), Done(Replayed)}

\* An entry of an event takes what a call wrote by one await to the next.
Continues(x, from, event, to) ==
    \A s \in Seq(Events) : Tells(x, from, s) => Tells(x, to, Append(s, event))

TrailInv == \A x \in ToolCalls : \E s \in Seq(Events) : Wrote(x, s) /\ Tells(x, at[x], s)

ServerInv == TypeInv /\ ExportInv /\ CacheInv /\ ReplayInv /\ OrderInv /\ KeyInv
             /\ TrailInv

----------------------------------------------------------------------------
\* Steps that append: entry e, of call x.

Appends(x, e) == trail' = [trail EXCEPT ![TraceOf[x]] = Append(@, e)]

LEMMA ACallHasATrace == \A x \in ToolCalls : TraceOf[x] \in Traces
  BY DEF Traces

LEMMA AppendsAtTheEnd ==
    ASSUME TypeInv, NEW x \in Drafts \cup Reads, NEW e \in Entries, e.call = x, Appends(x, e)
    PROVE  /\ trail' \in [Traces -> Seq(Entries)]
           /\ \A t \in Traces : \A i \in 1..Len(trail'[t]) : TraceOf[trail'[t][i].call] = t
           /\ \A t \in Traces : Len(trail[t]) \in Nat /\ Len(trail'[t]) \in Nat
           /\ \A t \in Traces : Len(trail[t]) <= Len(trail'[t])
           /\ \A t \in Traces : \A i \in 1..Len(trail[t]) : trail'[t][i] = trail[t][i]
           /\ \A t \in Traces : \A i \in 1..Len(trail'[t]) :
                i \in 1..Len(trail[t]) \/ (t = TraceOf[x] /\ trail'[t][i] = e)
           /\ \E i \in 1..Len(trail'[TraceOf[x]]) : trail'[TraceOf[x]][i] = e
<1> DEFINE u == TraceOf[x]
<1>1. u \in Traces /\ trail \in [Traces -> Seq(Entries)]
  BY ACallHasATrace DEF TypeInv, ToolCalls
<1>2. trail'[u] = Append(trail[u], e) /\ trail[u] \in Seq(Entries)
  BY <1>1 DEF Appends
<1>3. \A t \in Traces \ {u} : trail'[t] = trail[t] /\ trail[t] \in Seq(Entries)
  BY <1>1 DEF Appends
<1>4. trail' \in [Traces -> Seq(Entries)]
  BY <1>1, <1>2 DEF Appends
<1>5. /\ Len(trail[u]) \in Nat /\ Len(trail'[u]) = Len(trail[u]) + 1
      /\ \A i \in 1..Len(trail[u]) : trail'[u][i] = trail[u][i]
      /\ trail'[u][Len(trail[u]) + 1] = e
  BY <1>2
<1>6. \A t \in Traces : Len(trail[t]) \in Nat /\ Len(trail'[t]) \in Nat
                         /\ Len(trail[t]) <= Len(trail'[t])
  <2>1. \A t \in Traces : Len(trail[t]) \in Nat
    BY <1>1
  <2>2. QED
    BY <1>3, <1>5, <2>1
<1>7. \A t \in Traces : \A i \in 1..Len(trail'[t]) :
        i \in 1..Len(trail[t]) \/ (t = u /\ trail'[t][i] = e)
  BY <1>3, <1>5
<1>8. \A t \in Traces : \A i \in 1..Len(trail[t]) : trail'[t][i] = trail[t][i]
  BY <1>3, <1>5
<1>9. ASSUME NEW t \in Traces, NEW i \in 1..Len(trail'[t])
      PROVE  TraceOf[trail'[t][i].call] = t
  <2>1. CASE i \in 1..Len(trail[t])
    <3>1. trail'[t][i] = trail[t][i]
      BY <1>8, <2>1
    <3>2. QED
      BY <2>1, <3>1 DEF TypeInv
  <2>2. CASE t = u /\ trail'[t][i] = e
    BY <2>2
  <2>3. QED
    BY <1>7, <2>1, <2>2
<1>10. \E i \in 1..Len(trail'[u]) : trail'[u][i] = e
  <2>1. Len(trail[u]) + 1 \in 1..Len(trail'[u])
    BY <1>5
  <2>2. QED
    BY <1>5, <2>1
<1>11. QED
  BY <1>4, <1>6, <1>7, <1>8, <1>9, <1>10

\* What the harness recorded stays recorded.
LEMMA RecordsGrow ==
    ASSUME TypeInv, NEW x \in Drafts \cup Reads, NEW e \in Entries, e.call = x, Appends(x, e),
           NEW event, NEW d \in Drafts
    PROVE  /\ HarnessRecorded(event, d) => HarnessRecorded(event, d)'
           /\ HarnessRecorded(event, d)' => HarnessRecorded(event, d) \/ e = Harnessed(event, d)
           /\ e = Harnessed(event, d) => HarnessRecorded(event, d)'
<1> DEFINE t == TraceOf[d]
<1>1. t \in Traces
  BY ACallHasATrace DEF ToolCalls
<1>2. /\ trail' \in [Traces -> Seq(Entries)]
      /\ Len(trail[t]) \in Nat /\ Len(trail'[t]) \in Nat /\ Len(trail[t]) <= Len(trail'[t])
      /\ \A i \in 1..Len(trail[t]) : trail'[t][i] = trail[t][i]
      /\ \A i \in 1..Len(trail'[t]) :
           i \in 1..Len(trail[t]) \/ (t = TraceOf[x] /\ trail'[t][i] = e)
      /\ \E i \in 1..Len(trail'[TraceOf[x]]) : trail'[TraceOf[x]][i] = e
  BY <1>1, AppendsAtTheEnd
<1>3. DOMAIN trail[t] = 1..Len(trail[t]) /\ DOMAIN trail'[t] = 1..Len(trail'[t])
  BY <1>1, <1>2 DEF TypeInv
<1>4. 1..Len(trail[t]) \subseteq 1..Len(trail'[t])
  BY <1>2
<1>5. e = Harnessed(event, d) => TraceOf[x] = t
  BY DEF Harnessed
<1>6. HarnessRecorded(event, d) => HarnessRecorded(event, d)'
  BY <1>2, <1>3, <1>4 DEF HarnessRecorded
<1>7. HarnessRecorded(event, d)' => HarnessRecorded(event, d) \/ e = Harnessed(event, d)
  BY <1>2, <1>3 DEF HarnessRecorded, Harnessed
<1>8. e = Harnessed(event, d) => HarnessRecorded(event, d)'
  BY <1>2, <1>3, <1>5 DEF HarnessRecorded, Harnessed
<1>9. QED
  BY <1>6, <1>7, <1>8

\* Entries that come after the bundle do not change what it holds.
LEMMA ExportStays ==
    ASSUME TypeInv, ExportInv, NEW x \in Drafts \cup Reads, NEW e \in Entries, e.call = x,
           Appends(x, e), UNCHANGED export
    PROVE  ExportInv'
<1>1. \A t \in Traces : Len(trail[t]) \in Nat /\ Len(trail'[t]) \in Nat
                         /\ Len(trail[t]) <= Len(trail'[t])
  BY AppendsAtTheEnd, Zenon
<1>2. QED
  BY <1>1 DEF ExportInv

\* The order of what was there stays, when no draft that was answered changes.
LEMMA OrderStays ==
    ASSUME TypeInv, OrderInv, NEW x \in Drafts \cup Reads, NEW e \in Entries, e.call = x,
           Appends(x, e),
           \A d \in Drafts : at[d] = "value" => at'[d] = "value" /\ body'[d] = body[d],
           NEW d \in Drafts, NEW i \in 1..Len(trail'[TraceOf[d]]),
           EntryAt(d, i)' = Completed(d), e # Completed(d)
    PROVE  /\ at'[d] = "value"
           /\ body'[d] \in {d, NoDraft} =>
                \E j \in 1..(i - 1) : EntryAt(d, j)' = Harnessed("execute.completed", d)
<1> DEFINE t == TraceOf[d]
<1>1. t \in Traces
  BY ACallHasATrace DEF ToolCalls
<1>2. /\ Len(trail[t]) \in Nat
      /\ \A j \in 1..Len(trail[t]) : trail'[t][j] = trail[t][j]
      /\ i \in 1..Len(trail[t]) \/ trail'[t][i] = e
  BY <1>1, AppendsAtTheEnd
<1>3. i \in 1..Len(trail[t]) /\ EntryAt(d, i) = Completed(d)
  BY <1>2 DEF EntryAt
<1>4. at[d] = "value"
  BY <1>3 DEF OrderInv
<1>5. at'[d] = "value" /\ body'[d] = body[d]
  BY <1>4
<1>6. ASSUME body'[d] \in {d, NoDraft}
      PROVE  \E j \in 1..(i - 1) : EntryAt(d, j)' = Harnessed("execute.completed", d)
  <2>1. PICK j \in 1..(i - 1) : EntryAt(d, j) = Harnessed("execute.completed", d)
    BY <1>3, <1>5, <1>6 DEF OrderInv
  <2>2. j \in 1..Len(trail[t])
    BY <1>2, <1>3
  <2>3. EntryAt(d, j)' = EntryAt(d, j)
    BY <1>2, <2>2 DEF EntryAt
  <2>4. QED
    BY <2>1, <2>3 DEF Harnessed
<1>7. QED
  BY <1>5, <1>6

----------------------------------------------------------------------------
\* Steps.

Records(x, e) ==
    /\ x \in Drafts \cup Reads /\ e \in Entries /\ e.call = x
    /\ Appends(x, e)
    /\ UNCHANGED export

LEMMA CalledRecords ==
    ASSUME TypeInv, NEW x \in ToolCalls
    PROVE  /\ ToolCalled(x) => Records(x, Tooled("execute.started", x))
           /\ ReadCompletes(x) => Records(x, Completed(x))
           /\ HandlerThrows(x) => Records(x, Tooled("execute.failed", x))
<1>1. at[x] = "get" => x \in Drafts \cup Reads
  BY DEF TypeInv, StubAts, ToolCalls
<1>2. x \notin Stubs => x \in Drafts \cup Reads
  BY DEF ToolCalls
<1>3. \A event \in ToolEvents : x \in Drafts \cup Reads =>
        Tooled(event, x) \in Entries /\ Tooled(event, x).call = x
  BY DEF Tooled, Entries
<1>4. \A event : Emit(event, x) => Appends(x, Tooled(event, x))
  BY DEF Emit, Append_, Appends, Tooled
<1>5. QED
  BY <1>1, <1>2, <1>3, <1>4
     DEF ToolCalled, ReadCompletes, HandlerThrows, Moves, Records, Completed, ToolEvents

LEMMA DraftRecords ==
    ASSUME TypeInv, NEW d \in Drafts
    PROVE  /\ DraftComposed(d) => Records(d, Harnessed("plan.created", d))
           /\ PolicyAllows(d) => Records(d, Harnessed("policy.decided", d))
           /\ ExecuteReplays(d) => Records(d, Harnessed("execute.replayed", d))
           /\ ExecuteStarts(d) => Records(d, Harnessed("execute.started", d))
           /\ EffectReturns(d) => Records(d, Harnessed("execute.completed", d))
           /\ DraftReturns(d) => Records(d, Completed(d))
<1>1. \A event \in HarnessEvents :
        Harnessed(event, d) \in Entries /\ Harnessed(event, d).call = d
  BY DEF Harnessed, Entries
<1>2. Completed(d) \in Entries /\ Completed(d).call = d
  BY DEF Completed, Tooled, Entries, ToolEvents
<1>3. \A event : Audit(event, d) => Appends(d, Harnessed(event, d))
  BY DEF Audit, Append_, Appends, Harnessed
<1>4. DraftReturns(d) => Appends(d, Completed(d))
  BY DEF DraftReturns, Emit, Append_, Appends, Completed, Tooled
<1>5. QED
  BY <1>1, <1>2, <1>3, <1>4
     DEF DraftComposed, PolicyAllows, ExecuteReplays, ExecuteStarts, EffectReturns,
         DraftReturns, Records, HarnessEvents

\* How a step that records goes from one await to the next.
Moved(x, to) == at' = [at EXCEPT ![x] = to]

LEMMA TypeStays ==
    ASSUME TypeInv, NEW x, NEW e, Records(x, e), NEW to \in Ats, Moved(x, to),
           x \in Reads => to \in ReadAts,
           cache' \in [Keys -> Drafts \cup {NoDraft}],
           body' \in [Drafts -> Drafts \cup {NoDraft}]
    PROVE  TypeInv'
<1>1. /\ trail' \in [Traces -> Seq(Entries)]
      /\ \A t \in Traces : \A i \in 1..Len(trail'[t]) : TraceOf[trail'[t][i].call] = t
  BY AppendsAtTheEnd DEF Records
<1>2. x \in ToolCalls /\ x \notin Stubs
  BY ServerAssumption DEF Records, ToolCalls
<1>3. at' \in [ToolCalls -> Ats]
  BY <1>2 DEF TypeInv, Moved
<1>4. \A r \in Reads : at'[r] \in ReadAts
  BY <1>2 DEF TypeInv, Moved, ToolCalls
<1>5. \A y \in Stubs : at'[y] \in StubAts
  BY <1>2 DEF TypeInv, Moved, ToolCalls
<1>6. QED
  BY <1>1, <1>3, <1>4, <1>5 DEF TypeInv

LEMMA TypeStep == TypeInv /\ [ServerNext]_vars => TypeInv'
<1> SUFFICES ASSUME TypeInv, [ServerNext]_vars PROVE TypeInv'
  OBVIOUS
<1> USE DEF Ats, ReadAts
<1>1. CASE UNCHANGED vars
  BY <1>1 DEF vars, TypeInv
<1>2. ASSUME NEW x \in ToolCalls, ArgsRefused(x) PROVE TypeInv'
  BY <1>2, ServerAssumption DEF ArgsRefused, Moves, TypeInv, StubAts, ToolCalls
<1>3. ASSUME NEW x \in ToolCalls, NotImplemented(x) PROVE TypeInv'
  BY <1>3, ServerAssumption DEF NotImplemented, Moves, TypeInv, StubAts, ToolCalls
<1>4. ASSUME NEW x \in ToolCalls, ToolCalled(x) PROVE TypeInv'
  BY <1>4, CalledRecords, TypeStays DEF ToolCalled, Moves, Moved, TypeInv
<1>5. ASSUME NEW x \in ToolCalls, ReadCompletes(x) PROVE TypeInv'
  BY <1>5, CalledRecords, TypeStays DEF ReadCompletes, Moves, Moved, TypeInv
<1>6. ASSUME NEW x \in ToolCalls, HandlerThrows(x) PROVE TypeInv'
  BY <1>6, CalledRecords, TypeStays DEF HandlerThrows, Moves, Moved, TypeInv
<1>7. \A d \in Drafts : d \notin Reads /\ PlanKey[d] \in Keys
  BY ServerAssumption DEF Keys
<1>8. ASSUME NEW d \in Drafts, DraftComposed(d) PROVE TypeInv'
  BY <1>7, <1>8, DraftRecords, TypeStays DEF DraftComposed, Moves, Moved, TypeInv
<1>9. ASSUME NEW d \in Drafts, PolicyAllows(d) PROVE TypeInv'
  BY <1>7, <1>9, DraftRecords, TypeStays DEF PolicyAllows, Moves, Moved, TypeInv
<1>10. ASSUME NEW d \in Drafts, ExecuteReplays(d) PROVE TypeInv'
  <2>1. body' \in [Drafts -> Drafts \cup {NoDraft}] /\ UNCHANGED cache
    BY <1>7, <1>10 DEF ExecuteReplays, TypeInv
  <2>2. Moved(d, "replay")
    BY <1>10 DEF ExecuteReplays, Moves, Moved
  <2>3. QED
    BY <1>7, <1>10, <2>1, <2>2, DraftRecords, TypeStays DEF TypeInv
<1>11. ASSUME NEW d \in Drafts, ExecuteStarts(d) PROVE TypeInv'
  BY <1>7, <1>11, DraftRecords, TypeStays DEF ExecuteStarts, Moves, Moved, TypeInv
<1>12. ASSUME NEW d \in Drafts, EffectReturns(d) PROVE TypeInv'
  BY <1>7, <1>12, DraftRecords, TypeStays DEF EffectReturns, Moves, Moved, TypeInv
<1>13. ASSUME NEW d \in Drafts, ExecuteReturns(d) PROVE TypeInv'
  BY <1>7, <1>13, ServerAssumption DEF ExecuteReturns, Moves, TypeInv, ToolCalls
<1>14. ASSUME NEW d \in Drafts, DraftReturns(d) PROVE TypeInv'
  BY <1>7, <1>14, DraftRecords, TypeStays DEF DraftReturns, Moves, Moved, TypeInv
<1>15. ASSUME (\E t \in Traces : Collects(t)) \/ Verifies \/ BuildReturns PROVE TypeInv'
  BY <1>15 DEF Collects, Verifies, BuildReturns, TypeInv
<1>16. QED
  BY <1>1, <1>2, <1>3, <1>4, <1>5, <1>6, <1>8, <1>9, <1>10, <1>11, <1>12, <1>13, <1>14, <1>15
     DEF ServerNext

\* Every step leaves the trail alone or records one entry.
LEMMA StepRecords ==
    ASSUME TypeInv, ServerNext
    PROVE  UNCHANGED trail \/ \E x, e : Records(x, e)
  BY CalledRecords, DraftRecords
     DEF ServerNext, ArgsRefused, NotImplemented, ExecuteReturns, Collects, Verifies, BuildReturns

LEMMA ExportStep == TypeInv /\ ExportInv /\ [ServerNext]_vars => ExportInv'
<1> SUFFICES ASSUME TypeInv, ExportInv, [ServerNext]_vars PROVE ExportInv'
  OBVIOUS
<1>1. \A t \in Traces : Len(trail[t]) \in Nat
  BY DEF TypeInv
<1>2. CASE UNCHANGED <<trail, export>>
  BY <1>2 DEF ExportInv
<1>3. ASSUME NEW x, NEW e, Records(x, e) PROVE ExportInv'
  BY <1>3, ExportStays DEF Records
<1>4. ASSUME NEW t \in Traces, Collects(t) PROVE ExportInv'
  BY <1>1, <1>4 DEF Collects, ExportInv
<1>5. CASE Verifies
  <2>1. PICK t \in Traces, n \in Nat :
          n <= Len(trail[t]) /\ export = Exporting("collected", t, n, export.verified)
    BY <1>5 DEF Verifies, ExportInv, Exporting
  <2>2. export' = Exporting("built", t, n, Len(trail[t])) /\ UNCHANGED trail
    BY <1>5, <2>1 DEF Verifies, Exporting
  <2>3. QED
    BY <1>1, <2>1, <2>2 DEF ExportInv
<1>6. CASE BuildReturns
  BY <1>6 DEF BuildReturns, ExportInv
<1>7. CASE ServerNext
  <2>1. \/ \E x, e : Records(x, e)
        \/ UNCHANGED <<trail, export>>
        \/ (\E t \in Traces : Collects(t)) \/ Verifies \/ BuildReturns
    BY <1>7, CalledRecords, DraftRecords DEF ServerNext, ArgsRefused, NotImplemented, ExecuteReturns
  <2>2. QED
    BY <1>2, <1>3, <1>4, <1>5, <1>6, <2>1
<1>8. CASE UNCHANGED vars
  BY <1>2, <1>8 DEF vars
<1>9. QED
  BY <1>7, <1>8

\* A step that records keeps CacheInv and ReplayInv when the cache and the
\* bodies stay, and no answered draft and none that awaits its answer moves.
Quiet(x, e, to) ==
    /\ Records(x, e) /\ Moved(x, to)
    /\ UNCHANGED <<cache, body>>
    /\ at[x] \notin {"value", "executed"} \/ to = "value"
    /\ to \notin {"executed", "replay"}
    /\ \A d \in Drafts : e # Harnessed("execute.replayed", d)
    /\ to = "recorded" => e = Harnessed("execute.completed", x)

LEMMA QuietKeeps ==
    ASSUME TypeInv, CacheInv, ReplayInv, NEW x, NEW e, NEW to \in Ats, Quiet(x, e, to)
    PROVE  CacheInv' /\ ReplayInv'
<1>1. x \in Drafts \cup Reads /\ e \in Entries /\ e.call = x /\ Appends(x, e)
  BY DEF Quiet, Records
<1>2. \A y \in ToolCalls : at'[y] = IF y = x THEN to ELSE at[y]
  BY DEF Quiet, Moved, TypeInv
<1>3. ASSUME NEW k \in Keys, cache'[k] # NoDraft
      PROVE  at'[cache'[k]] \in {"executed", "value"}
             /\ HarnessRecorded("execute.completed", cache[k])'
  <2>1. cache[k] \in Drafts /\ cache'[k] = cache[k]
    BY <1>3 DEF Quiet, TypeInv
  <2>2. at[cache[k]] \in {"executed", "value"} /\ HarnessRecorded("execute.completed", cache[k])
    BY <1>3, <2>1 DEF CacheInv
  <2>3. at'[cache[k]] \in {"executed", "value"}
    BY <1>2, <2>1, <2>2 DEF Quiet, ToolCalls
  <2>4. HarnessRecorded("execute.completed", cache[k])'
    <3>1. PICK c \in Drafts : c = cache[k] /\ c = cache'[k]
      BY <2>1
    <3>2. HarnessRecorded("execute.completed", c)'
      BY <1>1, <2>2, <3>1, RecordsGrow
    <3>3. QED
      BY <3>1, <3>2 DEF HarnessRecorded
  <2>5. QED
    BY <2>1, <2>3, <2>4
<1>4. ASSUME NEW d \in Drafts, at'[d] \in {"recorded", "executed"}
      PROVE  HarnessRecorded("execute.completed", d)'
  <2>1. CASE d = x
    <3>1. e = Harnessed("execute.completed", d)
      BY <1>2, <1>4, <2>1 DEF Quiet, ToolCalls
    <3>2. QED
      BY <1>1, <3>1, RecordsGrow
  <2>2. CASE d # x
    <3>1. HarnessRecorded("execute.completed", d)
      BY <1>2, <1>4, <2>2 DEF CacheInv, ToolCalls
    <3>2. QED
      BY <1>1, <3>1, RecordsGrow
  <2>3. QED
    BY <2>1, <2>2
<1>5. ASSUME NEW d \in Drafts
      PROVE  /\ at'[d] = "executed" => body'[d] = d
             /\ at'[d] = "replay" => body'[d] \notin {d, NoDraft}
  BY <1>2 DEF CacheInv, Quiet, ToolCalls
<1>6. ASSUME NEW d \in Drafts, HarnessRecorded("execute.replayed", d)'
      PROVE  body'[d] \in Drafts /\ HarnessRecorded("execute.completed", body[d])'
  <2>1. HarnessRecorded("execute.replayed", d)
    BY <1>1, <1>6, RecordsGrow DEF Quiet
  <2>2. PICK c \in Drafts : c = body[d] /\ c = body'[d] /\ HarnessRecorded("execute.completed", c)
    BY <2>1 DEF ReplayInv, Quiet
  <2>3. HarnessRecorded("execute.completed", c)'
    BY <1>1, <2>2, RecordsGrow
  <2>4. QED
    BY <2>2, <2>3 DEF HarnessRecorded
<1>7. QED
  BY <1>3, <1>4, <1>5, <1>6 DEF CacheInv, ReplayInv

LEMMA SilentKeeps ==
    ASSUME TypeInv, CacheInv, ReplayInv, UNCHANGED <<trail, cache, body>>,
           \A d \in Drafts : at'[d] # at[d] => at[d] = "idle" /\ at'[d] \in {"refused", "error"}
    PROVE  CacheInv' /\ ReplayInv'
<1>1. \A k \in Keys : cache[k] # NoDraft => cache[k] \in Drafts
  BY DEF TypeInv
<1>2. CacheInv'
  BY <1>1 DEF CacheInv, HarnessRecorded
<1>3. ReplayInv'
  BY DEF ReplayInv, HarnessRecorded
<1>4. QED
  BY <1>2, <1>3

LEMMA ReplayKeeps ==
    ASSUME TypeInv, CacheInv, ReplayInv, NEW d \in Drafts, ExecuteReplays(d)
    PROVE  CacheInv' /\ ReplayInv'
<1> DEFINE e == Harnessed("execute.replayed", d)
<1>1. d \in Drafts \cup Reads /\ e \in Entries /\ e.call = d /\ Appends(d, e)
  BY DraftRecords DEF Records
<1>2. PICK c \in Drafts : c = cache[PlanKey[d]] /\ body' = [body EXCEPT ![d] = c]
  BY ServerAssumption DEF ExecuteReplays, TypeInv, Keys
<1>3. at[c] \in {"executed", "value"} /\ HarnessRecorded("execute.completed", c)
  BY <1>2, ServerAssumption DEF CacheInv, Keys, ExecuteReplays
<1>4. c # d /\ at[d] = "decided"
  BY <1>3 DEF ExecuteReplays, Moves
<1>5. \A y \in ToolCalls : at'[y] = IF y = d THEN "replay" ELSE at[y]
  BY DEF ExecuteReplays, Moves, TypeInv
<1>6. cache' = cache /\ \A y \in Drafts : body'[y] = IF y = d THEN c ELSE body[y]
  BY <1>2 DEF ExecuteReplays, TypeInv
<1>7. ASSUME NEW k \in Keys, cache'[k] # NoDraft
      PROVE  at'[cache'[k]] \in {"executed", "value"}
             /\ HarnessRecorded("execute.completed", cache[k])'
  <2>1. PICK b \in Drafts : b = cache[k] /\ b = cache'[k]
    BY <1>6, <1>7 DEF TypeInv
  <2>2. at[b] \in {"executed", "value"} /\ HarnessRecorded("execute.completed", b)
    BY <1>6, <1>7, <2>1 DEF CacheInv
  <2>3. HarnessRecorded("execute.completed", b)'
    BY <1>1, <2>2, RecordsGrow
  <2>4. at'[b] \in {"executed", "value"}
    BY <1>4, <1>5, <2>2 DEF ToolCalls
  <2>5. QED
    BY <2>1, <2>3, <2>4 DEF HarnessRecorded
<1>8. ASSUME NEW y \in Drafts, at'[y] \in {"recorded", "executed"}
      PROVE  HarnessRecorded("execute.completed", y)'
  <2>1. HarnessRecorded("execute.completed", y)
    BY <1>5, <1>8 DEF CacheInv, ToolCalls
  <2>2. QED
    BY <1>1, <2>1, RecordsGrow
<1>9. ASSUME NEW y \in Drafts
      PROVE  /\ at'[y] = "executed" => body'[y] = y
             /\ at'[y] = "replay" => body'[y] \notin {y, NoDraft}
  BY <1>4, <1>5, <1>6, ServerAssumption DEF CacheInv, ToolCalls
<1>10. ASSUME NEW y \in Drafts, HarnessRecorded("execute.replayed", y)'
       PROVE  body'[y] \in Drafts /\ HarnessRecorded("execute.completed", body[y])'
  <2>1. PICK b \in Drafts : b = body'[y] /\ HarnessRecorded("execute.completed", b)
    <3>1. CASE y = d
      BY <1>3, <1>6, <3>1
    <3>2. CASE y # d
      <4>1. e # Harnessed("execute.replayed", y)
        BY <3>2 DEF Harnessed
      <4>2. HarnessRecorded("execute.replayed", y)
        BY <1>1, <1>10, <4>1, RecordsGrow
      <4>3. QED
        BY <1>6, <3>2, <4>2 DEF ReplayInv
    <3>3. QED
      BY <3>1, <3>2
  <2>2. HarnessRecorded("execute.completed", b)'
    BY <1>1, <2>1, RecordsGrow
  <2>3. QED
    BY <2>1, <2>2 DEF HarnessRecorded
<1>11. QED
  BY <1>7, <1>8, <1>9, <1>10 DEF CacheInv, ReplayInv

LEMMA ReturnKeeps ==
    ASSUME TypeInv, CacheInv, ReplayInv, NEW d \in Drafts, ExecuteReturns(d)
    PROVE  CacheInv' /\ ReplayInv'
<1>1. trail' = trail /\ at[d] = "recorded" /\ HarnessRecorded("execute.completed", d)
  BY DEF ExecuteReturns, Moves, CacheInv
<1>2. \A y \in ToolCalls : at'[y] = IF y = d THEN "executed" ELSE at[y]
  BY DEF ExecuteReturns, Moves, TypeInv
<1>3. \A y \in Drafts : body'[y] = IF y = d THEN d ELSE body[y]
  BY DEF ExecuteReturns, TypeInv
<1>4. \A k \in Keys : cache'[k] = IF k = PlanKey[d] THEN d ELSE cache[k]
  BY DEF ExecuteReturns, TypeInv
<1>5. \A k \in Keys : cache[k] # NoDraft => cache[k] \in Drafts
  BY DEF TypeInv
<1>6. Drafts \subseteq ToolCalls
  BY DEF ToolCalls
<1>7. CacheInv'
  BY <1>1, <1>2, <1>3, <1>4, <1>5, <1>6 DEF CacheInv, HarnessRecorded
<1>8. ReplayInv'
  BY <1>1, <1>3 DEF ReplayInv, HarnessRecorded
<1>9. QED
  BY <1>7, <1>8

LEMMA CacheStep ==
    TypeInv /\ CacheInv /\ ReplayInv /\ [ServerNext]_vars => CacheInv' /\ ReplayInv'
<1> SUFFICES ASSUME TypeInv, CacheInv, ReplayInv, [ServerNext]_vars
             PROVE  CacheInv' /\ ReplayInv'
  OBVIOUS
<1> USE DEF Moves, Moved, Quiet, Ats
<1>1. \A event, x, d : Tooled(event, x) # Harnessed("execute.replayed", d)
  BY DEF Tooled, Harnessed
<1>2. ASSUME NEW x \in ToolCalls, ArgsRefused(x) \/ NotImplemented(x)
      PROVE  CacheInv' /\ ReplayInv'
  <2>1. UNCHANGED <<trail, cache, body>> /\ at[x] = "idle"
        /\ \E to \in {"refused", "error"} : at' = [at EXCEPT ![x] = to]
    BY <1>2 DEF ArgsRefused, NotImplemented
  <2>2. \A d \in Drafts : at'[d] # at[d] => at[d] = "idle" /\ at'[d] \in {"refused", "error"}
    BY <2>1 DEF TypeInv, ToolCalls
  <2>3. QED
    BY <2>1, <2>2, SilentKeeps
<1>3. ASSUME NEW x \in ToolCalls, ToolCalled(x) PROVE CacheInv' /\ ReplayInv'
  <2>1. Quiet(x, Tooled("execute.started", x), "get")
    BY <1>1, <1>3, CalledRecords DEF ToolCalled
  <2>2. QED
    BY <2>1, QuietKeeps
<1>4. ASSUME NEW x \in ToolCalls, ReadCompletes(x) PROVE CacheInv' /\ ReplayInv'
  <2>1. Quiet(x, Completed(x), "value")
    BY <1>1, <1>4, CalledRecords DEF ReadCompletes, Completed
  <2>2. QED
    BY <2>1, QuietKeeps
<1>5. ASSUME NEW x \in ToolCalls, HandlerThrows(x) PROVE CacheInv' /\ ReplayInv'
  <2>1. Quiet(x, Tooled("execute.failed", x), "error")
    BY <1>1, <1>5, CalledRecords DEF HandlerThrows
  <2>2. QED
    BY <2>1, QuietKeeps
<1>6. ASSUME NEW d \in Drafts, DraftComposed(d) PROVE CacheInv' /\ ReplayInv'
  <2>1. Quiet(d, Harnessed("plan.created", d), "policy")
    BY <1>6, DraftRecords DEF DraftComposed, Harnessed
  <2>2. QED
    BY <2>1, QuietKeeps
<1>7. ASSUME NEW d \in Drafts, PolicyAllows(d) PROVE CacheInv' /\ ReplayInv'
  <2>1. Quiet(d, Harnessed("policy.decided", d), "decided")
    BY <1>7, DraftRecords DEF PolicyAllows, Harnessed
  <2>2. QED
    BY <2>1, QuietKeeps
<1>8. ASSUME NEW d \in Drafts, ExecuteStarts(d) PROVE CacheInv' /\ ReplayInv'
  <2>1. Quiet(d, Harnessed("execute.started", d), "effect")
    BY <1>8, DraftRecords DEF ExecuteStarts, Harnessed
  <2>2. QED
    BY <2>1, QuietKeeps
<1>9. ASSUME NEW d \in Drafts, EffectReturns(d) PROVE CacheInv' /\ ReplayInv'
  <2>1. Quiet(d, Harnessed("execute.completed", d), "recorded")
    BY <1>9, DraftRecords DEF EffectReturns, Harnessed
  <2>2. QED
    BY <2>1, QuietKeeps
<1>10. ASSUME NEW d \in Drafts, DraftReturns(d) PROVE CacheInv' /\ ReplayInv'
  <2>1. Quiet(d, Completed(d), "value")
    BY <1>1, <1>10, DraftRecords DEF DraftReturns, Completed
  <2>2. QED
    BY <2>1, QuietKeeps
<1>11. ASSUME (\E t \in Traces : Collects(t)) \/ Verifies \/ BuildReturns \/ UNCHANGED vars
       PROVE  CacheInv' /\ ReplayInv'
  BY <1>11, SilentKeeps DEF Collects, Verifies, BuildReturns, vars
<1>12. QED
  BY <1>2, <1>3, <1>4, <1>5, <1>6, <1>7, <1>8, <1>9, <1>10, <1>11, ReplayKeeps, ReturnKeeps
     DEF ServerNext

LEMMA OrderStep == TypeInv /\ CacheInv /\ OrderInv /\ [ServerNext]_vars => OrderInv'
<1> SUFFICES ASSUME TypeInv, CacheInv, OrderInv, [ServerNext]_vars PROVE OrderInv'
  OBVIOUS
\* Drafts that were answered stay as they are.
<1>1. \A d \in Drafts : at[d] = "value" => at'[d] = "value" /\ body'[d] = body[d]
  <2> Drafts \subseteq ToolCalls
    BY DEF ToolCalls
  <2> USE DEF Moves, TypeInv
  <2>1. ASSUME NEW x \in ToolCalls,
               ArgsRefused(x) \/ NotImplemented(x) \/ ToolCalled(x) \/ ReadCompletes(x)
                 \/ HandlerThrows(x)
        PROVE  \A d \in Drafts : at[d] = "value" => at'[d] = "value" /\ body'[d] = body[d]
    BY <2>1 DEF ArgsRefused, NotImplemented, ToolCalled, ReadCompletes, HandlerThrows
  <2>2. ASSUME NEW x \in Drafts,
               DraftComposed(x) \/ PolicyAllows(x) \/ ExecuteReplays(x) \/ ExecuteStarts(x)
        PROVE  \A d \in Drafts : at[d] = "value" => at'[d] = "value" /\ body'[d] = body[d]
    BY <2>2 DEF DraftComposed, PolicyAllows, ExecuteReplays, ExecuteStarts
  <2>3. ASSUME NEW x \in Drafts, EffectReturns(x) \/ ExecuteReturns(x) \/ DraftReturns(x)
        PROVE  \A d \in Drafts : at[d] = "value" => at'[d] = "value" /\ body'[d] = body[d]
    BY <2>3 DEF EffectReturns, ExecuteReturns, DraftReturns
  <2>4. ASSUME (\E t \in Traces : Collects(t)) \/ Verifies \/ BuildReturns \/ UNCHANGED vars
        PROVE  \A d \in Drafts : at[d] = "value" => at'[d] = "value" /\ body'[d] = body[d]
    BY <2>4 DEF Collects, Verifies, BuildReturns, vars
  <2>5. QED
    BY <2>1, <2>2, <2>3, <2>4 DEF ServerNext
<1> SUFFICES ASSUME NEW d \in Drafts, NEW i \in 1..Len(trail'[TraceOf[d]]),
                    EntryAt(d, i)' = Completed(d)
             PROVE  /\ at'[d] = "value"
                    /\ body'[d] \in {d, NoDraft} =>
                         \E j \in 1..(i - 1) : EntryAt(d, j)' = Harnessed("execute.completed", d)
  BY DEF OrderInv, Completed, Tooled, Harnessed
<1>2. CASE UNCHANGED trail
  <2>1. EntryAt(d, i) = Completed(d) /\ i \in 1..Len(trail[TraceOf[d]])
    BY <1>2 DEF EntryAt
  <2>2. at[d] = "value" /\ body'[d] = body[d] /\ at'[d] = "value"
    BY <1>1, <2>1 DEF OrderInv
  <2>3. \A j : EntryAt(d, j)' = EntryAt(d, j)
    BY <1>2 DEF EntryAt
  <2>4. QED
    BY <2>1, <2>2, <2>3 DEF OrderInv
<1>3. ASSUME NEW x, NEW e, Records(x, e), e # Completed(d)
      PROVE  /\ at'[d] = "value"
             /\ body'[d] \in {d, NoDraft} =>
                  \E j \in 1..(i - 1) : EntryAt(d, j)' = Harnessed("execute.completed", d)
  BY <1>1, <1>3, OrderStays DEF Records
<1>4. ASSUME DraftReturns(d)
      PROVE  /\ at'[d] = "value"
             /\ body'[d] \in {d, NoDraft} =>
                  \E j \in 1..(i - 1) : EntryAt(d, j)' = Harnessed("execute.completed", d)
  <2> DEFINE t == TraceOf[d]
  <2>1. Records(d, Completed(d)) /\ t \in Traces
    BY <1>4, DraftRecords, ACallHasATrace DEF ToolCalls
  <2>2. /\ trail' \in [Traces -> Seq(Entries)]
        /\ Len(trail[t]) \in Nat
        /\ \A j \in 1..Len(trail[t]) : trail'[t][j] = trail[t][j]
    BY <2>1, AppendsAtTheEnd DEF Records
  <2>3. at'[d] = "value" /\ body' = body /\ at[d] \in {"replay", "executed"}
    BY <1>4 DEF DraftReturns, Moves, TypeInv, ToolCalls
  <2>4. i \notin 1..Len(trail[t])
    BY <2>2, <2>3 DEF OrderInv, EntryAt
  <2>5. ASSUME body[d] \in {d, NoDraft}
        PROVE  \E j \in 1..(i - 1) : EntryAt(d, j)' = Harnessed("execute.completed", d)
    <3>1. HarnessRecorded("execute.completed", d)
      BY <2>3, <2>5 DEF CacheInv
    <3>2. PICK j \in DOMAIN trail[t] : trail[t][j] = Harnessed("execute.completed", d)
      BY <3>1 DEF HarnessRecorded, Harnessed
    <3>3. j \in 1..Len(trail[t]) /\ i \in Nat
      BY <2>1, <2>2 DEF TypeInv
    <3>4. j \in 1..(i - 1)
      BY <2>2, <2>4, <3>3
    <3>5. QED
      BY <2>2, <3>2, <3>3, <3>4 DEF EntryAt
  <2>6. QED
    BY <2>3, <2>5
<1>5. CASE ServerNext
  <2>1. \/ UNCHANGED trail \/ DraftReturns(d)
        \/ \E x, e : Records(x, e) /\ e # Completed(d)
    <3>1. ASSUME NEW x \in ToolCalls, ReadCompletes(x) PROVE Completed(x) # Completed(d)
      BY <3>1, ServerAssumption DEF ReadCompletes, Completed, Tooled
    <3>2. \A x : Tooled("execute.started", x) # Completed(d)
               /\ Tooled("execute.failed", x) # Completed(d)
      BY DEF Completed, Tooled
    <3>3. \A event, x : Harnessed(event, x) # Completed(d)
      BY DEF Completed, Tooled, Harnessed
    <3>4. \A x \in Drafts : x # d => Completed(x) # Completed(d)
      BY DEF Completed, Tooled
    <3>5. ASSUME NEW x \in ToolCalls, ToolCalled(x) \/ ReadCompletes(x) \/ HandlerThrows(x)
          PROVE  \E y, e : Records(y, e) /\ e # Completed(d)
      BY <3>1, <3>2, <3>5, CalledRecords
    <3>6. ASSUME NEW x \in Drafts,
                 \/ DraftComposed(x) \/ PolicyAllows(x) \/ ExecuteReplays(x)
                 \/ ExecuteStarts(x) \/ EffectReturns(x) \/ (DraftReturns(x) /\ x # d)
          PROVE  \E y, e : Records(y, e) /\ e # Completed(d)
      BY <3>3, <3>4, <3>6, DraftRecords
    <3>7. ASSUME NEW x \in ToolCalls, ArgsRefused(x) \/ NotImplemented(x)
          PROVE  UNCHANGED trail
      BY <3>7 DEF ArgsRefused, NotImplemented
    <3>8. ASSUME NEW x \in Drafts, ExecuteReturns(x)
          PROVE  UNCHANGED trail
      BY <3>8 DEF ExecuteReturns
    <3>9. ASSUME (\E t \in Traces : Collects(t)) \/ Verifies \/ BuildReturns
          PROVE  UNCHANGED trail
      BY <3>9 DEF Collects, Verifies, BuildReturns
    <3>10. ASSUME NEW x \in Drafts, DraftReturns(x)
           PROVE  DraftReturns(d) \/ \E y, e : Records(y, e) /\ e # Completed(d)
      <4>1. CASE x = d
        BY <3>10, <4>1
      <4>2. CASE x # d
        BY <3>6, <3>10, <4>2
      <4>3. QED
        BY <4>1, <4>2
    <3>11. QED
      BY <1>5, <3>5, <3>6, <3>7, <3>8, <3>9, <3>10 DEF ServerNext
  <2>2. QED
    BY <1>2, <1>3, <1>4, <2>1
<1>6. CASE UNCHANGED vars
  BY <1>2, <1>6 DEF vars
<1>7. QED
  BY <1>5, <1>6

----------------------------------------------------------------------------
\* What a call wrote.

LEMMA OwnPlaces ==
    ASSUME TypeInv, NEW x \in ToolCalls
    PROVE  /\ Own(x) \subseteq 1..Len(trail[TraceOf[x]])
           /\ IsFiniteSet(Own(x)) /\ Cardinality(Own(x)) \in Nat
           /\ \A i \in Own(x) : Cardinality({j \in Own(x) : j <= i}) \in 1..Cardinality(Own(x))
<1> DEFINE n == Len(trail[TraceOf[x]])
<1>1. trail[TraceOf[x]] \in Seq(Entries) /\ n \in Nat
  BY ACallHasATrace DEF TypeInv
<1>2. Own(x) \subseteq 1..n
  BY <1>1 DEF Own
<1>3. IsFiniteSet(1..n)
  <2>1. \A m \in Nat : IsFiniteSet(1..m)
    BY FS_Interval
  <2>2. QED
    BY <1>1, <2>1
<1>4. IsFiniteSet(Own(x)) /\ Cardinality(Own(x)) \in Nat
  BY <1>2, <1>3, FS_Subset, FS_CardinalityType
<1>5. ASSUME NEW i \in Own(x)
      PROVE  Cardinality({j \in Own(x) : j <= i}) \in 1..Cardinality(Own(x))
  <2> DEFINE upTo == {j \in Own(x) : j <= i}
  <2>1. upTo \in SUBSET Own(x)
    OBVIOUS
  <2>2. i \in upTo
    BY <1>1, <1>2
  <2>3. IsFiniteSet(upTo) /\ Cardinality(upTo) <= Cardinality(Own(x))
    BY <1>4, <2>1, FS_Subset
  <2>4. Cardinality(upTo) \in Nat
    BY <2>3, FS_CardinalityType
  <2>5. Cardinality(upTo) # 0
    BY <2>2, <2>3, FS_EmptySet
  <2> HIDE DEF upTo
  <2>6. Cardinality(upTo) \in 1..Cardinality(Own(x))
    BY <1>4, <2>3, <2>4, <2>5
  <2>7. QED
    BY <2>6 DEF upTo
<1>6. QED
  BY <1>2, <1>4, <1>5

\* The entry that a call records comes after those it wrote.
LEMMA WroteMore ==
    ASSUME TypeInv, NEW x, NEW e, Records(x, e), NEW s \in Seq(Events), Wrote(x, s)
    PROVE  Wrote(x, Append(s, e.event))'
<1> DEFINE t == TraceOf[x]
           n == Len(trail[t])
<1>1. x \in ToolCalls /\ t \in Traces
  BY ACallHasATrace DEF Records, ToolCalls
<1>2. trail[t] \in Seq(Entries) /\ n \in Nat /\ trail'[t] = Append(trail[t], e)
  BY <1>1 DEF TypeInv, Records, Appends
<1>3. /\ DOMAIN trail[t] = 1..n /\ DOMAIN trail'[t] = 1..(n + 1)
      /\ \A i \in 1..n : trail'[t][i] = trail[t][i]
      /\ trail'[t][n + 1] = e
  BY <1>2 DEF Records
<1>4. Own(x)' = Own(x) \cup {n + 1} /\ n + 1 \notin Own(x) /\ Own(x) \subseteq 1..n
  BY <1>2, <1>3 DEF Own, Records
<1>5. /\ IsFiniteSet(Own(x)) /\ Cardinality(Own(x)) = Len(s) /\ Len(s) \in Nat
      /\ \A i \in Own(x) : Cardinality({j \in Own(x) : j <= i}) \in 1..Len(s)
      /\ \A i \in Own(x) : trail[t][i].event = s[Cardinality({j \in Own(x) : j <= i})]
  BY <1>1, OwnPlaces DEF Wrote
<1>6. Cardinality(Own(x)') = Len(s) + 1
  BY <1>4, <1>5, FS_AddElement
<1>7. ASSUME NEW i \in Own(x)'
      PROVE  trail'[t][i].event = Append(s, e.event)[Cardinality({j \in Own(x)' : j <= i})]
  <2>1. CASE i \in Own(x)
    <3>1. {j \in Own(x)' : j <= i} = {j \in Own(x) : j <= i}
      BY <1>2, <1>4, <2>1
    <3>2. PICK k \in 1..Len(s) : k = Cardinality({j \in Own(x) : j <= i})
      BY <1>5, <2>1
    <3>3. trail'[t][i] = trail[t][i] /\ trail[t][i].event = s[k]
      BY <1>3, <1>4, <1>5, <2>1, <3>2
    <3>4. Append(s, e.event)[k] = s[k]
      OBVIOUS
    <3>5. QED
      BY <3>1, <3>2, <3>3, <3>4
  <2>2. CASE i = n + 1
    <3>1. {j \in Own(x)' : j <= i} = Own(x)'
      BY <1>2, <1>4, <2>2
    <3>2. Append(s, e.event)[Len(s) + 1] = e.event
      OBVIOUS
    <3>3. QED
      BY <1>3, <1>6, <2>2, <3>1, <3>2
  <2>3. QED
    BY <1>4, <2>1, <2>2
<1>8. Len(Append(s, e.event)) = Len(s) + 1
  OBVIOUS
<1>9. QED
  BY <1>6, <1>7, <1>8 DEF Wrote

\* It leaves alone what the others wrote.
LEMMA WroteKept ==
    ASSUME TypeInv, NEW x, NEW e, Records(x, e), NEW y \in ToolCalls, y # x, NEW s, Wrote(y, s)
    PROVE  Wrote(y, s)'
<1> DEFINE t == TraceOf[y]
<1>1. t \in Traces
  BY ACallHasATrace
<1>2. /\ trail' \in [Traces -> Seq(Entries)]
      /\ Len(trail[t]) \in Nat /\ Len(trail'[t]) \in Nat /\ Len(trail[t]) <= Len(trail'[t])
      /\ \A i \in 1..Len(trail[t]) : trail'[t][i] = trail[t][i]
      /\ \A i \in 1..Len(trail'[t]) : i \in 1..Len(trail[t]) \/ trail'[t][i] = e
  BY <1>1, AppendsAtTheEnd DEF Records
<1>3. DOMAIN trail[t] = 1..Len(trail[t]) /\ DOMAIN trail'[t] = 1..Len(trail'[t])
  BY <1>1, <1>2 DEF TypeInv
<1>4. Own(y)' = Own(y) /\ \A i \in Own(y) : trail'[t][i] = trail[t][i]
  BY <1>2, <1>3 DEF Own, Records
<1>5. QED
  BY <1>4 DEF Wrote

\* A step that records lengthens what its call wrote, and nothing else.
LEMMA TrailRecords ==
    ASSUME TypeInv, TrailInv, NEW x, NEW e, Records(x, e), NEW to, Moved(x, to),
           Continues(x, at[x], e.event, to)
    PROVE  TrailInv'
<1>1. x \in ToolCalls /\ e.event \in Events
  BY DEF Records, ToolCalls, Entries, Events
<1>2. \A y \in ToolCalls : at'[y] = IF y = x THEN to ELSE at[y]
  BY DEF Moved, TypeInv
<1>3. \E s \in Seq(Events) : Wrote(x, s)' /\ Tells(x, at'[x], s)
  <2>1. PICK s \in Seq(Events) : Wrote(x, s) /\ Tells(x, at[x], s)
    BY <1>1 DEF TrailInv
  <2>2. Wrote(x, Append(s, e.event))'
    BY <2>1, WroteMore
  <2>3. Append(s, e.event) \in Seq(Events) /\ Tells(x, at'[x], Append(s, e.event))
    BY <1>1, <1>2, <2>1 DEF Continues
  <2>4. QED
    BY <2>2, <2>3
<1>4. ASSUME NEW y \in ToolCalls, y # x
      PROVE  \E s \in Seq(Events) : Wrote(y, s)' /\ Tells(y, at'[y], s)
  <2>1. PICK s \in Seq(Events) : Wrote(y, s) /\ Tells(y, at[y], s)
    BY DEF TrailInv
  <2>2. Wrote(y, s)'
    BY <1>4, <2>1, WroteKept
  <2>3. QED
    BY <1>2, <1>4, <2>1, <2>2
<1>5. QED
  BY <1>3, <1>4 DEF TrailInv

LEMMA TrailSilent ==
    ASSUME TypeInv, TrailInv, UNCHANGED trail, NEW x \in ToolCalls, NEW to, Moved(x, to),
           \A s \in Seq(Events) : Tells(x, at[x], s) => Tells(x, to, s)
    PROVE  TrailInv'
<1>1. \A y \in ToolCalls : at'[y] = IF y = x THEN to ELSE at[y]
  BY DEF Moved, TypeInv
<1>2. \A y \in ToolCalls, s \in Seq(Events) : Wrote(y, s) => Wrote(y, s)'
  BY DEF Wrote, Own
<1>3. QED
  BY <1>1, <1>2 DEF TrailInv

LEMMA TrailStep == TypeInv /\ TrailInv /\ [ServerNext]_vars => TrailInv'
<1> SUFFICES ASSUME TypeInv, TrailInv, [ServerNext]_vars PROVE TrailInv'
  OBVIOUS
<1> USE DEF Moves, Moved
<1>1. CASE UNCHANGED <<at, trail>>
  <2>1. \A x \in ToolCalls, s \in Seq(Events) : Wrote(x, s) => Wrote(x, s)'
    BY <1>1 DEF Wrote, Own
  <2>2. QED
    BY <1>1, <2>1 DEF TrailInv
<1>2. ASSUME NEW x \in ToolCalls, ArgsRefused(x) PROVE TrailInv'
  BY <1>2, TrailSilent DEF ArgsRefused, Tells
<1>3. ASSUME NEW x \in ToolCalls, NotImplemented(x) PROVE TrailInv'
  BY <1>3, TrailSilent, ServerAssumption DEF NotImplemented, Tells
<1>4. ASSUME NEW x \in ToolCalls, ToolCalled(x) PROVE TrailInv'
  <2>1. Continues(x, "idle", "execute.started", "get")
    BY <1>4 DEF Continues, Tells, Asked, ToolCalled
  <2>2. Records(x, Tooled("execute.started", x)) /\ Tooled("execute.started", x).event = "execute.started"
    BY <1>4, CalledRecords DEF Completed, Tooled
  <2>3. QED
    BY <1>4, <2>1, <2>2, TrailRecords DEF ToolCalled
<1>5. ASSUME NEW x \in ToolCalls, ReadCompletes(x) PROVE TrailInv'
  <2>1. Continues(x, "get", "execute.completed", "value")
    BY <1>5, ServerAssumption DEF Continues, Tells, Done, ReadCompletes
  <2>2. Records(x, Completed(x)) /\ Completed(x).event = "execute.completed"
    BY <1>5, CalledRecords DEF Completed, Tooled
  <2>3. QED
    BY <1>5, <2>1, <2>2, TrailRecords DEF ReadCompletes
<1>6. ASSUME NEW x \in ToolCalls, HandlerThrows(x) PROVE TrailInv'
  <2>1. x \notin Stubs
    BY <1>6 DEF HandlerThrows, TypeInv, StubAts
  <2>2. Continues(x, "get", "execute.failed", "error")
    BY <2>1 DEF Continues, Tells
  <2>3. Records(x, Tooled("execute.failed", x)) /\ Tooled("execute.failed", x).event = "execute.failed"
    BY <1>6, CalledRecords DEF Completed, Tooled
  <2>4. QED
    BY <1>6, <2>2, <2>3, TrailRecords DEF HandlerThrows
<1>7. \A d \in Drafts : d \notin Stubs /\ d \notin Reads
  BY ServerAssumption
<1>8. ASSUME NEW d \in Drafts, DraftComposed(d) PROVE TrailInv'
  <2>1. Continues(d, "get", "plan.created", "policy")
    BY <1>7 DEF Continues, Tells, Asked, Planned
  <2>2. Records(d, Harnessed("plan.created", d)) /\ Harnessed("plan.created", d).event = "plan.created"
    BY <1>8, DraftRecords DEF Harnessed
  <2>3. QED
    BY <1>8, <2>1, <2>2, TrailRecords DEF DraftComposed
<1>9. ASSUME NEW d \in Drafts, PolicyAllows(d) PROVE TrailInv'
  <2>1. Continues(d, "policy", "policy.decided", "decided")
    BY <1>7 DEF Continues, Tells, Planned, Decided
  <2>2. Records(d, Harnessed("policy.decided", d)) /\ Harnessed("policy.decided", d).event = "policy.decided"
    BY <1>9, DraftRecords DEF Harnessed
  <2>3. QED
    BY <1>9, <2>1, <2>2, TrailRecords DEF PolicyAllows
<1>10. ASSUME NEW d \in Drafts, ExecuteReplays(d) PROVE TrailInv'
  <2>1. Continues(d, "decided", "execute.replayed", "replay")
    BY <1>7 DEF Continues, Tells, Replayed
  <2>2. Records(d, Harnessed("execute.replayed", d)) /\ Harnessed("execute.replayed", d).event = "execute.replayed"
    BY <1>10, DraftRecords DEF Harnessed
  <2>3. QED
    BY <1>10, <2>1, <2>2, TrailRecords DEF ExecuteReplays
<1>11. ASSUME NEW d \in Drafts, ExecuteStarts(d) PROVE TrailInv'
  <2>1. Continues(d, "decided", "execute.started", "effect")
    BY <1>7 DEF Continues, Tells, Begun
  <2>2. Records(d, Harnessed("execute.started", d)) /\ Harnessed("execute.started", d).event = "execute.started"
    BY <1>11, DraftRecords DEF Harnessed
  <2>3. QED
    BY <1>11, <2>1, <2>2, TrailRecords DEF ExecuteStarts
<1>12. ASSUME NEW d \in Drafts, EffectReturns(d) PROVE TrailInv'
  <2>1. Continues(d, "effect", "execute.completed", "recorded")
    BY <1>7 DEF Continues, Tells, Executed
  <2>2. Records(d, Harnessed("execute.completed", d)) /\ Harnessed("execute.completed", d).event = "execute.completed"
    BY <1>12, DraftRecords DEF Harnessed
  <2>3. QED
    BY <1>12, <2>1, <2>2, TrailRecords DEF EffectReturns
<1>13. ASSUME NEW d \in Drafts, ExecuteReturns(d) PROVE TrailInv'
  <2>1. d \in ToolCalls /\ \A s : Tells(d, "recorded", s) => Tells(d, "executed", s)
    BY <1>7 DEF Tells, ToolCalls
  <2>2. QED
    BY <1>13, <2>1, TrailSilent DEF ExecuteReturns
<1>14. ASSUME NEW d \in Drafts, DraftReturns(d) PROVE TrailInv'
  <2>1. Records(d, Completed(d)) /\ Completed(d).event = "execute.completed"
    BY <1>14, DraftRecords DEF Completed, Tooled
  <2>2. /\ Continues(d, "replay", "execute.completed", "value")
        /\ Continues(d, "executed", "execute.completed", "value")
    BY <1>7 DEF Continues, Tells, Done
  <2>3. Moved(d, "value") /\ at[d] \in {"replay", "executed"}
    BY <1>14 DEF DraftReturns
  <2>4. QED
    BY <2>1, <2>2, <2>3, TrailRecords
<1>15. ASSUME (\E t \in Traces : Collects(t)) \/ Verifies \/ BuildReturns PROVE UNCHANGED <<at, trail>>
  BY <1>15 DEF Collects, Verifies, BuildReturns
<1>16. QED
  BY <1>1, <1>2, <1>3, <1>4, <1>5, <1>6, <1>8, <1>9, <1>10, <1>11, <1>12, <1>13, <1>14, <1>15
     DEF ServerNext, vars

----------------------------------------------------------------------------
\* Keys.

\* Neither cache nor body changes, and nobody comes to have answered anew.
LEMMA KeySilent ==
    ASSUME KeyInv, UNCHANGED <<cache, body>>,
           \A d \in Drafts : at'[d] \in {"replay", "executed", "value"} =>
             at[d] \in {"replay", "executed", "value"}
    PROVE  KeyInv'
BY DEF KeyInv

LEMMA KeyMoves ==
    ASSUME TypeInv, KeyInv, UNCHANGED <<cache, body>>, NEW x \in ToolCalls, NEW from, NEW to,
           Moves(x, from, to),
           to \in {"replay", "executed", "value"} => from \in {"replay", "executed"} \/ x \in Reads
    PROVE  KeyInv'
<1>1. ASSUME NEW d \in Drafts, at'[d] \in {"replay", "executed", "value"}
      PROVE  at[d] \in {"replay", "executed", "value"}
  BY <1>1, ServerAssumption DEF Moves, TypeInv, ToolCalls
<1>2. QED
  BY <1>1, KeySilent

LEMMA KeyStep == TypeInv /\ KeyInv /\ [ServerNext]_vars => KeyInv'
<1> SUFFICES ASSUME TypeInv, KeyInv, [ServerNext]_vars
             PROVE  KeyInv'
  OBVIOUS
<1>0. Drafts \subseteq ToolCalls
  BY DEF ToolCalls
<1>1. ASSUME NEW x \in ToolCalls, ArgsRefused(x) \/ NotImplemented(x) \/ ToolCalled(x)
                                   \/ ReadCompletes(x) \/ HandlerThrows(x)
      PROVE  KeyInv'
  BY <1>1, KeyMoves DEF ArgsRefused, NotImplemented, ToolCalled, ReadCompletes, HandlerThrows
<1>2. ASSUME NEW d \in Drafts, DraftComposed(d) \/ PolicyAllows(d) \/ ExecuteStarts(d)
                                 \/ EffectReturns(d) \/ DraftReturns(d)
      PROVE  KeyInv'
  BY <1>0, <1>2, KeyMoves DEF DraftComposed, PolicyAllows, ExecuteStarts, EffectReturns, DraftReturns
<1>3. ASSUME NEW d \in Drafts, ExecuteReplays(d)
      PROVE  KeyInv'
  <2>1. PICK c \in Drafts : c = cache[PlanKey[d]]
    BY <1>3, ServerAssumption DEF ExecuteReplays, TypeInv, Keys
  <2>2. PlanKey[d] \in Keys /\ c # NoDraft
    BY ServerAssumption DEF Keys
  <2>3. PlanKey[c] = PlanKey[d]
    BY <2>1, <2>2 DEF KeyInv
  <2>4. cache' = cache /\ \A y \in Drafts : body'[y] = IF y = d THEN c ELSE body[y]
    BY <1>3, <2>1 DEF ExecuteReplays, TypeInv
  <2>5. \A y \in Drafts : at'[y] = IF y = d THEN "replay" ELSE at[y]
    BY <1>0, <1>3 DEF ExecuteReplays, Moves, TypeInv
  <2>6. QED
    BY <2>2, <2>3, <2>4, <2>5 DEF KeyInv
<1>4. ASSUME NEW d \in Drafts, ExecuteReturns(d)
      PROVE  KeyInv'
  <2>1. \A k \in Keys : cache'[k] = IF k = PlanKey[d] THEN d ELSE cache[k]
    BY <1>4 DEF ExecuteReturns, TypeInv
  <2>2. \A y \in Drafts : body'[y] = IF y = d THEN d ELSE body[y]
    BY <1>4 DEF ExecuteReturns, TypeInv
  <2>3. \A y \in Drafts : at'[y] = IF y = d THEN "executed" ELSE at[y]
    BY <1>0, <1>4 DEF ExecuteReturns, Moves, TypeInv
  <2>4. QED
    BY <2>1, <2>2, <2>3, ServerAssumption DEF KeyInv
<1>5. ASSUME (\E t \in Traces : Collects(t)) \/ Verifies \/ BuildReturns \/ UNCHANGED vars
      PROVE  KeyInv'
  BY <1>5, KeySilent DEF Collects, Verifies, BuildReturns, vars
<1>6. QED
  BY <1>1, <1>2, <1>3, <1>4, <1>5 DEF ServerNext

LEMMA ServerStarts == ServerInit => ServerInv
<1> SUFFICES ASSUME ServerInit PROVE ServerInv
  OBVIOUS
<1> USE DEF ServerInit
<1>1. TypeInv
  BY DEF TypeInv, Ats, ReadAts, StubAts, ToolCalls
<1>2. \A t \in Traces : trail[t] = <<>>
  OBVIOUS
<1>3. \A d \in Drafts : trail[TraceOf[d]] = <<>>
  BY <1>2, ACallHasATrace DEF ToolCalls
<1>4. ReplayInv /\ OrderInv
  BY <1>3 DEF ReplayInv, OrderInv, HarnessRecorded
<1>5. CacheInv /\ KeyInv
  BY DEF CacheInv, KeyInv, ToolCalls
<1>6. ASSUME NEW x \in ToolCalls PROVE Wrote(x, <<>>) /\ Tells(x, at[x], <<>>)
  <2>1. Own(x) = {}
    BY <1>2, ACallHasATrace DEF Own
  <2>2. QED
    BY <2>1, FS_EmptySet DEF Wrote, Tells
<1>7. <<>> \in Seq(Events)
  OBVIOUS
<1>8. TrailInv
  BY <1>6, <1>7 DEF TrailInv
<1>9. QED
  BY <1>1, <1>4, <1>5, <1>8 DEF ServerInv, ExportInv

LEMMA ServerSteps == ServerInv /\ [ServerNext]_vars => ServerInv'
  BY TypeStep, ExportStep, CacheStep, OrderStep, KeyStep, TrailStep DEF ServerInv

\* The inductive invariant of the server.
THEOREM ServerInvariance == ServerSpec => []ServerInv
  BY ServerStarts, ServerSteps, PTL DEF ServerSpec

----------------------------------------------------------------------------
\* What the invariant says.

LEMMA TypesAreKept == ServerInv => ServerTypeOK
<1> SUFFICES ASSUME ServerInv PROVE ServerTypeOK
  OBVIOUS
<1>1. \A t \in Traces : \A i \in DOMAIN trail[t] :
        trail[t][i] \in Entries /\ TraceOf[trail[t][i].call] = t
  BY DEF ServerInv, TypeInv
<1>2. export # NoExport =>
         /\ export.stage \in {"collected", "built"}
         /\ export.entries \in 0..Len(trail[export.trace])
         /\ export.verified \in 0..Len(trail[export.trace])
  BY DEF ServerInv, ExportInv, TypeInv, Exporting
<1>3. QED
  BY <1>1, <1>2 DEF ServerInv, TypeInv, ServerTypeOK

LEMMA BundlesAreCovered == ServerInv => BundleIsCovered
  BY DEF ServerInv, ExportInv, Exporting, BundleIsCovered

LEMMA ReplaysAreShown == ServerInv => ReplayIsShown
<1> SUFFICES ASSUME ServerInv, NEW d \in Drafts, HarnessRecorded("execute.replayed", d)
             PROVE  HarnessRecorded("execute.completed", body[d]) /\ PlanKey[body[d]] = PlanKey[d]
  BY DEF ReplayIsShown
<1>1. body[d] \in Drafts /\ HarnessRecorded("execute.completed", body[d])
  BY DEF ServerInv, ReplayInv
<1>2. PlanKey[body[d]] = PlanKey[d]
  BY <1>1, ServerAssumption DEF ServerInv, KeyInv
<1>3. QED
  BY <1>1, <1>2

LEMMA MinIsThere == ASSUME NEW S \in SUBSET Nat, S # {} PROVE Min(S) \in S /\ \A j \in S : Min(S) <= j
<1>1. PICK i \in S : \A j \in S : <<j, i>> \notin OpToRel(<, Nat)
  BY NatLessThanWellFounded, WFMin, Zenon
<1>2. \A j \in S : ~(j < i)
  BY <1>1 DEF OpToRel
<1>3. i \in S /\ \A j \in S : i =< j
  BY <1>2
<1>4. QED
  BY <1>3 DEF Min

\* entries.find gives the first entry of an event type.
LEMMA FindsTheFirst ==
    ASSUME ServerInv, export # NoExport, NEW event, Find(event) # 0
    PROVE  /\ Find(event) \in 1..Len(Bundle)
           /\ Bundle[Find(event)].event = event
           /\ \A j \in 1..(Find(event) - 1) : Bundle[j].event # event
<1> DEFINE I == {i \in 1..Len(Bundle) : Bundle[i].event = event}
<1>1. PICK t \in Traces, n \in Nat : export.trace = t /\ export.entries = n /\ n <= Len(trail[t])
  BY DEF ServerInv, ExportInv, Exporting
<1>2. Len(Bundle) \in Nat
  BY <1>1 DEF Bundle, ServerInv, TypeInv
<1>3. I # {} /\ Find(event) = Min(I)
  BY DEF Find, SelectInSeq
<1>4. I \in SUBSET Nat
  BY <1>2
<1>5. Find(event) \in I /\ \A j \in I : Find(event) <= j
  BY <1>3, <1>4, MinIsThere
<1>6. QED
  BY <1>2, <1>5

LEMMA ExecutionsAreShown == ServerInv => ExecutionIsShown
<1> SUFFICES ASSUME ServerInv, export # NoExport, Find("execute.completed") # 0,
                    NEW d \in Drafts,
                    TraceOf[d] = export.trace, AloneInTrace(d), body[d] \in {d, NoDraft}
             PROVE  KeyIn(Bundle[Find("execute.completed")]) = PlanKey[d]
  BY DEF ExecutionIsShown
<1> DEFINE i == Find("execute.completed")
           t == TraceOf[d]
<1>1. PICK n \in Nat : export.entries = n /\ n <= Len(trail[t])
  BY DEF ServerInv, ExportInv, Exporting
<1>2. trail[t] \in Seq(Entries) /\ Len(trail[t]) \in Nat
  BY ACallHasATrace DEF ServerInv, TypeInv, ToolCalls
<1>3. Len(Bundle) = n /\ \A j \in 1..n : Bundle[j] = trail[t][j]
  BY <1>1, <1>2 DEF Bundle
<1>4. i \in 1..n /\ trail[t][i].event = "execute.completed"
      /\ \A j \in 1..(i - 1) : trail[t][j].event # "execute.completed"
  BY <1>1, <1>3, FindsTheFirst
<1>5. i \in 1..Len(trail[t]) /\ trail[t][i] \in Entries
  BY <1>1, <1>2, <1>4
<1>6. trail[t][i].call = d
  <2>1. trail[t][i].call \in ToolCalls
    BY <1>5 DEF Entries, ToolCalls
  <2>2. TraceOf[trail[t][i].call] = t
    BY <1>5, ACallHasATrace DEF ServerInv, TypeInv, ToolCalls
  <2>3. QED
    BY <2>1, <2>2 DEF AloneInTrace
<1>7. trail[t][i].by # "tool"
  <2> SUFFICES ASSUME trail[t][i].by = "tool" PROVE FALSE
    OBVIOUS
  <2>1. EntryAt(d, i) = Completed(d)
    BY <1>4, <1>5, <1>6 DEF EntryAt, Completed, Tooled, Entries
  <2>2. PICK j \in 1..(i - 1) : EntryAt(d, j) = Harnessed("execute.completed", d)
    BY <1>5, <2>1 DEF ServerInv, OrderInv
  <2>3. QED
    BY <1>4, <2>2 DEF EntryAt, Harnessed
<1>8. Bundle[i] = trail[t][i]
  BY <1>3, <1>4
<1>9. QED
  BY <1>6, <1>7, <1>8 DEF KeyIn

LEMMA TrailsTell == ServerInv => TrailTellsTool
<1> SUFFICES ASSUME ServerInv, NEW x \in ToolCalls
             PROVE  /\ at[x] = "value" =>
                         \E s \in IF x \in Drafts THEN Pipeline(x) ELSE {<<>>} :
                             Wrote(x, <<"execute.started">> \o s \o <<"execute.completed">>)
                    /\ at[x] = "error" /\ x \notin Stubs =>
                         Wrote(x, <<"execute.started", "execute.failed">>)
                    /\ at[x] = "refused" => Wrote(x, <<>>)
  BY DEF TrailTellsTool
<1>1. PICK s \in Seq(Events) : Wrote(x, s) /\ Tells(x, at[x], s)
  BY DEF ServerInv, TrailInv
<1>2. at[x] = "error" /\ x \notin Stubs => s = <<"execute.started", "execute.failed">>
  BY <1>1 DEF Tells, Asked
<1>3. at[x] = "refused" => s = <<>>
  BY <1>1 DEF Tells
<1>4. ASSUME at[x] = "value"
      PROVE  \E p \in IF x \in Drafts THEN Pipeline(x) ELSE {<<>>} :
               Wrote(x, <<"execute.started">> \o p \o <<"execute.completed">>)
  <2>1. CASE x \in Drafts
    <3>1. s \in {Done(Executed), Done(Replayed)}
      BY <1>1, <1>4, <2>1 DEF Tells
    <3> DEFINE run == <<"plan.created", "policy.decided">> \o <<"execute.started", "execute.completed">>
               replay == <<"plan.created", "policy.decided">> \o <<"execute.replayed">>
    <3>2. Done(Executed) = <<"execute.started">> \o run \o <<"execute.completed">>
      BY DEF Done, Executed, Begun, Decided, Planned, Asked
    <3>3. Done(Replayed) = <<"execute.started">> \o replay \o <<"execute.completed">>
      BY DEF Done, Replayed, Decided, Planned, Asked
    <3>4. run \in Pipeline(x) /\ replay \in Pipeline(x)
      BY DEF Pipeline
    <3> HIDE DEF run, replay
    <3>5. QED
      BY <1>1, <2>1, <3>1, <3>2, <3>3, <3>4
  <2>2. CASE x \notin Drafts
    <3>1. x \in Reads
      BY <1>4, <2>2 DEF ServerInv, TypeInv, StubAts, ToolCalls
    <3>2. s = <<"execute.started">> \o <<>> \o <<"execute.completed">>
      BY <1>1, <1>4, <3>1 DEF Tells, Done, Asked
    <3>3. QED
      BY <1>1, <2>2, <3>2
  <2>3. QED
    BY <2>1, <2>2
<1>5. QED
  BY <1>1, <1>2, <1>3, <1>4

\* Every variable of the server has its type, and an entry is in the trace of
\* the call it is about.
THEOREM ServerTypes == ServerSpec => []ServerTypeOK
  BY ServerInvariance, TypesAreKept, PTL

\* A bundle never holds an entry that its verification did not reach.
THEOREM Covered == ServerSpec => []BundleIsCovered
  BY ServerInvariance, BundlesAreCovered, PTL

\* The bundle of a draft that ran alone in its trace shows the execution of its
\* plan, whatever the tool wrote for itself.
THEOREM Shown == ServerSpec => []ExecutionIsShown
  BY ServerInvariance, ExecutionsAreShown, PTL

\* Nothing is replayed that the chain does not show complete, or that is of
\* another key.
THEOREM ReplayShown == ServerSpec => []ReplayIsShown
  BY ServerInvariance, ReplaysAreShown, PTL

\* hashSummary belongs to the body of the artifact (what the run of HashIsOfBody
\* refutes in general) for every draft whose key no other draft has.
OwnKey(d) == \A e \in Drafts : PlanKey[e] = PlanKey[d] => e = d

THEOREM HashOfOwnBody == ServerSpec => [](\A d \in Drafts : OwnKey(d) /\ at[d] = "value" => body[d] = d)
<1>1. ServerInv => \A d \in Drafts : OwnKey(d) /\ at[d] = "value" => body[d] = d
  <2> SUFFICES ASSUME ServerInv, NEW d \in Drafts, OwnKey(d), at[d] = "value"
               PROVE  body[d] = d
    OBVIOUS
  <2>1. body[d] \in Drafts /\ PlanKey[body[d]] = PlanKey[d]
    BY DEF ServerInv, TypeInv, KeyInv
  <2>2. QED
    BY <2>1 DEF OwnKey
<1>2. QED
  BY <1>1, ServerInvariance, PTL

\* What a call wrote tells what became of it, whatever ran in between.
THEOREM TrailTells == ServerSpec => []TrailTellsTool
  BY ServerInvariance, TrailsTell, PTL
==============================================================================
