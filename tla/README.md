# A TLA+ verification of the Guidewire MCP harness

This directory holds TLA+ models of the write-governing harness, its stores and
the PolicyCenter server, configurations with which TLC checks them on small
instances, and proofs that TLAPS checks for every value of the constants. All
source paths are relative to the root of the repository.

## 1. The system and its hard parts

An agent host calls a tool of an MCP server. A tool that reads asks the Cloud
API and maps the reply; a tool that drafts or writes goes through the harness,
`plan() -> policy() -> approve()? -> execute()`. The harness appends to a
hash-chained audit log before and after everything it does, keeps results in a
cache by idempotency key, and waits for approvers through a sink.

| Component | State it keeps | Operations | Interacts with |
|---|---|---|---|
| Harness core, `packages/harness/src/harness.ts` | idempotency cache, a `Map` in memory | plan, policy, approve, execute, evidence, rollback | policy engine, sink, audit store, effect |
| Approval sinks, `approvals/pg.ts`, `approvals/in-memory.ts` | one row per request | request, wait, decide | harness, approvers, Postgres |
| Policy engine, `policy/in-memory.ts` | none | evaluate | harness |
| Evidence exporter, `evidence/exporter.ts` | none; a bundle while it builds it | build | audit store |
| Audit stores, `packages/audit/src/pg-store.ts`, `memory-store.ts`, `hash.ts` | a chain of entries and a head per tenant | append, verifyChain, query | harness, tools, Postgres |
| Auth, `packages/auth/src/client.ts` | one cached token | getToken, refreshToken | client, token endpoint |
| Client, `packages/client-sdk/src/client.ts` | none | get, post, put | auth, Guidewire |
| PolicyCenter server, `servers/policycenter-mcp/src` | the profile it was started with | parseArgs, buildServer, loadProfile; the callback and nine handlers | all of the above, the profile directory |
| BAA gate, `packages/schemas/src/profile/baa-gate.ts` | none | checkBaaGate | loadProfile |
| Schemas, MCP runtime, observability, CLIs | none that changes | parsing, printing | |

What is hard, and what makes each part correct:

* **One write per key.** Calls with one key overlap, in a process and across
  processes; replies are lost after the write; a restart empties the cache. A
  caller told `executed` must own the one write of its key, a replay must refer
  to a result that exists, and a failed call must not be repeated blindly.
* **Audit before action, and an audit that tells.** Every `await audit.append`
  may reject, before or after the entry became durable. Still nothing may leave
  unaudited or unauthorised, and the trail of a call must tell how it ended.
* **Approvals settle once.** Votes, expiry and a poller with stale reads race on
  one row, with timeouts and failing queries.
* **One chain.** Appends race in serializable transactions whose connections
  may be lost around COMMIT; verification runs at any moment, and someone may
  edit entries.
* **Evidence.** Tools and harness write entries of the same types into one
  chain while an exporter reads it.
* **Tokens.** Unserialized fetches, delayed messages and revocations: no request
  may arrive with an expired token, and a revoked one must go out of use.
* **The start.** Ten files are read, nine of them at once, from a directory that
  may be edited meanwhile. The server must not fall back to its default profile,
  must not get past the BAA gate, and must say what was wrong.
* **Vocabulary.** The alias file maps a carrier's terms to fields and is inverted
  at each lookup; a result must not show a value under another field's name.

`PROJECT.json` lists these hazards one by one, at their lines, with the
properties that cover each, or why none does yet.

## 2. Modules

| Module | Models | Abstract specification | Proofs |
|---|---|---|---|
| `Harness` | `harness.ts`, the wire and Guidewire behind it | `AtMostOnceWrite` | `HarnessProofs` |
| `PgApprovals` | `approvals/pg.ts` over the `approvals` table | `ApprovalLifecycle` | `PgApprovalsProofs` |
| `PgAudit`, `HashChain` | `pg-store.ts` over its two tables; the chain and both `verifyChain` | `AppendOnlyLog` | `PgAuditProofs` |
| `MemoryAudit` | `memory-store.ts` and edits behind its back | | `MemoryAuditProofs` |
| `MemoryApprovals`, `MemoryPolicy` | `approvals/in-memory.ts`, `policy/in-memory.ts` | | in `HarnessWiringProofs` |
| `HarnessPg` | `approve()` over `approvals/pg.ts`, as `tests/e2e.pg.test.ts` wires them | `Harness`, `PgApprovals` | in `HarnessWiringProofs` |
| `HarnessWiring` | `createHarness` with any engine and sink, or those in memory | `Harness`, and through it `AtMostOnceWrite` | `HarnessWiringProofs` |
| `ToolServer` | the callback and wiring of `cli.ts`, the handlers, the exporter | | `ToolServerProofs` |
| `Boot` | `parseArgs`, `buildServer`, `main`; `loadProfile`; `checkBaaGate` | | in `PolicyCenterProofs` |
| `FieldMapping` | the profile handle, `applyFieldAliases`, the results of the read tools | the properties of `PolicyCenter` | |
| `PolicyCenter` | the server from its launch on: `Boot`, then `ToolServer` with what it built | `Boot`, `ToolServer` | `PolicyCenterProofs` |
| `Tokens` | `auth/src/client.ts` and the requests of `client-sdk` | | `TokensProofs` |

Each `MC...` module gives the constants of its component values for TLC.
Operators commented "Defect (for P)" are plausible bugs of the operator below
them; they are in no specification. Each is there to show that property P
notices it.

### Harness

`pc[c]` says what call `c` awaits. While it awaits `audit.append`, `pc` is the
event type being appended. `AuditCommit` makes the entry durable and a later
step of the call goes on, so that anything may happen between; `AuditRejects`
is the rejection, before or after durability. One action stands for each
stretch of code between two awaits: `PolicyCalled`, `PlanRecorded`,
`PolicyEvaluates`, `PolicyReturns` are `policy()`; `ApproveCalled` to
`ApproveReturns` are `approve()`; `ExecuteCalled` (guard and cache lookup),
`ReplayReturns`, `EffectInvoked`, `EffectReturns`, `EffectThrows`,
`FailureRecorded`, `ExecuteReturns` are `execute()`. `cache` is the `Map` of each
process, `approval` the sink's row, `audit` the durable entries. Outside `src/`:
`wire` is the request of a writing effect, `written` what Guidewire executed
under an id; `GuidewireHandles` may come after the caller gave up. `Restart`
loses a process's calls and cache and nothing else. `plan()` and `rollback()`
compute values and keep no state; `plan()` is `deriveKeys` and `derivePlanId`.
(`rollback()` appends nothing, although `packages/schemas/src/harness/rollback.ts:6-9`
speaks of an entry.)

Assumptions: SHA-256 is injective; calls with one key have one mode
(`SameToolSameMode`), because the key holds the tool's name and a tool has one
mode.

### PgApprovals

Every query is two steps: the database runs it, and its result reaches the
caller later. `FlipPending` is the `UPDATE ... WHERE state = 'pending'` of
`transitionFromPending`; `WaitLooks`, `WaitWakes`, `WaitFlips`, `WaitReturns` are
the loop of `wait()`; `DecideFlips` and `DecideReturns` are `decide()`;
`InsertRefused` is the partial unique index. `RequesterGone` and `DeciderGone`
are a rejected query at any point, and a process that stops. One clock stands
for the clocks of all processes.

### PgAudit and HashChain

`call[w]` is the client's side of an append, `tx[w]` the server's. A client that
lost its connection leaves a transaction that keeps its locks until
`ServerNotices`; a COMMIT already sent may still land. `HeadMoved` is Postgres'
40001 for a `SELECT ... FOR UPDATE` on a row that changed after the snapshot,
`PlaceAwaited` an INSERT that waits for an open transaction with the same unique
key. `NotSerializable` is the 40001 that SERIALIZABLE may add at any query once a
concurrent transaction committed: its predicate locks may cover a page of an index
or a whole table, so the two may be appends of different tenants that share no
row. It is no fault and needs none; `past[w]` is what the snapshot of `w` holds,
and `Overtakers(w)` the appends that committed after it. `QueryFails` is left with
refusals that have nothing to do with other appends. All of these are the
database's and marked external.

An entry's `body` holds its hashed fields that are not `undefined`, each a text and
the lines that follow the first line feed in it. `canonicalSerialization` is the
sequence of lines that `hash.ts` joins: nothing is escaped and absent fields leave
no line, so entries that differ may serialize to one text. A hash is that text,
which takes SHA-256 to be injective and nothing more. `planId` and `traceId` stand
for all the required texts between `chainSeq` and `prevHash`; ids of tenants hold
no line feeds. What a row says is what was appended: `recorded_at` goes through a
`TIMESTAMPTZ` and a `Date` and comes back by `toISOString`, which changes nothing of
what the callers in this repository pass (they call `toISOString` themselves), but
would break the hash of any other spelling of a time.

### MemoryAudit

`Appended` is `append()`; `Tampers` edits any stored entry, and may rehash it and
relink it to the one before; it takes no entry away. `appended` remembers what
`append()` returned. `VerifiedIsAppended` and `BlameIsFair` tell entries with line
feeds from those without (`OneLine`): of the latter they promise that nothing
changed unseen, of the former only that the serialized text did not, as long as no
line feed was appended.

### MemoryApprovals, MemoryPolicy and HarnessWiring

`row[r]` is what the sink's `Map` holds for request `r`: its state, deadline and
the outcomes among its approvers. The sink has no timers: `Wait` never waits, and
expires a row or votes on it itself only when called. `Decide` asks for no state,
so a late vote overturns a settled row. `evaluate` and `matchesRule` of
`MemoryPolicy` are the decision as a function of the plan and the rules.

`HarnessWiring` runs the harness with one of a set of wirings, chosen at the
start: `Interface` is any `PolicyEngine` and any `ApprovalSink`, as module
`Harness` sees them; `InMemory(rules, denyMode)` are the two in memory.
`EngineDecides`, `RowRequested` and `RowAwaited` are steps of `Harness` whose
outcome those decide; `RowDecided` is a vote at any time, which the harness does
not hear of: it keeps the snapshot that `wait()` returned (`approval`).
`ProcessRestarts` takes the rows of the process with it. `MethodStep`,
`OutsideStep` and the rest of `Harness`'s `CallStep` and `Environment` are split so
that a wiring replaces only what is behind the two interfaces.

### HarnessPg

The harness and the Postgres sink side by side: both modules' variables, and
steps that are a step of one, of the other, or of both. `RequestSent` and
`RequestReturns` are `approvals.request` on its way out and back; `MethodRuns` is
any step of the methods, and calls `wait()` when it is the one that found
`approval.requested` durable; `WaitGoesOn` and `WaitResolves` are the loop of
`wait()`. `StatementRuns` is the database: a statement sent takes effect whether
or not its call still runs, so the INSERT or the expiry of a call that a restart
ended may land later (`Dropped` when it does not). `SinkRejects` is the rejection of
`request()` or `wait()`, by the partial unique index or by a failing query.
`approval` is what a call was told, Pg's `state` the row. All calls wait equally
long, since `approve()` passes a constant.

### ToolServer

`at[x]` says what the handler of call `x` awaits. As wired in `cli.ts`, the chain
is in memory, so appends never fail and are in the chain at once, and the policy
engine allows every draft: of the harness's pipeline the steps without faults
are left. Entries are kept per trace, because all that is said of them depends
on their order within a trace. Calls may share a trace id, which is
`trace-<milliseconds>` when no span is active. A stub throws before it records;
arguments that do not parse are refused before anything is recorded.

The answer of a call follows its last `emitAudit` with nothing in between, so the
two are one step.

### Boot

`launch` holds the options and the settings that are not empty; `held[f]` what the
read of file `f` gave. `LoadCalled` starts `loadProfile`: the manifest is read
first, then nine files at once, each settling in its own step, in any order, with
one of the contents `Contents` says the directory may hold at that time, or a
flaw (no file, no YAML, not of its schema). `ReadFails` ends the process at the
first flaw; `ReadSettles` of the last file runs the gate. `ArgsThrow`,
`TakesDefault` and `Connects` are the other ways through `main`.

### FieldMapping and PolicyCenter

`FieldMapping` gives, for a profile, the result of each read tool as a function of
the attributes Guidewire sent: `fieldAlias` inverts the alias file and takes the
first term of a field, `applyFieldAliases` writes field by field and may
overwrite, `typelistLabel` replaces a code, and a key that is not there is shown
as `id`, `Unknown` or an empty string. `pull` answers as `find` does.

`PolicyCenter` composes the two: calls are served once the server is connected,
and `client.get` replies only to a server that has all credentials and a base URL
(`Ready`). `ReadsShow` is about the step that puts a profile in force, with what
its reads gave: it compares each result with `FieldOf`, `Speaks` and `LabelOf`,
which say without inversion or order what a key is to show.

### Tokens

A request takes the cached token while it is fresh, and fetches one when not;
misses are not serialized and the last reply stays cached. A message takes
`Delay` ticks at most. The 80% of `REFRESH_FRACTION` is `Window`; the assumption
is that what it leaves of the lifetime covers two message delays: the reply of
the token endpoint and the request that carries the token. `Revokes` makes all
tokens issued so far unacceptable; nobody tells the cache.

## 3. The runs

| Run | Question | Instance |
|---|---|---|
| `promise` | Is anything sent unaudited or unauthorised, are replays backed, does the trail tell? Does the harness implement `AtMostOnceWrite` and settle every call, whatever it is wired with? What do engine and sink in memory promise? | two attempts at one write in a process that may restart, one fault; any policy outcome; any engine and sink, or those in memory with a rule for the tool or for another tenant; a clock, late votes, fairness |
| `approvals` | Do rows settle once, is nothing told that is not so, does nothing expire early, does a row left behind need a vote, does every wait end? | a request and a re-request for one plan, two approvers who disagree, failures anywhere |
| `postgres` | Who owns the write, across processes? Do caller, approver and table agree, end to end? | a write and its retry, of one plan, in two processes; two approvers who disagree; rules that may have changed for the retry; one restart or failed append; failing queries anywhere |
| `audit` | Is the chain whole and verifiable at every moment, do appends settle, who is refused? | three appends to a tenant, one of them with a value of two lines, and one to another tenant; two connections, two faults, and serialization failures without bound |
| `memory` | What does verifyChain find of edits? | up to four entries, three edits, anywhere, at any time, between three bodies: the least one, one with both optional fields, and one that holds the line of the field it lacks |
| `server` | Does the server start on the profile it was given or say why not? Do results, trails, bundles and replays say what happened? | five launches on three directories; two drafts with the same arguments, a read in the trace of one of them, a stub, an exporter |
| `tokens` | Does a request ever arrive with an expired token, how long is a revoked one used? | two callers and a refresher over two lifetimes, one revocation |

These pass. Five runs end in a counterexample, each of a sentence of the
repository (`findings` in `PROJECT.json` quotes them):

* `dup`: the cache is looked up before the first `await` of `execute()` and
  filled after the last, so concurrent calls with one key both send, and the
  second is answered `GW_DBTRANSACTION_DUPLICATE` in normal operation.
* `match`: the guard of `execute()` tests that an Approval is there, not that it
  is for this plan.
* `audit_turn`: racing appends do not wait for their turn, one is aborted and
  throws.
* `server_evidence`: the bundle of a replayed draft takes the tool's own entry
  for the execution; its key breaks the bundle's schema.
* `server_hash`: a replayed draft answers with the earlier body and the hash of
  a body nobody got.

**Bounds.** The properties speak of pairs of calls. Two in one process show the race
in a cache, and, since a restart empties it while requests are in flight, most of
the race between caches; two in different processes (`postgres`) show the rest. One
more call adds nothing the properties mention. `MaxFaults` bounds
restarts and failed appends together. In `approvals` the clock reaches the ttl,
and the second requester gives up at once, so expiry by either deadline and a
second request for the plan both occur. In `postgres` one tick is the ttl, the
timeout and the poll, so a wait polls and its deadline is met on either side; the
retry finds the row of the first call pending, settled or about to expire. Two
calls and two votes are the least with a race on the row, a race for the plan and
a disagreement. In `audit` three appends race for two
connections: one waits for the pool, one for the lock, and the fourth, of another
tenant, may abort any of them or be aborted. In `memory` three edits
rehash and relink a tail of three, before or after the last append. In `promise` one tick of the clock is the ttl and the
timeout, so a row is waited for on either side of its deadline; three wirings are
a rule that matches, one that matches in part only (whose sink denies), and any.
That no rule matches also means that the `denyMode` of its sink is never reached
in this run; the proofs cover it for every wiring. In `tokens` lifetime, window
and delay (4, 2, 1) are the least with a margin of exactly two delays; `MaxTime`
leaves room for two lifetimes, and tokens are revoked once. In `server` the drafts
have one key, one draft has a trace of its own, and the other shares its trace
with a read. Its launches are with a profile and without, with a credential
missing, with all missing, with a wrong option and with repeated ones; its
directories are one that is as it should be, one of four vocabularies and two
typelists (two terms for a field in both orders, a term that is the name of
another field, terms of the carrier's own), and one whose LOB, PII policy,
manifest and events files are edited while they are read. Only files whose
content matters differ; the others have one valid content.

**Deadlock** is not checked: in every model all calls end and the clock is
bounded, and a server that refuses to start has exited; nothing happens after.
That nobody waits for ever is stated as `EveryCallSettles`, `WaitEnds` and `AppendsSettle`.

**Symmetry** swaps the two callers of `tokens`, which has no liveness property.

**Fairness.** `Harness`: a step of a call that can go on does (the event loop
resumes settled awaits, appends and evaluations settle, the sink's wait has a
deadline); approvers, a failing policy engine, a failing sink, Guidewire and the
network owe nothing. A request whose reply never comes ends in the effect's
exception (the HTTP client gives up), which is why `EffectThrows` is among the
fair steps. `HarnessWiring`: the same; what is in memory answers at once, voters and
the clock owe nothing. `PgApprovals`: requesters and the
clock go on, approvers owe nothing. `PgAudit`: while some append can go on, one
does: the server executes queries and notices lost clients, and the pool hands out
free connections, to whomever. Serialization failures, faults and new calls owe
nothing. `AppendsSettle` asks that again and again no append is under way, which
with finitely many appends is that each settles.

## 4. The proofs

Proved for every value of the constants, so for any number of calls, processes,
faults, tenants and any length of time:

* `HarnessProofs`. `IInv` says where a call stands and which entries are then
  durable (`Progress`), what approve() has established (`Approval`), that wire
  and Guidewire agree (`Wire`), that answers are given once and `executed` only
  after a durable completion (`Answer`), that a replay copies an answered result
  (`Replay`), and that caches hold answered results only (`CacheIsAnswered`).
  Write-ahead audit and authorisation are not inductive without `Progress` and
  `Approval`, ownership of the write not without `Wire`. From it follow
  `WriteAheadAudit`, `WriteAuthorised`, `ExecutedIsTheWrite`, `ReplayIsBacked`
  and the refinement of `AtMostOnceWrite`. For `TrailTellsAnswer` the order of the
  entries is needed too: while a call runs, its entries are exactly those of the
  awaits behind it, in order (`TrailAt`, in `TrailInv`).
* `PgApprovalsProofs`. The key is `SeenOf`: a state that was read is still the
  row's unless it was pending; and `DueOf`: expiry, once due, stays due. From
  them `ToldIsTheRow`, `NeverExpiredEarly` and the refinement of
  `ApprovalLifecycle`. The rows that the unique index allows (`OnePending`) are an
  invariant of their own, from which `AbandonedNeedsAVote` follows step by step: a
  row whose requester is gone moves only by a vote, and keeps other rows of its
  plan from becoming pending. `VotesCount` ties the end of the race to its cause: a row
  is approved or denied by exactly one vote of that verdict, and an approver who
  was told that its vote counted has that row.
* `PgAuditProofs`. The key is `HeadOf`: the head does not move under a
  transaction that locked it or that inserted the entry after it; `OneWriter`
  follows from the unique key. From them `ChainIntact` and the refinement of
  `AppendOnlyLog`. A chain that is intact is accepted from any place
  (`ChainIsAccepted`), hence `VerifyAccepts`. For `RefusedByAWinner`: a head that is
  not that of a snapshot was moved by an append that committed since, which the
  snapshot does not hold (`MovedByOvertaker`), and a place is taken only when the
  head has moved (`TakenIsMoved`), so each of the three ways to be refused has an
  overtaker; while nothing fails it tells its caller (`CommitIsTold`).
* `MemoryAuditProofs`. `LogInv` says that what was appended is one chain that ends
  at the head, and that edits move no entry. The lines of a serialized entry
  without line feeds are, as a set, one for each of its fields (`SerializedAs`), so
  two such entries that serialize and hash alike are one (`SameEntry`), and even an
  entry with line feeds that serializes as one without has its `prevHash`
  (`SameLink`). `VerifiedIsAppended` by the last entry whose hash differs from the
  appended one: the next entry has the appended hash, hence its text and its
  link, so there is none (`HashesAsAppended`). `BlameIsFair` by `SameEntry` and the
  link the walk compares, which `VerifiersAgree` follows from, too; past the end
  neither walk compares any (`PastTheEnd`). None of this uses more of SHA-256 than
  that a hash determines the text.
* `HarnessWiringProofs`. Each step of the wired harness is a step of `Harness` or
  leaves the calls alone (`StepImplements`), so everything in `HarnessProofs`
  carries over to every wiring, the refinement of `AtMostOnceWrite` included
  (`WiringImplements`, `WiredAtMostOnce`). `WiringInv` adds, call by call, that the
  decision held is what the rules give (`Ruled`), that an approved snapshot has a
  vote in its row, even if the row was overturned later (`Voted`), and that an
  expired row or snapshot is past its deadline (`InTime`). From it follow
  `RowTellsVotes`, `ExpiredForCause` and `WritesAreRuled`.

  The composition with Postgres refines both of its parts: `Harness`
  (`PgWiringImplements`, hence `PgWiredAtMostOnce`) and `PgApprovals` (`SinkIsPg`), so
  the invariants of both hold of it; those of the sink are taken over from
  `PgApprovalsProofs`, instantiated as the sink is (`SinkHolds`). Neither says how the
  two stand to each other, which `PgInv` adds: at each await of `approve()` where its
  requester is, that a call was told what it holds (`InTouch`), and which state
  stands behind a timeout or a denial (`Answered`). A caller's snapshot is then the
  row for good (`ToldIsTrue`), and with `VotesCount` follow `WritesAreVotedFor`,
  `VoterAndCallerAgree` and `TimeoutIsFinal`, for any number of calls, processes and
  approvers and any deadlines.
* `ToolServerProofs`. `ServerInv` says that a bundle is a prefix of its trace and
  the verified part no shorter (`ExportInv`), that what is cached, recorded or
  replayed is complete in the chain (`CacheInv`, `ReplayInv`), and that an executed
  draft's own `execute.completed` comes after the harness's (`OrderInv`), without
  which `ExecutionIsShown` is not inductive. For any number of calls, traces and
  keys: `BundleIsCovered`, `ExecutionIsShown`, `ReplayIsShown`. What is cached or
  replayed has the key it was looked up by (`KeyInv`), so a draft whose key no other
  draft has answers with the body it composed and its hash (`HashOfOwnBody`): the
  disagreement of run `server_hash` needs a replay. `TrailTellsTool`
  speaks of the entries of one call among those of others: `TrailInv` says what they
  are at each await, and the places they take are counted by cardinality
  (`WroteMore` for an entry of the call, `WroteKept` for those of others).
* `PolicyCenterProofs`. `BootInv` says what each stage of the start has read, and
  that a profile in force is what all reads gave and the gate let pass. With it
  `NeverDegrades`, `GateHolds` and `RefusalIsExplained`, for any launches and any
  directories. The composition refines `Boot` and `ToolServer` (`StartsAsBoot`,
  `ServesAsToolServer`), so `ServerKeeps` carries over the theorems of
  `ToolServerProofs`; `NoMocks` relates the two, since a value needs a reply.
  `InForceShows` states of every profile in force what `ReadsShow` states of the step
  that puts it there: `SelectInSeq` finds the first term of a field or none, a key
  that the vocabulary gives one field is written by that field alone, and a label
  found is one of the file's. It assumes that the lists of a file are
  sequences and that no entity has a term twice, since its aliases are the keys of a
  mapping (`VocabularyAssumption`).
* `TokensProofs`. The margin of two delays covers first the reply
  (`CacheInTime`), then the request (`CallInTime`). The proof needs the window to
  be positive. A grant older than a revocation is cached a delay after it at most,
  and used for a window: `OutageEnds`.

The types of every module are proved (`TypeCorrect` and its like); the runs check
those that take more than one assignment to break. `ToldIsTheRow` is proved too; the
runs have it within `Lifecycle`.

The only assumptions are the named `ASSUME`s of the modules, which TLC evaluates
in the runs.

**Only model-checked**: liveness (`EveryCallSettles`, `WaitEnds`, `AppendsSettle`).
Liveness under fairness and ENABLED are out of reach of the prover. Every safety
property of a passing run is the statement of a theorem. What a walk or a fold
over a sequence computes is stated in the models by its result (the first place
where a link breaks, the last field that takes a key), since induction over data
is out of reach, too.

## 5. Not modelled

* The JWT parser: one string in, claims out; nothing but tests calls it.
* The MCP runtime of `packages/mcp-runtime`: a check of tool names at creation. The
  PolicyCenter server does not use it.
* Observability, the harness CLI, the smoke script: no state that others read.
* Of the profile schemas, what makes a file valid: `Boot` tells a valid content
  from a flawed one. The BAA gate and the default of `lob_class` are modelled.
* Of the client, URLs and pagination; of the handlers, the prose of a draft.
* That the start of the server ends: a read that never settles hangs it, and
  nothing in the code bounds a read.

Met on the way and not stated as a run: a `wait()` whose caller-side timeout
passes expires the row (`pg.ts:213-216`), where
`000-docs/009-DR-MEMO-harness-runtime.md:580-586` leaves it pending; nothing
refreshes a token after a 401, where `02-PRD.md:472` asks for one refresh and one
retry; `IDEMPOTENCY_MISMATCH` is never raised; the harness does not refuse writes
after a broken chain (`05-TECHNICAL-SPEC.md:1567-1569`). `hash.ts:38-41` escapes
nothing and drops absent fields, so an entry with an `oauthScope` and one without
whose `blobRef` ends in a line feed and that very line have one hash:
`hash.ts:33-34` and `chain.test.ts:106` say that a change of scope is visible in the
chain, which holds of values without line feeds (what `VerifiedIsAppended` says)
and not of others. Appends of different tenants share no row and may abort each
other all the same, since the transactions are SERIALIZABLE. Handlers call
`emitAudit` themselves, where `manifest.ts:204-206` says the runtime does.

Of profiles and results: the tools look a result's keys up under the default
terms, so under a profile that has terms of its own (or none) they show `id`,
`Unknown` or nothing, where `cli.ts:177-178` has Guidewire's names surface
(`Speaks` in `PolicyCenter` is the condition under which they do not); `pull` also
passes the raw attributes on; a tool's `requiredProfileFiles` are declared and
never tested (`hasRequiredFiles` has no caller); an option such as `--profile=x` is
ignored in silence. The harness CLI announces a DSN and reads an in-memory store
that is always empty. The server wires one rule without predicates, which matches
every plan (`cli.ts:243`).

## 6. Plan

Done: all modules of section 2, their abstract specifications and eight proof
modules. What would add most next:

1. The tool server over the Postgres store: `emitAudit` swallows a failed append
   (`cli.ts:330`), so a call may be answered without its entries. As wired today
   the store is in memory and its append does not fail.
2. `HarnessPg` composed with `PgAudit` as well, so that an append of the harness is a
   transaction that may be refused or land after its connection was lost; the steps
   of its `AuditCommit` and `AuditRejects` are then `PgAudit`'s.
3. What a loser of `decide()` is to be told (`pg.ts:232`), once the repository says
   what is meant.
