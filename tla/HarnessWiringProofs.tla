------------------------ MODULE HarnessWiringProofs ------------------------
(***************************************************************************)
(* Theorems about the wired harness.  Whatever it is created with, each of *)
(* its steps is a step of Harness or leaves the calls alone, so what       *)
(* HarnessProofs shows carries over; the rest is about the engine and the  *)
(* sink in memory, and about the harness over the sink of Postgres.        *)
(***************************************************************************)
EXTENDS HarnessWiring, HarnessPg, HarnessProofs

\* What the wirings in memory add, call by call.
Ruled(c) == decision[c] \in {"none", Evaluate(c, wiring)}
Voted(c) == approval[c] = "approved" /\ row[c] # Sink!NoRow => "approved" \in row[c].votes
InTime(c) ==
    Ttl <= Timeout /\ row[c] # Sink!NoRow =>
        /\ row[c].expiresAt <= now + Ttl
        /\ row[c].state = "expired" \/ approval[c] = "expired" => row[c].expiresAt <= now

MemoryInv == Memory => \A c \in Calls : Ruled(c) /\ Voted(c) /\ InTime(c)

WiringInv == IInv /\ wiring \in Wirings /\ Sink!SinkTypeOK /\ RowTellsVotes /\ MemoryInv

----------------------------------------------------------------------------
\* Refinement of Harness.

LEMMA StepImplements == [WiringNext]_wiringVars => [Next]_vars
<1> SUFFICES ASSUME [WiringNext]_wiringVars PROVE [Next]_vars
    OBVIOUS
<1>1. ASSUME NEW c \in Calls, WiredCallStep(c)
      PROVE  CallStep(c)
  BY <1>1 DEF WiredCallStep, CallStep, MemoryStep, InterfaceStep, EngineDecides,
         RowRequested, RowAwaited
<1>2. ASSUME NEW c \in Calls, OutsideStep(c) \/ InterfaceEnvironment(c)
      PROVE  Environment(c)
  BY <1>2 DEF InterfaceEnvironment, Environment
<1>3. ASSUME NEW p \in Procs, ProcessRestarts(p)
      PROVE  Restart(p)
  BY <1>3 DEF ProcessRestarts
<1>4. CASE UNCHANGED wiringVars
  BY <1>4 DEF wiringVars
<1>5. CASE WiringNext
  BY <1>1, <1>2, <1>3, <1>5 DEF WiringNext, Next, RowDecided, TimePasses
<1>6. QED
  BY <1>4, <1>5

\* The wired harness implements the harness of module Harness, whatever policy
\* engine and sink it is created with.
THEOREM WiringImplements == WiringSpec => Spec
<1>1. WiringInit => Init
  BY DEF WiringInit
<1>2. QED
  BY <1>1, StepImplements, PTL DEF WiringSpec, Spec

\* So it writes at most once per key, as AtMostOnceWrite has it.
THEOREM WiredAtMostOnce == WiringSpec => AtMostOnce
  BY WiringImplements, Refinement

----------------------------------------------------------------------------
\* The rows of the sink in memory.

SinkMoves ==
    \/ Sink!Tick
    \/ \E S \in SUBSET Calls : Sink!Forget(S)
    \/ /\ Memory
       /\ \E c \in Calls : Sink!Request(c) \/ Sink!Wait(c, wiring.denyMode) \/ Sink!Decide(c)

LEMMA StepsOfTheSink == [WiringNext]_wiringVars => SinkMoves \/ UNCHANGED <<now, row>>
<1> SUFFICES ASSUME [WiringNext]_wiringVars PROVE SinkMoves \/ UNCHANGED <<now, row>>
    OBVIOUS
<1>1. ASSUME NEW p \in Procs, ProcessRestarts(p)
      PROVE  SinkMoves
  <2>1. {c \in Calls : ProcOf[c] = p} \in SUBSET Calls
    OBVIOUS
  <2>2. QED
    BY <1>1, <2>1 DEF ProcessRestarts, SinkMoves
<1>2. ASSUME NEW c \in Calls, WiredCallStep(c)
      PROVE  SinkMoves \/ UNCHANGED <<now, row>>
  BY <1>2 DEF WiredCallStep, MemoryStep, InterfaceStep, EngineDecides, RowRequested,
         RowAwaited, SinkMoves
<1>3. QED
  BY <1>1, <1>2 DEF WiringNext, wiringVars, InterfaceEnvironment, RowDecided,
       TimePasses, SinkMoves

LEMMA SinkTyped ==
    ASSUME Sink!SinkTypeOK, SinkMoves \/ UNCHANGED <<now, row>>
    PROVE  Sink!SinkTypeOK'
<1> USE DEF Sink!SinkTypeOK
<1>1. CASE Sink!Tick
  BY <1>1 DEF Sink!Tick
<1>2. ASSUME NEW S \in SUBSET Calls, Sink!Forget(S)
      PROVE  Sink!SinkTypeOK'
  BY <1>2 DEF Sink!Forget
<1>3. ASSUME NEW c \in Calls, Sink!Request(c)
      PROVE  Sink!SinkTypeOK'
  <2>1. [state |-> "pending", expiresAt |-> now + Ttl, votes |-> {}] \in Sink!Rows
    BY SinkAssumption DEF Sink!Rows
  <2>2. QED
    BY <1>3, <2>1 DEF Sink!Request
<1>4. ASSUME NEW c \in Calls, NEW denyMode, Sink!Wait(c, denyMode)
      PROVE  Sink!SinkTypeOK'
  <2>1. row[c] \in Sink!Rows
    BY <1>4 DEF Sink!Wait, Sink!NoRow, Sink!Settled, Sink!Verdicts
  <2>2. CASE UNCHANGED row
    BY <1>4, <2>2 DEF Sink!Wait
  <2>3. CASE row' = [row EXCEPT ![c].state = "expired"]
    <3>1. [row[c] EXCEPT !.state = "expired"] \in Sink!Rows
      BY <2>1 DEF Sink!Rows, Sink!Settled
    <3>2. QED
      BY <1>4, <2>3, <3>1 DEF Sink!Wait
  <2>4. ASSUME NEW v \in Sink!Verdicts,
               row' = [row EXCEPT ![c].state = v, ![c].votes = {v}]
        PROVE  Sink!SinkTypeOK'
    <3>1. [row[c] EXCEPT !.state = v, !.votes = {v}] \in Sink!Rows
      BY <2>1 DEF Sink!Rows, Sink!Settled
    <3>2. QED
      BY <1>4, <2>4, <3>1 DEF Sink!Wait
  <2>5. QED
    BY <1>4, <2>2, <2>3, <2>4 DEF Sink!Wait, Sink!Verdicts
<1>5. ASSUME NEW c \in Calls, Sink!Decide(c)
      PROVE  Sink!SinkTypeOK'
  <2>1. row[c] \in Sink!Rows
    BY <1>5 DEF Sink!Decide
  <2>2. PICK v \in Sink!Verdicts :
          row' = [row EXCEPT ![c].state = v, ![c].votes = @ \cup {v}]
    BY <1>5 DEF Sink!Decide
  <2>3. [row[c] EXCEPT !.state = v, !.votes = @ \cup {v}] \in Sink!Rows
    BY <2>1 DEF Sink!Rows, Sink!Settled
  <2>4. QED
    BY <1>5, <2>2, <2>3 DEF Sink!Decide
<1>6. QED
  BY <1>1, <1>2, <1>3, <1>4, <1>5 DEF SinkMoves

\* One row.
Tells(c) ==
    row[c] # Sink!NoRow =>
        IF row[c].state \in Sink!Verdicts THEN row[c].state \in row[c].votes
                                         ELSE row[c].votes = {}

LEMMA VotesTold ==
    ASSUME Sink!SinkTypeOK, RowTellsVotes, SinkMoves \/ UNCHANGED <<now, row>>
    PROVE  RowTellsVotes'
<1> SUFFICES ASSUME NEW d \in Calls PROVE Tells(d)'
    BY DEF RowTellsVotes, Sink!RowTellsVotes, Tells
<1>0. Tells(d)
  BY DEF RowTellsVotes, Sink!RowTellsVotes, Tells
<1> USE DEF Tells, Sink!Verdicts
<1>1. CASE UNCHANGED row
  BY <1>0, <1>1
<1>2. ASSUME NEW S \in SUBSET Calls, Sink!Forget(S)
      PROVE  Tells(d)'
  BY <1>0, <1>2 DEF Sink!Forget
<1>3. ASSUME NEW c \in Calls, Sink!Request(c)
      PROVE  Tells(d)'
  BY <1>0, <1>3 DEF Sink!Request, Sink!SinkTypeOK
<1>4. ASSUME NEW c \in Calls, NEW denyMode, Sink!Wait(c, denyMode), ~UNCHANGED row
      PROVE  Tells(d)'
  <2>1. row[c] \in Sink!Rows /\ row[c] # Sink!NoRow /\ row[c].state = "pending"
    BY <1>4 DEF Sink!Wait, Sink!NoRow, Sink!Settled, Sink!SinkTypeOK
  <2>2. CASE d # c
    BY <1>0, <1>4, <2>2 DEF Sink!Wait, Sink!SinkTypeOK
  <2>3. CASE d = c
    BY <1>0, <1>4, <2>1, <2>3 DEF Sink!Wait, Sink!SinkTypeOK, Sink!Rows
  <2>4. QED
    BY <2>2, <2>3
<1>5. ASSUME NEW c \in Calls, Sink!Decide(c)
      PROVE  Tells(d)'
  <2>1. row[c] \in Sink!Rows
    BY <1>5 DEF Sink!Decide, Sink!SinkTypeOK
  <2>2. QED
    BY <1>0, <1>5, <2>1 DEF Sink!Decide, Sink!SinkTypeOK, Sink!Rows
<1>6. QED
  BY <1>1, <1>2, <1>3, <1>4, <1>5 DEF SinkMoves, Sink!Tick

----------------------------------------------------------------------------
\* What the calls know of their rows and of their policy decisions.

LEMMA EngineRules ==
    ASSUME TypeOK, Memory, NEW d \in Calls, Ruled(d), [WiringNext]_wiringVars
    PROVE  Ruled(d)'
<1> USE DEF Ruled
<1>1. UNCHANGED wiring
  BY DEF WiringNext, WiredCallStep, wiringVars
<1>2. Evaluate(d, wiring)' = Evaluate(d, wiring)
  BY <1>1 DEF Evaluate
<1>3. CASE UNCHANGED decision
  BY <1>2, <1>3
<1>4. ASSUME NEW c \in Calls, EngineDecides(c)
      PROVE  Ruled(d)'
  BY <1>2, <1>1, <1>4 DEF EngineDecides, PolicyEvaluates, TypeOK
<1>5. ASSUME NEW c \in Calls, MethodStep(c)
      PROVE  UNCHANGED decision
  BY <1>5 DEF MethodStep, harnessVars, AuditCommit, PlanRecorded, PolicyReturns,
         ApproveCalled, RequestRecorded, ApproveReturns, ExecuteCalled, ReplayReturns,
         EffectInvoked, EffectReturns, EffectThrows, FailureRecorded, ExecuteReturns
<1>6. ASSUME NEW c \in Calls, OutsideStep(c)
      PROVE  UNCHANGED decision
  BY <1>6 DEF OutsideStep, harnessVars, PolicyCalled, AuditRejects, GuidewireHandles, RequestLost
<1>7. ASSUME NEW c \in Calls, RowRequested(c) \/ RowAwaited(c)
      PROVE  UNCHANGED decision
  BY <1>7 DEF RowRequested, RowAwaited, SinkRequest, WaitReturns
<1>8. QED
  BY <1>3, <1>4, <1>5, <1>6, <1>7 DEF WiringNext, WiredCallStep, MemoryStep, InterfaceStep,
       InterfaceEnvironment, RowDecided, TimePasses, ProcessRestarts, Restart, wiringVars,
       vars, harnessVars

\* A call and its row move together or not at all, but for votes, the clock
\* and a restart.
LEMMA ApprovalMoves ==
    ASSUME Memory, [WiringNext]_wiringVars
    PROVE  \/ \E c \in Calls : RowRequested(c) \/ RowAwaited(c)
           \/ /\ UNCHANGED approval
              /\ \/ UNCHANGED <<now, row>>
                 \/ Sink!Tick
                 \/ \E c \in Calls : Sink!Decide(c)
                 \/ \E S \in SUBSET Calls : Sink!Forget(S)
<1>1. ASSUME NEW c \in Calls, MethodStep(c)
      PROVE  UNCHANGED approval
  BY <1>1 DEF MethodStep, harnessVars, AuditCommit, PlanRecorded, PolicyReturns,
         ApproveCalled, RequestRecorded, ApproveReturns, ExecuteCalled, ReplayReturns,
         EffectInvoked, EffectReturns, EffectThrows, FailureRecorded, ExecuteReturns
<1>2. ASSUME NEW c \in Calls, OutsideStep(c)
      PROVE  UNCHANGED approval
  BY <1>2 DEF OutsideStep, PolicyCalled, AuditRejects, GuidewireHandles, RequestLost, harnessVars
<1>3. ASSUME NEW p \in Procs, ProcessRestarts(p)
      PROVE  UNCHANGED approval /\ \E S \in SUBSET Calls : Sink!Forget(S)
  <2>1. {c \in Calls : ProcOf[c] = p} \in SUBSET Calls
    OBVIOUS
  <2>2. QED
    BY <1>3, <2>1 DEF ProcessRestarts, Restart
<1>4. ASSUME NEW c \in Calls, EngineDecides(c)
      PROVE  UNCHANGED <<approval, now, row>>
  BY <1>4 DEF EngineDecides, PolicyEvaluates
<1>5. QED
  BY <1>1, <1>2, <1>3, <1>4 DEF WiringNext, WiredCallStep, MemoryStep, InterfaceStep,
       InterfaceEnvironment, RowDecided, TimePasses, wiringVars, vars

LEMMA WaitTells ==
    ASSUME TypeOK, Sink!SinkTypeOK, RowTellsVotes, RowTellsVotes', Sink!SinkTypeOK',
           Memory, NEW c \in Calls, RowAwaited(c), NEW d \in Calls, Voted(d), InTime(d)
    PROVE  Voted(d)' /\ InTime(d)'
<1>1. row[c] \in Sink!Rows /\ row[c] # Sink!NoRow /\ row'[c] \in Sink!Rows
  BY DEF RowAwaited, Sink!Wait, Sink!SinkTypeOK, Sink!NoRow, Sink!Settled, Sink!Verdicts, Sink!Rows
<1>2. CASE d # c
  BY <1>2 DEF RowAwaited, Sink!Wait, Sink!SinkTypeOK, Voted, InTime, TypeOK
<1>3. CASE d = c
  <2>1. approval'[c] = row'[c].state
    BY DEF RowAwaited, TypeOK
  <2>2. Voted(c)'
    BY <1>1, <2>1 DEF Voted, RowTellsVotes, Sink!RowTellsVotes, Sink!Verdicts
  <2>3. ASSUME Ttl <= Timeout
        PROVE  row'[c].state = "expired" => row[c].expiresAt <= now
    BY <1>1, <1>3, <2>3, SinkAssumption DEF RowAwaited, Sink!Wait, Sink!Overdue, InTime,
       Sink!SinkTypeOK, Sink!Rows
  <2>4. row'[c].expiresAt = row[c].expiresAt /\ now' = now
    BY <1>1 DEF RowAwaited, Sink!Wait, Sink!SinkTypeOK, Sink!Rows
  <2>5. QED
    BY <1>1, <1>3, <2>1, <2>2, <2>3, <2>4 DEF InTime
<1>4. QED
  BY <1>2, <1>3

LEMMA RowsTell ==
    ASSUME TypeOK, Sink!SinkTypeOK, RowTellsVotes, RowTellsVotes', Sink!SinkTypeOK',
           Memory, [WiringNext]_wiringVars, NEW d \in Calls, Voted(d), InTime(d)
    PROVE  Voted(d)' /\ InTime(d)'
<1>1. CASE UNCHANGED <<approval, now, row>>
  BY <1>1 DEF Voted, InTime
<1>2. CASE UNCHANGED approval /\ Sink!Tick
  <2>1. row[d] # Sink!NoRow => row[d] \in Sink!Rows
    BY DEF Sink!SinkTypeOK
  <2>2. QED
    BY <1>2, <2>1, SinkAssumption DEF Voted, InTime, Sink!Tick, Sink!SinkTypeOK, Sink!Rows
<1>3. ASSUME NEW c \in Calls, UNCHANGED approval, Sink!Decide(c)
      PROVE  Voted(d)' /\ InTime(d)'
  <2>1. row[c] \in Sink!Rows
    BY <1>3 DEF Sink!Decide, Sink!SinkTypeOK
  <2>2. PICK v \in Sink!Verdicts :
          row' = [row EXCEPT ![c].state = v, ![c].votes = @ \cup {v}]
    BY <1>3 DEF Sink!Decide
  <2>3. QED
    BY <1>3, <2>1, <2>2 DEF Sink!Decide, Sink!Verdicts, Sink!SinkTypeOK, Sink!Rows, Voted, InTime
<1>4. ASSUME NEW S \in SUBSET Calls, UNCHANGED approval, Sink!Forget(S)
      PROVE  Voted(d)' /\ InTime(d)'
  BY <1>4 DEF Sink!Forget, Voted, InTime
<1>5. ASSUME NEW c \in Calls, RowRequested(c)
      PROVE  Voted(d)' /\ InTime(d)'
  BY <1>5, SinkAssumption DEF RowRequested, SinkRequest, Sink!Request, Voted, InTime,
     TypeOK, Sink!SinkTypeOK
<1>6. QED
  BY <1>1, <1>2, <1>3, <1>4, <1>5, ApprovalMoves, WaitTells

LEMMA MemoryKept ==
    ASSUME TypeOK, Sink!SinkTypeOK, RowTellsVotes, MemoryInv, [WiringNext]_wiringVars,
           RowTellsVotes', Sink!SinkTypeOK'
    PROVE  MemoryInv'
<1>1. UNCHANGED wiring
  BY DEF WiringNext, WiredCallStep, wiringVars
<1>2. SUFFICES ASSUME Memory, NEW d \in Calls
               PROVE  Ruled(d)' /\ Voted(d)' /\ InTime(d)'
  BY <1>1 DEF MemoryInv, Memory
<1>3. Ruled(d) /\ Voted(d) /\ InTime(d)
  BY <1>2 DEF MemoryInv
<1>4. QED
  BY <1>2, <1>3, EngineRules, RowsTell

----------------------------------------------------------------------------
LEMMA WiringInvariance == WiringSpec => []WiringInv
<1>1. WiringInit => WiringInv
  BY InitInv DEF WiringInit, WiringInv, Init, Sink!SinkInit, Sink!SinkTypeOK, RowTellsVotes,
     Sink!RowTellsVotes, MemoryInv, Ruled, Voted, InTime
<1>2. IInv /\ IInv' /\ WiringInv /\ [WiringNext]_wiringVars => WiringInv'
  <2> SUFFICES ASSUME IInv, IInv', WiringInv, [WiringNext]_wiringVars
               PROVE  WiringInv'
    OBVIOUS
  <2>1. TypeOK /\ wiring' \in Wirings
    BY DEF IInv, WiringInv, WiringNext, WiredCallStep, wiringVars
  <2>2. Sink!SinkTypeOK'
    BY StepsOfTheSink, SinkTyped DEF WiringInv
  <2>3. RowTellsVotes'
    BY StepsOfTheSink, VotesTold DEF WiringInv
  <2>4. QED
    BY <2>1, <2>2, <2>3, MemoryKept DEF WiringInv
<1>3. QED
  BY <1>1, <1>2, Invariance, WiringImplements, PTL DEF WiringSpec

\* Types.
THEOREM WiringTypes == WiringSpec => []WiringTypeOK
<1>1. WiringInv => WiringTypeOK
  BY DEF WiringInv, IInv, WiringTypeOK
<1>2. QED
  BY <1>1, WiringInvariance, PTL

\* A row's state is the work of its approvers.
THEOREM VotesAreTold == WiringSpec => []RowTellsVotes
<1>1. WiringInv => RowTellsVotes
  BY DEF WiringInv
<1>2. QED
  BY <1>1, WiringInvariance, PTL

\* Nobody is told of an expiry before the ttl has passed.
THEOREM ExpiryHasCause == WiringSpec => []ExpiredForCause
<1>1. WiringInv => ExpiredForCause
  BY DEF WiringInv, MemoryInv, InTime, ExpiredForCause
<1>2. QED
  BY <1>1, WiringInvariance, PTL

\* A write in memory has its rule, all of it, and its vote.
THEOREM RulesGovern == WiringSpec => []WritesAreRuled
<1>1. WiringInv => WritesAreRuled
  <2> SUFFICES ASSUME WiringInv, Memory, NEW c \in Calls, wire[c] # "none"
               PROVE  /\ \E rule \in wiring.rules : \A p \in DOMAIN rule : rule[p] = InputOf[c][p]
                      /\ row[c] # Sink!NoRow => "approved" \in row[c].votes
    BY DEF WritesAreRuled
  <2>1. Authorised(c) /\ ModeOf(c) = "approved_execute"
    BY DEF WiringInv, IInv, WriteAuthorised, Sanctioned, Wire, Writers
  <2>2. Ruled(c) /\ Voted(c)
    BY DEF WiringInv, MemoryInv
  <2>3. decision[c] = "require_approval" /\ approval[c] = "approved"
    BY <2>1, <2>2 DEF Authorised, Ruled, Evaluate, evaluate, ModeOf
  <2>4. \E rule \in wiring.rules : matchesRule(InputOf[c], rule)
    BY <2>2, <2>3 DEF Ruled, Evaluate, evaluate
  <2>5. QED
    BY <2>2, <2>3, <2>4 DEF Voted, matchesRule
<1>2. QED
  BY <1>1, WiringInvariance, PTL

----------------------------------------------------------------------------
\* The harness over Postgres: what PgApprovalsProofs shows of its sink.

PgP == INSTANCE PgApprovalsProofs
    WITH Requests <- Calls, Plans <- {PlanId(c) : c \in Calls},
         Ttl <- TtlMs, Poll <- PollMs, MaxTime <- MaxClock, now <- clock,
         Timeout <- [c \in Calls |-> WaitMs], NoRequest <- NoCall

LEMMA PgAssumed == PgP!PgAssumption
BY PgWiringAssumption, CallsAssumption DEF PgP!PgAssumption, PlanOf

\* PgP is the same sink.
LEMMA SameSink == (Pg!Init => PgP!Init) /\ ([Pg!Next]_(Pg!vars) => [PgP!Next]_(PgP!vars))
<1>1. Pg!Init => PgP!Init
  BY DEF Pg!Init, PgP!Init
<1>2. Pg!Next => PgP!Next
  BY DEF Pg!Next, Pg!RequesterStep, Pg!DeciderStep, Pg!RequestCalled, Pg!InsertCommits,
         Pg!InsertRefused, Pg!PendingFor, Pg!WaitCalled, Pg!WaitFetches, Pg!WaitLooks, Pg!Deadline,
         Pg!Smaller, Pg!WaitWakes, Pg!WaitFlips, Pg!FlipPending, Pg!WaitReturns, Pg!RequesterGone,
         Pg!DecideCalled, Pg!DecideFlips, Pg!DecideReturns, Pg!DeciderGone, Pg!Tick,
         Pg!rowVars, Pg!reqVars, Pg!voteVars,
         PgP!Next, PgP!RequesterStep, PgP!DeciderStep, PgP!RequestCalled, PgP!InsertCommits,
         PgP!InsertRefused, PgP!PendingFor, PgP!WaitCalled, PgP!WaitFetches, PgP!WaitLooks,
         PgP!Deadline, PgP!Smaller, PgP!WaitWakes, PgP!WaitFlips, PgP!FlipPending, PgP!WaitReturns,
         PgP!RequesterGone, PgP!DecideCalled, PgP!DecideFlips, PgP!DecideReturns, PgP!DeciderGone,
         PgP!Tick, PgP!rowVars, PgP!reqVars, PgP!voteVars
<1>3. UNCHANGED Pg!vars => UNCHANGED PgP!vars
  BY DEF Pg!vars, Pg!rowVars, Pg!reqVars, Pg!voteVars,
         PgP!vars, PgP!rowVars, PgP!reqVars, PgP!voteVars
<1>4. QED
  BY <1>1, <1>2, <1>3

----------------------------------------------------------------------------
\* Its steps are steps of Harness, and steps of the sink.

LEMMA PgStepImplements == [PgWiringNext]_wiredVars => [Next]_vars
<1> SUFFICES ASSUME [PgWiringNext]_wiredVars PROVE [Next]_vars
  OBVIOUS
<1>1. ASSUME NEW c \in Calls, MethodRuns(c) \/ RequestReturns(c) \/ WaitResolves(c)
      PROVE  CallStep(c)
  BY <1>1 DEF MethodRuns, RequestReturns, WaitResolves, CallStep
<1>2. ASSUME NEW c \in Calls, SinkRejects(c) \/ OutsideStep(c) \/ PolicyUnreachable(c)
      PROVE  Environment(c)
  BY <1>2 DEF SinkRejects, Environment
<1>3. ASSUME NEW c \in Calls, RequestSent(c) \/ WaitGoesOn(c) \/ StatementRuns(c) \/ Dropped(c)
      PROVE  UNCHANGED vars
  BY <1>3 DEF RequestSent, WaitGoesOn, StatementRuns, Dropped
<1>4. CASE UNCHANGED wiredVars \/ (\E v \in Votes : ApproverDecides(v))
  BY <1>4 DEF wiredVars, ApproverDecides
<1>5. CASE PgWiringNext
  BY <1>1, <1>2, <1>3, <1>4, <1>5 DEF PgWiringNext, SinkStep, Next, CallStep
<1>6. QED
  BY <1>4, <1>5

LEMMA PgStepIsOfTheSink == [PgWiringNext]_wiredVars => [Pg!Next]_(Pg!vars)
<1> SUFFICES ASSUME [PgWiringNext]_wiredVars PROVE [Pg!Next]_(Pg!vars)
  OBVIOUS
<1>1. UNCHANGED pgVars => UNCHANGED Pg!vars
  BY DEF pgVars, Pg!vars, Pg!rowVars, Pg!reqVars, Pg!voteVars
<1>2. ASSUME NEW c \in Calls, MethodRuns(c) \/ SinkStep(c) \/ SinkRejects(c) \/ Dropped(c)
      PROVE  UNCHANGED Pg!vars \/ Pg!RequestCalled(c) \/ Pg!RequesterStep(c) \/ Pg!RequesterGone(c)
  BY <1>1, <1>2 DEF MethodRuns, SinkStep, SinkRejects, Dropped, RequestSent, RequestReturns, WaitGoesOn,
                    WaitResolves, StatementRuns, Pg!RequesterStep
<1>3. ASSUME NEW v \in Votes, ApproverDecides(v)
      PROVE  Pg!Next
  BY <1>3 DEF ApproverDecides, Pg!Next
<1>4. CASE UNCHANGED wiredVars
  BY <1>1, <1>4 DEF wiredVars
<1>5. CASE PgWiringNext
  BY <1>1, <1>2, <1>3, <1>5 DEF PgWiringNext, Pg!Next
<1>6. QED
  BY <1>4, <1>5

\* The harness over Postgres implements the harness of module Harness: its sink
\* does what Harness lets any sink do.
THEOREM PgWiringImplements == PgWiringSpec => Spec
<1>1. PgWiringInit => Init
  BY DEF PgWiringInit
<1>2. QED
  BY <1>1, PgStepImplements, PTL DEF PgWiringSpec, Spec

\* And its sink is that of PgApprovals, which nothing the harness does disturbs.
THEOREM SinkIsPg == PgWiringSpec => Pg!Spec
<1>1. PgWiringInit => Pg!Init
  BY DEF PgWiringInit
<1>2. QED
  BY <1>1, PgStepIsOfTheSink, PTL DEF PgWiringSpec, Pg!Spec

\* So it writes at most once per key, too.
THEOREM PgWiredAtMostOnce == PgWiringSpec => AtMostOnce
  BY PgWiringImplements, Refinement

LEMMA SinkHolds == PgWiringSpec => [](PgP!IInv /\ PgP!VotesCount)
<1>1. PgWiringSpec => PgP!Spec
  <2>1. PgWiringInit => PgP!Init
    BY SameSink DEF PgWiringInit
  <2>2. [PgWiringNext]_wiredVars => [PgP!Next]_(PgP!vars)
    BY SameSink, PgStepIsOfTheSink
  <2>3. QED
    BY <2>1, <2>2, PTL DEF PgWiringSpec, PgP!Spec
<1>2. PgP!Spec => []PgP!IInv
  BY PgP!Invariance, PgAssumed
<1>3. PgP!Spec => []PgP!VotesCount
  BY PgP!VotesAreCounted, PgAssumed
<1>4. QED
  BY <1>1, <1>2, <1>3, PTL

----------------------------------------------------------------------------
\* The call and its requester, side by side.

\* Where a call stands in approve() and where its requester stands, and what it
\* was told.
InTouch(c) ==
    /\ pc[c] \in {"planned", "plan.created", "policy.evaluate", "policy.decided", "decided"} =>
         req[c] = "idle"
    /\ pc[c] = "approvals.request" => req[c] \in {"idle", "insert", "inserted"}
    /\ pc[c] = "approval.requested" => req[c] = "inserted"
    /\ pc[c] = "approvals.wait" =>
         req[c] \in {"fetch", "fetched", "asleep", "flip", "refetch", "refetched"}
    /\ req[c] # "idle" => decision[c] = "require_approval"
    /\ approval[c] \notin {"none", "pending"} => told[c] = approval[c]

\* Which states of its row stand behind an answer.
Answered(c) ==
    /\ answer[c] = "APPROVAL_TIMEOUT" => approval[c] \in {"expired", "cancelled"}
    /\ answer[c] = "APPROVAL_DENIED" => approval[c] = "denied" \/ req[c] = "idle"

PgInv == \A c \in Calls : InTouch(c) /\ Answered(c)

\* How the methods of a call move it, as far as the sink can tell.
Moves(c) ==
    \/ pc'[c] = pc[c]
    \/ pc'[c] \in {"done", "approved", "effect"} \cup Events
       /\ pc'[c] \notin {"plan.created", "policy.decided", "approval.requested"}
    \/ pc[c] = "plan.created" /\ pc'[c] = "policy.evaluate"
    \/ pc[c] = "policy.decided" /\ pc'[c] = "decided"
    \/ pc[c] = "decided" /\ pc'[c] = "approvals.request"
    \/ pc[c] = "approval.requested" /\ pc'[c] = "approvals.wait"

Replies(c) ==
    \/ answer'[c] = answer[c]
    \/ answer'[c] \notin {"APPROVAL_TIMEOUT", "APPROVAL_DENIED"}
    \/ answer'[c] = "APPROVAL_TIMEOUT" /\ approval[c] \in {"expired", "cancelled"}
    \/ answer'[c] = "APPROVAL_DENIED" /\ (approval[c] = "denied" \/ pc[c] = "decided")

LEMMA MethodMoves ==
    ASSUME TypeOK, NEW c \in Calls, MethodStep(c)
    PROVE  Moves(c) /\ Replies(c) /\ UNCHANGED <<approval, decision>>
<1> USE DEF Moves, Replies, Goto, Finish, TypeOK, harnessVars
<1>1. CASE AuditCommit(c)
  BY <1>1 DEF AuditCommit
<1>2. CASE PlanRecorded(c) \/ PolicyReturns(c)
  BY <1>2 DEF PlanRecorded, PolicyReturns
<1>3. CASE ApproveCalled(c) \/ RequestRecorded(c)
  BY <1>3 DEF ApproveCalled, RequestRecorded
<1>4. CASE ApproveReturns(c)
  BY <1>4 DEF ApproveReturns
<1>5. CASE ExecuteCalled(c, OwnApproval(c))
  <2>1. pc[c] = "approved" => ~ApprovalMissing(c, OwnApproval(c))
    BY CallsAssumption DEF ApprovalMissing, OwnApproval
  <2>2. QED
    BY <1>5, <2>1 DEF ExecuteCalled, Events
<1>6. CASE ReplayReturns(c) \/ EffectInvoked(c) \/ EffectReturns(c)
  BY <1>6 DEF ReplayReturns, EffectInvoked, EffectReturns, Events
<1>7. CASE EffectThrows(c) \/ FailureRecorded(c) \/ ExecuteReturns(c)
  BY <1>7 DEF EffectThrows, FailureRecorded, ExecuteReturns, Events
<1>8. QED
  BY <1>1, <1>2, <1>3, <1>4, <1>5, <1>6, <1>7 DEF MethodStep

\* A step leaves every other call where it stands.
Stands(c) ==
    /\ pc'[c] = pc[c] /\ answer'[c] = answer[c]
    /\ decision'[c] = decision[c] /\ approval'[c] = approval[c]
    /\ req'[c] = req[c] /\ told'[c] = told[c]

SinkStates == req \in [Calls -> Pg!ReqPCs] /\ told \in [Calls -> Pg!States \cup {"error"}]

LEMMA SinkStatesTyped == PgP!IInv => SinkStates
BY DEF PgP!IInv, PgP!TypeOK, SinkStates, Pg!ReqPCs, PgP!ReqPCs, Pg!States, PgP!States,
       Pg!Terminal, PgP!Terminal

CallRuns(d) ==
    \/ MethodRuns(d) \/ SinkStep(d) \/ SinkRejects(d) \/ Dropped(d)
    \/ (OutsideStep(d) \/ PolicyEvaluates(d) \/ PolicyUnreachable(d)) /\ UNCHANGED pgVars

LEMMA OthersStand ==
    ASSUME TypeOK, SinkStates, NEW d \in Calls, CallRuns(d), NEW c \in Calls, c # d
    PROVE  Stands(c)
<1> USE DEF Stands, TypeOK, SinkStates, Goto, Finish, vars, harnessVars, pgVars
<1>1. ASSUME MethodStep(d)
      PROVE  /\ pc'[c] = pc[c] /\ answer'[c] = answer[c]
             /\ decision'[c] = decision[c] /\ approval'[c] = approval[c]
  BY <1>1 DEF MethodStep, AuditCommit, PlanRecorded, PolicyReturns,
         ApproveCalled, RequestRecorded, ApproveReturns, ExecuteCalled, ReplayReturns,
         EffectInvoked, EffectReturns, EffectThrows, FailureRecorded, ExecuteReturns
<1>2. CASE MethodRuns(d)
  BY <1>1, <1>2 DEF MethodRuns, Pg!WaitCalled
<1>3. CASE RequestSent(d) \/ RequestReturns(d) \/ StatementRuns(d)
  BY <1>3 DEF RequestSent, RequestReturns, StatementRuns, SinkRequest, Pg!RequestCalled,
     Pg!InsertCommits, Pg!WaitFetches, Pg!WaitFlips
<1>4. CASE WaitGoesOn(d)
  BY <1>4 DEF WaitGoesOn, Pg!WaitLooks, Pg!WaitWakes
<1>5. CASE WaitResolves(d)
  BY <1>5 DEF WaitResolves, WaitReturns, Pg!WaitLooks, Pg!WaitReturns
<1>6. CASE SinkRejects(d) \/ Dropped(d)
  BY <1>6 DEF SinkRejects, Dropped, SinkFails, Pg!InsertRefused, Pg!RequesterGone
<1>7. CASE (OutsideStep(d) \/ PolicyEvaluates(d) \/ PolicyUnreachable(d)) /\ UNCHANGED pgVars
  BY <1>7 DEF OutsideStep, PolicyCalled, AuditRejects, GuidewireHandles, RequestLost,
     PolicyEvaluates, PolicyUnreachable
<1>8. QED
  BY <1>2, <1>3, <1>4, <1>5, <1>6, <1>7 DEF CallRuns, SinkStep

\* The call that moves, one kind of step at a time.
Aligned(c) == InTouch(c) /\ Answered(c)

LEMMA MethodAligns ==
    ASSUME TypeOK, SinkStates, NEW c \in Calls, Aligned(c), MethodRuns(c)
    PROVE  Aligned(c)'
<1> USE DEF Aligned, InTouch, Answered
<1>1. Moves(c) /\ Replies(c) /\ UNCHANGED <<approval, decision>>
  BY MethodMoves DEF MethodRuns
<1>2. UNCHANGED told
  BY DEF MethodRuns, Pg!WaitCalled, Pg!reqVars, pgVars
<1>3. CASE pc[c] = "approval.requested" /\ pc'[c] = "approvals.wait"
  <2>1. req[c] = "inserted" /\ req'[c] = "fetch"
    BY <1>3 DEF MethodRuns, Pg!WaitCalled, SinkStates
  <2>2. QED
    BY <1>1, <1>2, <1>3, <2>1 DEF Replies
<1>4. CASE ~(pc[c] = "approval.requested" /\ pc'[c] = "approvals.wait")
  <2>1. UNCHANGED req
    BY <1>4 DEF MethodRuns, pgVars
  <2>2. InTouch(c)'
    BY <1>1, <1>2, <1>4, <2>1 DEF Moves, Events
  <2>3. Answered(c)'
    BY <1>1, <2>1 DEF Replies
  <2>4. QED
    BY <2>2, <2>3
<1>5. QED
  BY <1>3, <1>4

LEMMA SinkAligns ==
    ASSUME TypeOK, SinkStates, PgP!IInv, IInv, NEW c \in Calls, Aligned(c),
           SinkStep(c) \/ SinkRejects(c) \/ Dropped(c)
    PROVE  Aligned(c)'
<1> USE DEF Aligned, InTouch, Answered, TypeOK, SinkStates, Goto, Finish, vars, harnessVars
<1>0. /\ told[c] \notin {"none", "error"} => told[c] \in {"approved", "denied", "expired"}
      /\ req[c] = "done" <=> told[c] # "none"
      /\ req[c] = "fetched" => seen[c] # "none"
  BY DEF PgP!IInv, PgP!ToldOf, PgP!SeenOf, PgP!Terminal
<1>1. CASE RequestSent(c)
  BY <1>1 DEF RequestSent, Pg!RequestCalled, IInv, Approval, InApprove, Answer
<1>2. CASE RequestReturns(c)
  BY <1>2, <1>0 DEF RequestReturns, SinkRequest, pgVars
<1>3. CASE WaitGoesOn(c)
  BY <1>0, <1>3 DEF WaitGoesOn, Pg!WaitLooks, Pg!WaitWakes
<1>4. CASE WaitResolves(c)
  BY <1>4 DEF WaitResolves, WaitReturns, Pg!WaitLooks, Pg!WaitReturns
<1>5. CASE StatementRuns(c)
  BY <1>5 DEF StatementRuns, Pg!InsertCommits, Pg!WaitFetches, Pg!WaitFlips
<1>6. CASE SinkRejects(c)
  BY <1>0, <1>6 DEF SinkRejects, SinkFails, Pg!InsertRefused, Pg!RequesterGone
<1>7. CASE Dropped(c)
  BY <1>0, <1>7 DEF Dropped, Pg!RequesterGone
<1>8. QED
  BY <1>1, <1>2, <1>3, <1>4, <1>5, <1>6, <1>7 DEF SinkStep

LEMMA OutsideAligns ==
    ASSUME TypeOK, NEW c \in Calls, Aligned(c), UNCHANGED pgVars,
           OutsideStep(c) \/ PolicyEvaluates(c) \/ PolicyUnreachable(c)
    PROVE  Aligned(c)'
<1> USE DEF Aligned, InTouch, Answered, TypeOK, Goto, Finish, harnessVars, pgVars
<1>1. CASE PolicyCalled(c) \/ AuditRejects(c)
  BY <1>1 DEF PolicyCalled, AuditRejects
<1>2. CASE GuidewireHandles(c) \/ RequestLost(c)
  BY <1>2 DEF GuidewireHandles, RequestLost
<1>3. CASE PolicyEvaluates(c) \/ PolicyUnreachable(c)
  BY <1>3 DEF PolicyEvaluates, PolicyUnreachable
<1>4. QED
  BY <1>1, <1>2, <1>3 DEF OutsideStep

LEMMA PgInvKept ==
    ASSUME IInv, PgP!IInv, PgInv, [PgWiringNext]_wiredVars
    PROVE  PgInv'
<1> SUFFICES ASSUME NEW c \in Calls PROVE Aligned(c)'
  BY DEF PgInv, Aligned
<1>0. TypeOK /\ SinkStates /\ Aligned(c)
  BY SinkStatesTyped DEF IInv, PgInv, Aligned
<1>1. CASE Stands(c)
  BY <1>0, <1>1 DEF Stands, Aligned, InTouch, Answered
<1>2. ASSUME NEW d \in Calls, CallRuns(d)
      PROVE  Aligned(c)'
  BY <1>0, <1>1, <1>2, OthersStand, MethodAligns, SinkAligns, OutsideAligns DEF CallRuns
<1>3. ASSUME NEW v \in Votes, ApproverDecides(v)
      PROVE  Stands(c)
  BY <1>3 DEF ApproverDecides, Pg!DecideCalled, Pg!DeciderStep, Pg!DecideFlips, Pg!DecideReturns,
     Pg!DeciderGone, Pg!reqVars, vars, harnessVars, Stands
<1>4. ASSUME NEW p \in Procs, Restart(p), UNCHANGED pgVars
      PROVE  Aligned(c)'
  BY <1>0, <1>4 DEF Restart, pgVars, TypeOK, Aligned, InTouch, Answered
<1>5. CASE UNCHANGED vars /\ (Pg!Tick \/ UNCHANGED pgVars)
  BY <1>1, <1>5 DEF Pg!Tick, Pg!reqVars, vars, harnessVars, pgVars, Stands
<1>6. QED
  BY <1>1, <1>2, <1>3, <1>4, <1>5 DEF PgWiringNext, CallRuns, wiredVars

PgWiringInv == IInv /\ PgP!IInv /\ PgP!VotesCount /\ PgInv

LEMMA PgWiringInvariance == PgWiringSpec => []PgWiringInv
<1>1. PgWiringInit => PgInv
  BY DEF PgWiringInit, Init, Pg!Init, PgInv, InTouch, Answered
<1>2. PgWiringSpec => []IInv
  BY PgWiringImplements, Invariance
<1>3. IInv /\ PgP!IInv /\ PgInv /\ [PgWiringNext]_wiredVars => PgInv'
  BY PgInvKept
<1>4. QED
  BY <1>1, <1>2, <1>3, SinkHolds, PTL DEF PgWiringSpec, PgWiringInv

\* What a call was told is what its row says.
LEMMA ToldIsTrue ==
    ASSUME IInv, PgP!IInv, PgInv, NEW c \in Calls, approval[c] \notin {"none", "pending"}
    PROVE  state[c] = approval[c] /\ approval[c] \in {"approved", "denied", "expired"}
<1>1. told[c] = approval[c] /\ told[c] \notin {"none", "error"}
  BY DEF PgInv, InTouch, IInv, TypeOK, ApprovalStates
<1>2. QED
  BY <1>1 DEF PgP!IInv, PgP!ToldOf, PgP!Terminal

\* No write without a row of its own that one vote approved, end to end.
THEOREM WritesHaveVotes == PgWiringSpec => []WritesAreVotedFor
<1>1. PgWiringInv => WritesAreVotedFor
  <2> SUFFICES ASSUME PgWiringInv, NEW c \in Calls,
                      wire[c] # "none", decision[c] = "require_approval"
               PROVE  state[c] = "approved" /\ \E v \in Votes : Verdict[v] = "approved" /\ votes[c] = {v}
    BY DEF WritesAreVotedFor
  <2>1. approval[c] = "approved"
    BY DEF PgWiringInv, IInv, WriteAuthorised, Sanctioned, Authorised
  <2>2. state[c] = "approved"
    BY <2>1, ToldIsTrue DEF PgWiringInv
  <2>3. QED
    BY <2>2 DEF PgWiringInv, PgP!VotesCount, PgP!Outcome
<1>2. QED
  BY <1>1, PgWiringInvariance, PTL

\* A vote that its approver was told of is the answer its caller gets, or the
\* caller gets none.
THEOREM BothHearTheVote == PgWiringSpec => []VoterAndCallerAgree
<1>1. PgWiringInv => VoterAndCallerAgree
  <2> SUFFICES ASSUME PgWiringInv, NEW v \in Votes, heard[v] \in {"approved", "denied"}
               PROVE  /\ heard[v] = "approved" =>
                           answer[voteOn[v]] \notin {"APPROVAL_DENIED", "APPROVAL_TIMEOUT"}
                      /\ heard[v] = "denied" => wire[voteOn[v]] = "none"
    BY DEF VoterAndCallerAgree
  <2> DEFINE c == voteOn[v]
  <2>1. c \in Calls /\ state[c] = heard[v]
    BY DEF PgWiringInv, PgP!VotesCount, PgP!Heard
  <2>2. req[c] # "idle" /\ decision[c] = "require_approval"
    BY <2>1 DEF PgWiringInv, PgP!IInv, PgP!RowOf, PgInv, InTouch
  <2>3. approval[c] \in {"none", "pending", heard[v]}
    BY <2>1, ToldIsTrue DEF PgWiringInv
  <2>4. ASSUME heard[v] = "approved"
        PROVE  answer[c] \notin {"APPROVAL_DENIED", "APPROVAL_TIMEOUT"}
    BY <2>1, <2>2, <2>3, <2>4 DEF PgWiringInv, PgInv, Answered
  <2>5. ASSUME heard[v] = "denied"
        PROVE  wire[c] = "none"
    BY <2>1, <2>2, <2>3, <2>5 DEF PgWiringInv, IInv, WriteAuthorised, Sanctioned, Authorised
  <2>6. QED
    BY <2>4, <2>5
<1>2. QED
  BY <1>1, PgWiringInvariance, PTL

\* A call that timed out has a row that expired in time, without a vote.
THEOREM TimeoutsAreFinal == PgWiringSpec => []TimeoutIsFinal
<1>1. PgWiringInv => TimeoutIsFinal
  <2> SUFFICES ASSUME PgWiringInv, NEW c \in Calls, answer[c] = "APPROVAL_TIMEOUT"
               PROVE  state[c] = "expired" /\ votes[c] = {} /\ Pg!ExpiryIsDue(c)
    BY DEF TimeoutIsFinal
  <2>1. approval[c] \in {"expired", "cancelled"}
    BY DEF PgWiringInv, PgInv, Answered
  <2>2. state[c] = "expired"
    BY <2>1, ToldIsTrue DEF PgWiringInv
  <2>3. votes[c] = {} /\ PgP!ExpiryIsDue(c)
    BY <2>2 DEF PgWiringInv, PgP!IInv, PgP!VotesOf, PgP!DueOf
  <2>4. QED
    BY <2>2, <2>3 DEF Pg!ExpiryIsDue, PgP!ExpiryIsDue
<1>2. QED
  BY <1>1, PgWiringInvariance, PTL
==============================================================================
