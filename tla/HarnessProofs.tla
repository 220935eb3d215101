--------------------------- MODULE HarnessProofs ---------------------------
(* Proofs about Harness, for every set of calls, processes and outcomes. *)
EXTENDS Harness, TLAPS

LEMMA KeyTyped == \A c \in Calls : KeyOf(c) \in Keys
BY DEF Keys

LEMMA CachedTyped == ASSUME TypeOK, NEW c \in Calls PROVE Cached(c) \in Calls \cup {NoCall}
<1>1. ProcOf[c] \in Procs
    BY CallsAssumption
<1>2. cache[ProcOf[c]] \in [Keys -> Calls \cup {NoCall}]
    BY <1>1 DEF TypeOK
<1>3. QED
    BY <1>2, KeyTyped DEF Cached

LEMMA InitTyped == Init => TypeOK
BY CallsAssumption
   DEF Init, TypeOK, PCs, Answers, Events, Awaits, WireStates

\* execute() keeps the types, whatever Approval is passed.
LEMMA ExecuteTyped ==
    ASSUME TypeOK, NEW c \in Calls, NEW a \in Calls \cup {NoCall}, ExecuteCalled(c, a)
    PROVE  TypeOK'
<1> USE DEF TypeOK, ExecuteCalled, Goto, Finish
<1>1. passed' \in [Calls -> Calls \cup {NoCall}]
    OBVIOUS
<1>2. Cached(c) \in Calls \cup {NoCall}
    BY CachedTyped
<1>3. replayOf' \in [Calls -> Calls \cup {NoCall}]
    BY <1>2
<1>4. pc' \in [Calls -> PCs]
    BY DEF PCs, Events
<1>5. answer' \in [Calls -> Answers]
    BY DEF Answers, Errors
<1>6. QED
    BY <1>1, <1>3, <1>4, <1>5

\* Type correctness of a step.
LEMMA StepTyped == TypeOK /\ [NextLax]_vars => TypeOK'
<1> SUFFICES ASSUME TypeOK, [NextLax]_vars
             PROVE  TypeOK'
    OBVIOUS
<1> USE CallsAssumption, KeyTyped DEF TypeOK, Goto, Finish
<1>1. ASSUME NEW c \in Calls, CallStep(c)
      PROVE  TypeOK'
  <2>1. CASE AuditCommit(c)
    BY <2>1 DEF AuditCommit, Entry, harnessVars
  <2>2. CASE PlanRecorded(c)
    BY <2>2 DEF PlanRecorded, PCs, Events, Awaits
  <2>3. CASE PolicyEvaluates(c)
    BY <2>3 DEF PolicyEvaluates, PCs, Events, Awaits
  <2>4. CASE PolicyReturns(c)
    BY <2>4 DEF PolicyReturns, PCs, Answers, Errors
  <2>5. CASE ApproveCalled(c)
    BY <2>5 DEF ApproveCalled, PCs, Awaits
  <2>6. CASE SinkRequest(c)
    BY <2>6 DEF SinkRequest, PCs, Events, ApprovalStates
  <2>7. CASE RequestRecorded(c)
    BY <2>7 DEF RequestRecorded, PCs, Awaits
  <2>8. CASE WaitReturns(c)
    BY <2>8 DEF WaitReturns, PCs, Events, ApprovalStates
  <2>9. CASE ApproveReturns(c)
    BY <2>9 DEF ApproveReturns, PCs, Answers, Errors
  <2>10. CASE ExecuteCalled(c, OwnApproval(c))
    <3>1. OwnApproval(c) \in Calls \cup {NoCall}
      BY DEF OwnApproval
    <3>2. QED
      BY <2>10, <3>1, ExecuteTyped
  <2>11. CASE ReplayReturns(c)
    BY <2>11 DEF ReplayReturns, PCs, Answers
  <2>12. CASE EffectInvoked(c)
    BY <2>12 DEF EffectInvoked, PCs, Awaits, WireStates
  <2>13. CASE EffectReturns(c)
    BY <2>13 DEF EffectReturns, PCs, Events
  <2>14. CASE EffectThrows(c)
    BY <2>14 DEF EffectThrows, PCs, Events, Answers, Errors
  <2>15. CASE FailureRecorded(c)
    BY <2>15 DEF FailureRecorded, PCs
  <2>16. CASE ExecuteReturns(c)
    BY <2>16 DEF ExecuteReturns, PCs, Answers
  <2>17. QED
    BY <1>1, <2>1, <2>2, <2>3, <2>4, <2>5, <2>6, <2>7, <2>8, <2>9,
       <2>10, <2>11, <2>12, <2>13, <2>14, <2>15, <2>16 DEF CallStep, MethodStep
<1>2. ASSUME NEW c \in Calls, Environment(c)
      PROVE  TypeOK'
  <2>1. CASE PolicyCalled(c)
    BY <2>1 DEF PolicyCalled, PCs, Events
  <2>2. CASE SinkDecide(c)
    BY <2>2 DEF SinkDecide, ApprovalStates, harnessVars
  <2>3. CASE GuidewireHandles(c)
    <3>1. wire' \in [Calls -> WireStates]
      BY <2>3 DEF GuidewireHandles, WireStates
    <3>2. written' \in [Keys -> Calls \cup {NoCall}]
      BY <2>3 DEF GuidewireHandles
    <3>3. QED
      BY <2>3, <3>1, <3>2 DEF GuidewireHandles, harnessVars
  <2>4. CASE RequestLost(c)
    BY <2>4 DEF RequestLost, WireStates, harnessVars
  <2>5. CASE AuditRejects(c)
    BY <2>5 DEF AuditRejects, PCs, Answers, Errors
  <2>6. CASE PolicyUnreachable(c)
    BY <2>6 DEF PolicyUnreachable, PCs, Answers, Errors
  <2>7. CASE SinkFails(c)
    BY <2>7 DEF SinkFails, PCs, Answers, Errors
  <2>8. QED
    BY <1>2, <2>1, <2>2, <2>3, <2>4, <2>5, <2>6, <2>7 DEF Environment, OutsideStep
<1>3. ASSUME NEW p \in Procs, Restart(p)
      PROVE  TypeOK'
    BY <1>3 DEF Restart, PCs, Answers
<1>4. ASSUME NEW c \in Calls, NEW a \in HeldApprovals, ExecuteCalled(c, a)
      PROVE  TypeOK'
    BY <1>4, ExecuteTyped DEF HeldApprovals
<1>5. CASE UNCHANGED vars
    BY <1>5 DEF vars, harnessVars
<1>6. QED
    BY <1>1, <1>2, <1>3, <1>4, <1>5 DEF NextLax, Next

\* Type correctness, of tools that keep to the documented sequence and of
\* tools that pass any Approval they hold.
THEOREM TypeCorrect == Spec => []TypeOK
<1>1. TypeOK /\ [Next]_vars => TypeOK'
    BY StepTyped DEF NextLax
<1>2. QED
    BY InitTyped, <1>1, PTL DEF Spec

THEOREM TypeCorrectLax == SpecLax => []TypeOK
BY InitTyped, StepTyped, PTL DEF SpecLax

----------------------------------------------------------------------------
\* What a step of call c leaves alone: everything that belongs to the others.
Same(d) ==
    /\ pc'[d] = pc[d] /\ answer'[d] = answer[d] /\ decision'[d] = decision[d]
    /\ approval'[d] = approval[d] /\ passed'[d] = passed[d]
    /\ replayOf'[d] = replayOf[d] /\ wire'[d] = wire[d]
    /\ \A e \in Events : Recorded(e, d)' <=> Recorded(e, d)

LEMMA OthersSame ==
    ASSUME TypeOK, NEW c \in Calls, CallStep(c) \/ Environment(c),
           NEW d \in Calls, d # c
    PROVE  Same(d)
<1> USE DEF TypeOK, Same, Goto, Finish, Recorded, Entry
<1>1. CASE AuditCommit(c)
    BY <1>1 DEF AuditCommit, harnessVars
<1>2. CASE PlanRecorded(c)
    BY <1>2 DEF PlanRecorded
<1>3. CASE PolicyEvaluates(c)
    BY <1>3 DEF PolicyEvaluates
<1>4. CASE PolicyUnreachable(c)
    BY <1>4 DEF PolicyUnreachable
<1>5. CASE PolicyReturns(c)
    BY <1>5 DEF PolicyReturns
<1>6. CASE ApproveCalled(c)
    BY <1>6 DEF ApproveCalled
<1>7. CASE SinkRequest(c)
    BY <1>7 DEF SinkRequest
<1>8. CASE SinkFails(c)
    BY <1>8 DEF SinkFails
<1>9. CASE RequestRecorded(c)
    BY <1>9 DEF RequestRecorded
<1>10. CASE WaitReturns(c)
    BY <1>10 DEF WaitReturns
<1>11. CASE ApproveReturns(c)
    BY <1>11 DEF ApproveReturns
<1>12. CASE ExecuteCalled(c, OwnApproval(c))
    BY <1>12 DEF ExecuteCalled
<1>13. CASE ReplayReturns(c)
    BY <1>13 DEF ReplayReturns
<1>14. CASE EffectInvoked(c)
    BY <1>14 DEF EffectInvoked
<1>15. CASE EffectReturns(c)
    BY <1>15 DEF EffectReturns
<1>16. CASE EffectThrows(c)
    BY <1>16 DEF EffectThrows
<1>17. CASE FailureRecorded(c)
    BY <1>17 DEF FailureRecorded
<1>18. CASE ExecuteReturns(c)
    BY <1>18 DEF ExecuteReturns
<1>19. CASE PolicyCalled(c)
    BY <1>19 DEF PolicyCalled
<1>20. CASE SinkDecide(c)
    BY <1>20 DEF SinkDecide, harnessVars
<1>21. CASE GuidewireHandles(c)
    BY <1>21 DEF GuidewireHandles, harnessVars
<1>22. CASE RequestLost(c)
    BY <1>22 DEF RequestLost, harnessVars
<1>23. CASE AuditRejects(c)
    BY <1>23 DEF AuditRejects
<1>24. QED
    BY <1>1, <1>2, <1>3, <1>4, <1>5, <1>6, <1>7, <1>8, <1>9, <1>10, <1>11, <1>12, <1>13,
       <1>14, <1>15, <1>16, <1>17, <1>18, <1>19, <1>20, <1>21, <1>22, <1>23
       DEF CallStep, MethodStep, Environment, OutsideStep

\* The audit store never loses an entry.
LEMMA EntriesStay ==
    ASSUME NEW c \in Calls, CallStep(c) \/ Environment(c)
    PROVE  audit \subseteq audit'
BY
   DEF CallStep, MethodStep, Environment, OutsideStep, AuditCommit, PlanRecorded, PolicyEvaluates,
       PolicyUnreachable, PolicyReturns, ApproveCalled, SinkRequest, SinkFails,
       RequestRecorded, WaitReturns, ApproveReturns, ExecuteCalled, ReplayReturns,
       EffectInvoked, EffectReturns, EffectThrows, FailureRecorded, ExecuteReturns,
       PolicyCalled, SinkDecide, GuidewireHandles, RequestLost,
       AuditRejects

LEMMA CachedAnswered ==
    ASSUME TypeOK, CacheIsAnswered, NEW c \in Calls, Cached(c) # NoCall
    PROVE  /\ Cached(c) \in Calls
           /\ KeyOf(Cached(c)) = KeyOf(c)
           /\ answer[Cached(c)] = "executed"
BY CallsAssumption, KeyTyped, CachedTyped DEF Cached, CacheIsAnswered

\* The entries a call has behind it stay behind it.
LEMMA ProgressKept ==
    ASSUME TypeOK, CacheIsAnswered, NEW c \in Calls, CallStep(c) \/ Environment(c),
           Progress(c), Approval(c), Wire(c), Answer(c), Replay(c),
           AuditedAhead(c), Sanctioned(c)
    PROVE  Progress(c)'
<1> USE DEF TypeOK, Goto, Finish, Recorded, Entry, Outcomes, Progress, PastPlan, PastPolicy,
            InApprove, InExecute, PCs, Events, Awaits
<1>1. CASE AuditCommit(c)
    BY <1>1 DEF AuditCommit, harnessVars
<1>2. CASE PlanRecorded(c)
    BY <1>2 DEF PlanRecorded
<1>3. CASE PolicyEvaluates(c)
  <2>1. PICK o \in PolicyOutcomes[c] : decision' = [decision EXCEPT ![c] = o]
    BY <1>3 DEF PolicyEvaluates
  <2>2. o \in Outcomes
    BY CallsAssumption
  <2>3. decision'[c] # "none"
    BY <2>1, <2>2
  <2>4. QED
    BY <1>3, <2>3 DEF PolicyEvaluates
<1>4. CASE PolicyUnreachable(c)
    BY <1>4 DEF PolicyUnreachable
<1>5. CASE PolicyReturns(c)
    BY <1>5 DEF PolicyReturns
<1>6. CASE ApproveCalled(c)
    BY <1>6 DEF ApproveCalled
<1>7. CASE SinkRequest(c)
    BY <1>7 DEF SinkRequest
<1>8. CASE SinkFails(c)
    BY <1>8 DEF SinkFails
<1>9. CASE RequestRecorded(c)
    BY <1>9 DEF RequestRecorded
<1>10. CASE WaitReturns(c)
    BY <1>10 DEF WaitReturns
<1>11. CASE ApproveReturns(c)
    BY <1>11 DEF ApproveReturns
<1>12. CASE ExecuteCalled(c, OwnApproval(c))
    BY <1>12 DEF ExecuteCalled
<1>13. CASE ReplayReturns(c)
    BY <1>13 DEF ReplayReturns
<1>14. CASE EffectInvoked(c)
    BY <1>14 DEF EffectInvoked
<1>15. CASE EffectReturns(c)
    BY <1>15 DEF EffectReturns
<1>16. CASE EffectThrows(c)
    BY <1>16 DEF EffectThrows
<1>17. CASE FailureRecorded(c)
    BY <1>17 DEF FailureRecorded
<1>18. CASE ExecuteReturns(c)
    BY <1>18 DEF ExecuteReturns
<1>19. CASE PolicyCalled(c)
    BY <1>19 DEF PolicyCalled
<1>20. CASE SinkDecide(c)
    BY <1>20 DEF SinkDecide, harnessVars
<1>21. CASE GuidewireHandles(c)
    BY <1>21 DEF GuidewireHandles, harnessVars
<1>22. CASE RequestLost(c)
    BY <1>22 DEF RequestLost, harnessVars
<1>23. CASE AuditRejects(c)
    BY <1>23 DEF AuditRejects
<1>24. QED
    BY <1>1, <1>2, <1>3, <1>4, <1>5, <1>6, <1>7, <1>8, <1>9, <1>10, <1>11, <1>12, <1>13,
       <1>14, <1>15, <1>16, <1>17, <1>18, <1>19, <1>20, <1>21, <1>22, <1>23
       DEF CallStep, MethodStep, Environment, OutsideStep

\* What approve() established is there when execute() is called.
LEMMA ApprovalKept ==
    ASSUME TypeOK, CacheIsAnswered, NEW c \in Calls, CallStep(c) \/ Environment(c),
           Progress(c), Approval(c), Wire(c), Answer(c), Replay(c),
           AuditedAhead(c), Sanctioned(c)
    PROVE  Approval(c)'
<1> USE DEF TypeOK, Goto, Finish, Recorded, Entry, Approval, Authorised, InApprove, InExecute
<1>1. CASE AuditCommit(c)
    BY <1>1 DEF AuditCommit, harnessVars
<1>2. CASE PlanRecorded(c)
    BY <1>2 DEF PlanRecorded
<1>3. CASE PolicyEvaluates(c)
    BY <1>3 DEF PolicyEvaluates
<1>4. CASE PolicyUnreachable(c)
    BY <1>4 DEF PolicyUnreachable
<1>5. CASE PolicyReturns(c)
    BY <1>5 DEF PolicyReturns
<1>6. CASE ApproveCalled(c)
    BY <1>6 DEF ApproveCalled
<1>7. CASE SinkRequest(c)
    BY <1>7 DEF SinkRequest
<1>8. CASE SinkFails(c)
    BY <1>8 DEF SinkFails
<1>9. CASE RequestRecorded(c)
    BY <1>9 DEF RequestRecorded
<1>10. CASE WaitReturns(c)
    BY <1>10 DEF WaitReturns, ApprovalStates
<1>11. CASE ApproveReturns(c)
    BY <1>11 DEF ApproveReturns
<1>12. CASE ExecuteCalled(c, OwnApproval(c))
    BY <1>12 DEF ExecuteCalled, OwnApproval, ApprovalMissing, Writers, Progress, PastPolicy
<1>13. CASE ReplayReturns(c)
    BY <1>13 DEF ReplayReturns
<1>14. CASE EffectInvoked(c)
    BY <1>14 DEF EffectInvoked
<1>15. CASE EffectReturns(c)
    BY <1>15 DEF EffectReturns
<1>16. CASE EffectThrows(c)
    BY <1>16 DEF EffectThrows
<1>17. CASE FailureRecorded(c)
    BY <1>17 DEF FailureRecorded
<1>18. CASE ExecuteReturns(c)
    BY <1>18 DEF ExecuteReturns
<1>19. CASE PolicyCalled(c)
    BY <1>19 DEF PolicyCalled
<1>20. CASE SinkDecide(c)
    BY <1>20 DEF SinkDecide, harnessVars
<1>21. CASE GuidewireHandles(c)
    BY <1>21 DEF GuidewireHandles, harnessVars
<1>22. CASE RequestLost(c)
    BY <1>22 DEF RequestLost, harnessVars
<1>23. CASE AuditRejects(c)
    BY <1>23 DEF AuditRejects
<1>24. QED
    BY <1>1, <1>2, <1>3, <1>4, <1>5, <1>6, <1>7, <1>8, <1>9, <1>10, <1>11, <1>12, <1>13,
       <1>14, <1>15, <1>16, <1>17, <1>18, <1>19, <1>20, <1>21, <1>22, <1>23
       DEF CallStep, MethodStep, Environment, OutsideStep

\* Guidewire and the wire keep agreeing on the writer of a key.
LEMMA WireKept ==
    ASSUME TypeOK, CacheIsAnswered, NEW c \in Calls, CallStep(c) \/ Environment(c),
           Progress(c), Approval(c), Wire(c), Answer(c), Replay(c),
           AuditedAhead(c), Sanctioned(c)
    PROVE  Wire(c)'
<1> USE DEF TypeOK, Goto, Finish, Recorded, Entry, Wire, InExecute
<1>1. CASE AuditCommit(c)
    BY <1>1 DEF AuditCommit, harnessVars
<1>2. CASE PlanRecorded(c)
    BY <1>2 DEF PlanRecorded
<1>3. CASE PolicyEvaluates(c)
    BY <1>3 DEF PolicyEvaluates
<1>4. CASE PolicyUnreachable(c)
    BY <1>4 DEF PolicyUnreachable
<1>5. CASE PolicyReturns(c)
    BY <1>5 DEF PolicyReturns
<1>6. CASE ApproveCalled(c)
    BY <1>6 DEF ApproveCalled
<1>7. CASE SinkRequest(c)
    BY <1>7 DEF SinkRequest
<1>8. CASE SinkFails(c)
    BY <1>8 DEF SinkFails
<1>9. CASE RequestRecorded(c)
    BY <1>9 DEF RequestRecorded
<1>10. CASE WaitReturns(c)
    BY <1>10 DEF WaitReturns
<1>11. CASE ApproveReturns(c)
    BY <1>11 DEF ApproveReturns
<1>12. CASE ExecuteCalled(c, OwnApproval(c))
    BY <1>12 DEF ExecuteCalled
<1>13. CASE ReplayReturns(c)
    BY <1>13 DEF ReplayReturns
<1>14. CASE EffectInvoked(c)
    BY <1>14 DEF EffectInvoked
<1>15. CASE EffectReturns(c)
    BY <1>15 DEF EffectReturns
<1>16. CASE EffectThrows(c)
    BY <1>16 DEF EffectThrows
<1>17. CASE FailureRecorded(c)
    BY <1>17 DEF FailureRecorded
<1>18. CASE ExecuteReturns(c)
    BY <1>18 DEF ExecuteReturns
<1>19. CASE PolicyCalled(c)
    BY <1>19 DEF PolicyCalled
<1>20. CASE SinkDecide(c)
    BY <1>20 DEF SinkDecide, harnessVars
<1>21. CASE GuidewireHandles(c)
    BY <1>21, CallsAssumption, KeyTyped DEF GuidewireHandles, harnessVars
<1>22. CASE RequestLost(c)
    BY <1>22 DEF RequestLost, harnessVars
<1>23. CASE AuditRejects(c)
    BY <1>23 DEF AuditRejects
<1>24. QED
    BY <1>1, <1>2, <1>3, <1>4, <1>5, <1>6, <1>7, <1>8, <1>9, <1>10, <1>11, <1>12, <1>13,
       <1>14, <1>15, <1>16, <1>17, <1>18, <1>19, <1>20, <1>21, <1>22, <1>23
       DEF CallStep, MethodStep, Environment, OutsideStep

\* A step gives an answer once, and `executed` after execute.completed.
LEMMA AnswerKept ==
    ASSUME TypeOK, CacheIsAnswered, NEW c \in Calls, CallStep(c) \/ Environment(c),
           Progress(c), Approval(c), Wire(c), Answer(c), Replay(c),
           AuditedAhead(c), Sanctioned(c)
    PROVE  Answer(c)'
<1> USE DEF TypeOK, Goto, Finish, Recorded, Entry, Answer
<1>1. CASE AuditCommit(c)
    BY <1>1 DEF AuditCommit, harnessVars
<1>2. CASE PlanRecorded(c)
    BY <1>2 DEF PlanRecorded
<1>3. CASE PolicyEvaluates(c)
    BY <1>3 DEF PolicyEvaluates
<1>4. CASE PolicyUnreachable(c)
    BY <1>4 DEF PolicyUnreachable
<1>5. CASE PolicyReturns(c)
    BY <1>5 DEF PolicyReturns
<1>6. CASE ApproveCalled(c)
    BY <1>6 DEF ApproveCalled
<1>7. CASE SinkRequest(c)
    BY <1>7 DEF SinkRequest
<1>8. CASE SinkFails(c)
    BY <1>8 DEF SinkFails
<1>9. CASE RequestRecorded(c)
    BY <1>9 DEF RequestRecorded
<1>10. CASE WaitReturns(c)
    BY <1>10 DEF WaitReturns
<1>11. CASE ApproveReturns(c)
    BY <1>11 DEF ApproveReturns
<1>12. CASE ExecuteCalled(c, OwnApproval(c))
    BY <1>12 DEF ExecuteCalled
<1>13. CASE ReplayReturns(c)
    BY <1>13 DEF ReplayReturns
<1>14. CASE EffectInvoked(c)
    BY <1>14 DEF EffectInvoked
<1>15. CASE EffectReturns(c)
    BY <1>15 DEF EffectReturns
<1>16. CASE EffectThrows(c)
    BY <1>16 DEF EffectThrows
<1>17. CASE FailureRecorded(c)
    BY <1>17 DEF FailureRecorded
<1>18. CASE ExecuteReturns(c)
    BY <1>18 DEF ExecuteReturns, Wire
<1>19. CASE PolicyCalled(c)
    BY <1>19 DEF PolicyCalled
<1>20. CASE SinkDecide(c)
    BY <1>20 DEF SinkDecide, harnessVars
<1>21. CASE GuidewireHandles(c)
    BY <1>21 DEF GuidewireHandles, harnessVars
<1>22. CASE RequestLost(c)
    BY <1>22 DEF RequestLost, harnessVars
<1>23. CASE AuditRejects(c)
    BY <1>23 DEF AuditRejects
<1>24. QED
    BY <1>1, <1>2, <1>3, <1>4, <1>5, <1>6, <1>7, <1>8, <1>9, <1>10, <1>11, <1>12, <1>13,
       <1>14, <1>15, <1>16, <1>17, <1>18, <1>19, <1>20, <1>21, <1>22, <1>23
       DEF CallStep, MethodStep, Environment, OutsideStep

\* A replay copies an answered result.
LEMMA ReplayKept ==
    ASSUME TypeOK, CacheIsAnswered, NEW c \in Calls, CallStep(c) \/ Environment(c),
           Progress(c), Approval(c), Wire(c), Answer(c), Replay(c),
           AuditedAhead(c), Sanctioned(c)
    PROVE  Replay(c)'
<1> USE DEF TypeOK, Goto, Finish, Recorded, Entry, Replay, Answer
<1>1. CASE AuditCommit(c)
    BY <1>1 DEF AuditCommit, harnessVars
<1>2. CASE PlanRecorded(c)
    BY <1>2 DEF PlanRecorded
<1>3. CASE PolicyEvaluates(c)
    BY <1>3 DEF PolicyEvaluates
<1>4. CASE PolicyUnreachable(c)
    BY <1>4 DEF PolicyUnreachable
<1>5. CASE PolicyReturns(c)
    BY <1>5 DEF PolicyReturns
<1>6. CASE ApproveCalled(c)
    BY <1>6 DEF ApproveCalled
<1>7. CASE SinkRequest(c)
    BY <1>7 DEF SinkRequest
<1>8. CASE SinkFails(c)
    BY <1>8 DEF SinkFails
<1>9. CASE RequestRecorded(c)
    BY <1>9 DEF RequestRecorded
<1>10. CASE WaitReturns(c)
    BY <1>10 DEF WaitReturns
<1>11. CASE ApproveReturns(c)
    BY <1>11 DEF ApproveReturns
<1>12. CASE ExecuteCalled(c, OwnApproval(c))
    BY <1>12, CachedAnswered DEF ExecuteCalled
<1>13. CASE ReplayReturns(c)
    BY <1>13 DEF ReplayReturns
<1>14. CASE EffectInvoked(c)
    BY <1>14 DEF EffectInvoked
<1>15. CASE EffectReturns(c)
    BY <1>15 DEF EffectReturns
<1>16. CASE EffectThrows(c)
    BY <1>16 DEF EffectThrows
<1>17. CASE FailureRecorded(c)
    BY <1>17 DEF FailureRecorded
<1>18. CASE ExecuteReturns(c)
    BY <1>18 DEF ExecuteReturns
<1>19. CASE PolicyCalled(c)
    BY <1>19 DEF PolicyCalled
<1>20. CASE SinkDecide(c)
    BY <1>20 DEF SinkDecide, harnessVars
<1>21. CASE GuidewireHandles(c)
    BY <1>21 DEF GuidewireHandles, harnessVars
<1>22. CASE RequestLost(c)
    BY <1>22 DEF RequestLost, harnessVars
<1>23. CASE AuditRejects(c)
    BY <1>23 DEF AuditRejects
<1>24. QED
    BY <1>1, <1>2, <1>3, <1>4, <1>5, <1>6, <1>7, <1>8, <1>9, <1>10, <1>11, <1>12, <1>13,
       <1>14, <1>15, <1>16, <1>17, <1>18, <1>19, <1>20, <1>21, <1>22, <1>23
       DEF CallStep, MethodStep, Environment, OutsideStep

\* A request that is out has its entries.
LEMMA AuditedAheadKept ==
    ASSUME TypeOK, CacheIsAnswered, NEW c \in Calls, CallStep(c) \/ Environment(c),
           Progress(c), Approval(c), Wire(c), Answer(c), Replay(c),
           AuditedAhead(c), Sanctioned(c)
    PROVE  AuditedAhead(c)'
<1> USE DEF TypeOK, Goto, Finish, Recorded, Entry, AuditedAhead, Progress, Wire, PastPlan,
            PastPolicy, InApprove, InExecute, PCs, Events, Awaits
<1>1. CASE AuditCommit(c)
    BY <1>1 DEF AuditCommit, harnessVars
<1>2. CASE PlanRecorded(c)
    BY <1>2 DEF PlanRecorded
<1>3. CASE PolicyEvaluates(c)
    BY <1>3 DEF PolicyEvaluates
<1>4. CASE PolicyUnreachable(c)
    BY <1>4 DEF PolicyUnreachable
<1>5. CASE PolicyReturns(c)
    BY <1>5 DEF PolicyReturns
<1>6. CASE ApproveCalled(c)
    BY <1>6 DEF ApproveCalled
<1>7. CASE SinkRequest(c)
    BY <1>7 DEF SinkRequest
<1>8. CASE SinkFails(c)
    BY <1>8 DEF SinkFails
<1>9. CASE RequestRecorded(c)
    BY <1>9 DEF RequestRecorded
<1>10. CASE WaitReturns(c)
    BY <1>10 DEF WaitReturns
<1>11. CASE ApproveReturns(c)
    BY <1>11 DEF ApproveReturns
<1>12. CASE ExecuteCalled(c, OwnApproval(c))
    BY <1>12 DEF ExecuteCalled
<1>13. CASE ReplayReturns(c)
    BY <1>13 DEF ReplayReturns
<1>14. CASE EffectInvoked(c)
    BY <1>14 DEF EffectInvoked
<1>15. CASE EffectReturns(c)
    BY <1>15 DEF EffectReturns
<1>16. CASE EffectThrows(c)
    BY <1>16 DEF EffectThrows
<1>17. CASE FailureRecorded(c)
    BY <1>17 DEF FailureRecorded
<1>18. CASE ExecuteReturns(c)
    BY <1>18 DEF ExecuteReturns
<1>19. CASE PolicyCalled(c)
    BY <1>19 DEF PolicyCalled
<1>20. CASE SinkDecide(c)
    BY <1>20 DEF SinkDecide, harnessVars
<1>21. CASE GuidewireHandles(c)
    BY <1>21 DEF GuidewireHandles, harnessVars
<1>22. CASE RequestLost(c)
    BY <1>22 DEF RequestLost, harnessVars
<1>23. CASE AuditRejects(c)
    BY <1>23 DEF AuditRejects
<1>24. QED
    BY <1>1, <1>2, <1>3, <1>4, <1>5, <1>6, <1>7, <1>8, <1>9, <1>10, <1>11, <1>12, <1>13,
       <1>14, <1>15, <1>16, <1>17, <1>18, <1>19, <1>20, <1>21, <1>22, <1>23
       DEF CallStep, MethodStep, Environment, OutsideStep

\* A request that is out stays authorised: the row is final by then.
LEMMA SanctionedKept ==
    ASSUME TypeOK, CacheIsAnswered, NEW c \in Calls, CallStep(c) \/ Environment(c),
           Progress(c), Approval(c), Wire(c), Answer(c), Replay(c),
           AuditedAhead(c), Sanctioned(c)
    PROVE  Sanctioned(c)'
<1> USE DEF TypeOK, Goto, Finish, Recorded, Entry, Sanctioned, Authorised, Wire, Approval,
            InExecute
<1>1. CASE AuditCommit(c)
    BY <1>1 DEF AuditCommit, harnessVars
<1>2. CASE PlanRecorded(c)
    BY <1>2 DEF PlanRecorded
<1>3. CASE PolicyEvaluates(c)
    BY <1>3 DEF PolicyEvaluates
<1>4. CASE PolicyUnreachable(c)
    BY <1>4 DEF PolicyUnreachable
<1>5. CASE PolicyReturns(c)
    BY <1>5 DEF PolicyReturns
<1>6. CASE ApproveCalled(c)
    BY <1>6 DEF ApproveCalled
<1>7. CASE SinkRequest(c)
    BY <1>7 DEF SinkRequest
<1>8. CASE SinkFails(c)
    BY <1>8 DEF SinkFails
<1>9. CASE RequestRecorded(c)
    BY <1>9 DEF RequestRecorded
<1>10. CASE WaitReturns(c)
    BY <1>10 DEF WaitReturns
<1>11. CASE ApproveReturns(c)
    BY <1>11 DEF ApproveReturns
<1>12. CASE ExecuteCalled(c, OwnApproval(c))
    BY <1>12 DEF ExecuteCalled
<1>13. CASE ReplayReturns(c)
    BY <1>13 DEF ReplayReturns
<1>14. CASE EffectInvoked(c)
    BY <1>14 DEF EffectInvoked
<1>15. CASE EffectReturns(c)
    BY <1>15 DEF EffectReturns
<1>16. CASE EffectThrows(c)
    BY <1>16 DEF EffectThrows
<1>17. CASE FailureRecorded(c)
    BY <1>17 DEF FailureRecorded
<1>18. CASE ExecuteReturns(c)
    BY <1>18 DEF ExecuteReturns
<1>19. CASE PolicyCalled(c)
    BY <1>19 DEF PolicyCalled
<1>20. CASE SinkDecide(c)
    BY <1>20 DEF SinkDecide, harnessVars
<1>21. CASE GuidewireHandles(c)
    BY <1>21 DEF GuidewireHandles, harnessVars
<1>22. CASE RequestLost(c)
    BY <1>22 DEF RequestLost, harnessVars
<1>23. CASE AuditRejects(c)
    BY <1>23 DEF AuditRejects
<1>24. QED
    BY <1>1, <1>2, <1>3, <1>4, <1>5, <1>6, <1>7, <1>8, <1>9, <1>10, <1>11, <1>12, <1>13,
       <1>14, <1>15, <1>16, <1>17, <1>18, <1>19, <1>20, <1>21, <1>22, <1>23
       DEF CallStep, MethodStep, Environment, OutsideStep

\* An answer `executed` is final.
LEMMA ExecutedStays ==
    ASSUME TypeOK, NEW c \in Calls, CallStep(c) \/ Environment(c),
           Answer(c), answer[c] = "executed"
    PROVE  answer'[c] = "executed"
<1> USE DEF TypeOK, Goto, Finish, Recorded, Entry, Answer
<1>1. CASE AuditCommit(c)
    BY <1>1 DEF AuditCommit, harnessVars
<1>2. CASE PlanRecorded(c)
    BY <1>2 DEF PlanRecorded
<1>3. CASE PolicyEvaluates(c)
    BY <1>3 DEF PolicyEvaluates
<1>4. CASE PolicyUnreachable(c)
    BY <1>4 DEF PolicyUnreachable
<1>5. CASE PolicyReturns(c)
    BY <1>5 DEF PolicyReturns
<1>6. CASE ApproveCalled(c)
    BY <1>6 DEF ApproveCalled
<1>7. CASE SinkRequest(c)
    BY <1>7 DEF SinkRequest
<1>8. CASE SinkFails(c)
    BY <1>8 DEF SinkFails
<1>9. CASE RequestRecorded(c)
    BY <1>9 DEF RequestRecorded
<1>10. CASE WaitReturns(c)
    BY <1>10 DEF WaitReturns
<1>11. CASE ApproveReturns(c)
    BY <1>11 DEF ApproveReturns
<1>12. CASE ExecuteCalled(c, OwnApproval(c))
    BY <1>12 DEF ExecuteCalled
<1>13. CASE ReplayReturns(c)
    BY <1>13 DEF ReplayReturns
<1>14. CASE EffectInvoked(c)
    BY <1>14 DEF EffectInvoked
<1>15. CASE EffectReturns(c)
    BY <1>15 DEF EffectReturns
<1>16. CASE EffectThrows(c)
    BY <1>16 DEF EffectThrows
<1>17. CASE FailureRecorded(c)
    BY <1>17 DEF FailureRecorded
<1>18. CASE ExecuteReturns(c)
    BY <1>18 DEF ExecuteReturns
<1>19. CASE PolicyCalled(c)
    BY <1>19 DEF PolicyCalled
<1>20. CASE SinkDecide(c)
    BY <1>20 DEF SinkDecide, harnessVars
<1>21. CASE GuidewireHandles(c)
    BY <1>21 DEF GuidewireHandles, harnessVars
<1>22. CASE RequestLost(c)
    BY <1>22 DEF RequestLost, harnessVars
<1>23. CASE AuditRejects(c)
    BY <1>23 DEF AuditRejects, Events
<1>24. QED
    BY <1>1, <1>2, <1>3, <1>4, <1>5, <1>6, <1>7, <1>8, <1>9, <1>10, <1>11, <1>12, <1>13,
       <1>14, <1>15, <1>16, <1>17, <1>18, <1>19, <1>20, <1>21, <1>22, <1>23
       DEF CallStep, MethodStep, Environment, OutsideStep

LEMMA CacheKept ==
    ASSUME TypeOK, NEW c \in Calls, CallStep(c) \/ Environment(c),
           Answer(c), CacheIsAnswered
    PROVE  CacheIsAnswered'
<1>1. \A d \in Calls : answer[d] = "executed" => answer'[d] = "executed"
    BY ExecutedStays, OthersSame DEF Same
<1>2. \A e \in Events, d \in Calls : Recorded(e, d) => Recorded(e, d)'
    BY EntriesStay DEF Recorded, Entry
<1>3. CASE ExecuteReturns(c)
  <2>1. \A p \in Procs, k \in Keys : cache'[p][k] = cache[p][k] \/ (cache'[p][k] = c /\
  k = KeyOf(c))
    BY <1>3, CallsAssumption, KeyTyped DEF ExecuteReturns, TypeOK
  <2>2. answer'[c] = "executed" /\ Recorded("execute.completed", c)'
    BY <1>3 DEF ExecuteReturns, Finish, TypeOK, Recorded, Entry
  <2>3. QED
    BY <1>1, <1>2, <2>1, <2>2 DEF CacheIsAnswered, TypeOK, Events
<1>4. CASE UNCHANGED cache
    BY <1>1, <1>2, <1>4 DEF CacheIsAnswered, TypeOK, Events
<1>5. QED
    BY <1>3, <1>4 DEF CallStep, MethodStep, Environment, OutsideStep, harnessVars,
       AuditCommit, PlanRecorded, PolicyEvaluates, PolicyUnreachable, PolicyReturns,
       ApproveCalled, SinkRequest, SinkFails, RequestRecorded, WaitReturns,
       ApproveReturns, ExecuteCalled, ReplayReturns, EffectInvoked, EffectReturns,
       EffectThrows, FailureRecorded, PolicyCalled, SinkDecide,
       GuidewireHandles, RequestLost, AuditRejects

\* A step of a call, or of its environment.
LEMMA CallInv ==
    ASSUME IInv, NEW c \in Calls, CallStep(c) \/ Environment(c)
    PROVE  IInv'
<1>1. TypeOK'
    BY StepTyped DEF IInv, NextLax, Next
<1>2. CacheIsAnswered'
    BY CacheKept DEF IInv
<1>3. ASSUME NEW d \in Calls
      PROVE  /\ (Progress(d) /\ Approval(d) /\ Wire(d) /\ Answer(d) /\ Replay(d))'
             /\ (AuditedAhead(d) /\ Sanctioned(d))'
  <2>1. CASE d = c
    BY <2>1, ProgressKept, ApprovalKept, WireKept, AnswerKept, ReplayKept,
       AuditedAheadKept, SanctionedKept DEF IInv, WriteAheadAudit, WriteAuthorised
  <2>2. CASE d # c
    <3>1. Same(d)
      BY <2>2, OthersSame DEF IInv
    <3>2. Progress(d)' /\ Approval(d)' /\ Answer(d)' /\ AuditedAhead(d)' /\ Sanctioned(d)'
      <4>1. wire'[d] = "applied" <=> wire[d] = "applied"
        BY <3>1 DEF Same
      <4>2. Progress(d)' /\ AuditedAhead(d)'
        BY <3>1 DEF IInv, WriteAheadAudit, Progress, AuditedAhead, Same, Events
      <4>3. Approval(d)' /\ Sanctioned(d)'
        BY <3>1 DEF IInv, WriteAuthorised, Approval, Sanctioned, Authorised, Same, Events
      <4>4. Answer(d)'
        BY <3>1, <4>1 DEF IInv, Answer, Same, Events
      <4>5. QED
        BY <4>2, <4>3, <4>4
    <3>3. Wire(d)'
      <4>1. written'[KeyOf(d)] = d <=> written[KeyOf(d)] = d
        <5>1. CASE GuidewireHandles(c)
          BY <5>1, <2>2, KeyTyped, CallsAssumption DEF GuidewireHandles, IInv, TypeOK
        <5>2. CASE UNCHANGED written
          BY <5>2
        <5>3. QED
          BY <5>1, <5>2 DEF CallStep, MethodStep, Environment, OutsideStep, harnessVars,
             AuditCommit, PlanRecorded, PolicyEvaluates, PolicyUnreachable,
             PolicyReturns, ApproveCalled, SinkRequest, SinkFails, RequestRecorded,
             WaitReturns, ApproveReturns, ExecuteCalled, ReplayReturns, EffectInvoked,
             EffectReturns, EffectThrows, FailureRecorded, ExecuteReturns, PolicyCalled,
             SinkDecide, GuidewireHandles, RequestLost, AuditRejects
      <4>2. QED
        BY <3>1, <4>1 DEF IInv, Wire, Same
    <3>4. Replay(d)'
      BY <3>1, ExecutedStays, OthersSame DEF IInv, Replay, Same
    <3>5. QED
      BY <3>2, <3>3, <3>4
  <2>3. QED
    BY <2>1, <2>2
<1>4. QED
    BY <1>1, <1>2, <1>3 DEF IInv, WriteAheadAudit, WriteAuthorised

\* A stop of process p.
LEMMA RestartInv ==
    ASSUME IInv, NEW p \in Procs, Restart(p)
    PROVE  IInv'
<1>1. TypeOK'
    BY StepTyped DEF IInv, NextLax, Next
<1>2. \A d \in Calls : \/ pc'[d] = pc[d] /\ answer'[d] = answer[d]
                       \/ pc'[d] = "done" /\ answer'[d] = "lost" /\ pc[d] # "done"
    BY DEF Restart, Running
<1>3. \A d \in Calls : answer[d] = "executed" => answer'[d] = "executed"
    BY <1>2 DEF IInv, Answer
<1>4. \A e \in Events, d \in Calls : Recorded(e, d)' <=> Recorded(e, d)
    BY DEF Restart, Recorded, Entry
<1>5. CacheIsAnswered'
    BY <1>3, <1>4 DEF IInv, TypeOK, CacheIsAnswered, Restart, Events
<1>6. ASSUME NEW d \in Calls
      PROVE  /\ (Progress(d) /\ Approval(d) /\ Wire(d) /\ Answer(d) /\ Replay(d))'
             /\ (AuditedAhead(d) /\ Sanctioned(d))'
  <2>1. Progress(d)' /\ Approval(d)' /\ AuditedAhead(d)' /\ Sanctioned(d)'
    BY <1>2, <1>4 DEF IInv, Restart, WriteAheadAudit, WriteAuthorised, Progress, Approval,
       AuditedAhead, Sanctioned, Authorised, PastPlan, PastPolicy, InApprove, InExecute, Events
  <2>2. Wire(d)'
    BY <1>2 DEF IInv, Restart, Wire, InExecute
  <2>3. Answer(d)'
    BY <1>2, <1>4 DEF IInv, Restart, Answer, Events
  <2>4. Replay(d)'
    BY <1>2, <1>3 DEF IInv, Restart, Replay
  <2>5. QED
    BY <2>1, <2>2, <2>3, <2>4
<1>7. QED
    BY <1>1, <1>5, <1>6 DEF IInv, WriteAheadAudit, WriteAuthorised

LEMMA InitInv == Init => IInv
<1> SUFFICES ASSUME Init PROVE IInv
    OBVIOUS
<1>1. TypeOK
    BY InitTyped
<1>2. ASSUME NEW c \in Calls
      PROVE  Progress(c) /\ Approval(c) /\ Wire(c) /\ Answer(c) /\ Replay(c)
    BY CallsAssumption, KeyTyped
       DEF Init, Progress, Approval, Wire, Answer, Replay, PastPlan, PastPolicy,
       InApprove, InExecute
<1>3. WriteAheadAudit /\ WriteAuthorised /\ CacheIsAnswered
    BY DEF Init, WriteAheadAudit, WriteAuthorised, AuditedAhead, Sanctioned, CacheIsAnswered
<1>4. QED
    BY <1>1, <1>2, <1>3 DEF IInv

LEMMA StutterInv == IInv /\ UNCHANGED vars => IInv'
BY DEF IInv, TypeOK, Progress, Approval, Wire, Answer, Replay, WriteAheadAudit, WriteAuthorised,
   AuditedAhead, Sanctioned, CacheIsAnswered, Authorised, Recorded, vars, harnessVars

\* The inductive invariant holds in every reachable state.
THEOREM Invariance == Spec => []IInv
<1>1. IInv /\ [Next]_vars => IInv'
    BY CallInv, RestartInv, StutterInv DEF Next
<1>2. QED
    BY InitInv, <1>1, PTL DEF Spec

----------------------------------------------------------------------------
\* The safety properties, for every instance.

\* No request leaves for Guidewire before its plan, policy decision and
\* execute.started are durable.
THEOREM AuditedBeforeSent == Spec => []WriteAheadAudit
BY Invariance, PTL DEF IInv

\* No request leaves without authority of policy or of this plan's approver.
THEOREM AuthorisedBeforeSent == Spec => []WriteAuthorised
BY Invariance, PTL DEF IInv

LEMMA ExecutedInv == IInv => ExecutedIsTheWrite
BY DEF IInv, ExecutedIsTheWrite, Answer, Wire, Writers

\* A writing tool told "executed" owns the write of its key.
THEOREM ExecutedOnce == Spec => []ExecutedIsTheWrite
BY Invariance, ExecutedInv, PTL

LEMMA SameKeySameWriter ==
    ASSUME NEW c \in Writers, NEW d \in Calls, KeyOf(d) = KeyOf(c)
    PROVE  d \in Writers
BY SameToolSameMode DEF Writers

LEMMA ReplayInv == IInv => ReplayIsBacked
<1> SUFFICES ASSUME IInv, NEW c \in Calls, answer[c] = "replayed"
             PROVE  LET d == replayOf[c]
                    IN /\ d \in Calls
                       /\ KeyOf(d) = KeyOf(c)
                       /\ answer[d] = "executed"
                       /\ Recorded("execute.completed", d)
                       /\ c \in Writers => written[KeyOf(c)] = d
    BY DEF ReplayIsBacked
<1>1. /\ replayOf[c] \in Calls
      /\ KeyOf(replayOf[c]) = KeyOf(c)
      /\ answer[replayOf[c]] = "executed"
    BY DEF IInv, Replay
<1>2. Recorded("execute.completed", replayOf[c])
    BY <1>1 DEF IInv, Answer
<1>3. c \in Writers => written[KeyOf(c)] = replayOf[c]
    BY <1>1, SameKeySameWriter DEF IInv, Answer, Wire
<1>4. QED
    BY <1>1, <1>2, <1>3

\* A replayed answer is backed by a durable, answered execution.
THEOREM ReplayBacked == Spec => []ReplayIsBacked
BY Invariance, ReplayInv, PTL

----------------------------------------------------------------------------
\* What the trail of a call holds while it runs: nothing but the entries of the
\* awaits behind it, and perhaps the one it is appending.

Before(c) == Planned \cup (IF passed[c] = NoCall THEN {} ELSE Approve)

Past(c) ==
    IF pc[c] \in {"planned", "plan.created"} THEN {}
    ELSE IF pc[c] \in {"policy.evaluate", "policy.decided"} THEN {"plan.created"}
    ELSE IF pc[c] \in {"decided", "approvals.request", "approval.requested"} THEN Planned
    ELSE IF pc[c] \in {"approvals.wait", "approval.decided"} THEN Planned \cup {"approval.requested"}
    ELSE IF pc[c] = "approved" THEN Planned \cup Approve
    ELSE IF pc[c] \in {"execute.replayed", "execute.started"} THEN Before(c)
    ELSE Before(c) \cup {"execute.started"}

TrailAt(c) ==
    pc[c] # "done" => \A e \in Events \ {pc[c]} : Recorded(e, c) <=> e \in Past(c)

\* The call has no row before it asks for one, and no Approval before execute().
Unasked(c) ==
    /\ pc[c] \in {"planned", "plan.created", "policy.evaluate", "policy.decided",
                  "decided", "approvals.request"} => approval[c] = "none"
    /\ pc[c] \notin InExecute \cup {"execute.replayed", "done"} => passed[c] = NoCall

Ended(c) ==
    pc[c] = "done" /\ answer[c] \notin {"AUDIT_ERROR", "lost"} => Trail(c) \in TrailOf(c)

TrailInv == \A c \in Calls : TrailAt(c) /\ Unasked(c) /\ Ended(c)

\* A call gets a row, and an Approval, only by asking.
LEMMA UnaskedKept ==
    ASSUME IInv, NEW c \in Calls, CallStep(c) \/ Environment(c),
           TrailAt(c), Unasked(c), Ended(c)
    PROVE  Unasked(c)'
<1> USE DEF IInv, TypeOK, Goto, Finish, Unasked, PCs, Events, Awaits, InExecute
<1>1. CASE AuditCommit(c)
    BY <1>1 DEF AuditCommit, harnessVars
<1>2. CASE PlanRecorded(c)
    BY <1>2 DEF PlanRecorded
<1>3. CASE PolicyEvaluates(c)
    BY <1>3 DEF PolicyEvaluates
<1>4. CASE PolicyUnreachable(c)
    BY <1>4 DEF PolicyUnreachable
<1>5. CASE PolicyReturns(c)
    BY <1>5 DEF PolicyReturns
<1>6. CASE ApproveCalled(c)
    BY <1>6 DEF ApproveCalled
<1>7. CASE SinkRequest(c)
    BY <1>7 DEF SinkRequest
<1>8. CASE SinkFails(c)
    BY <1>8 DEF SinkFails
<1>9. CASE RequestRecorded(c)
    BY <1>9 DEF RequestRecorded
<1>10. CASE WaitReturns(c)
    BY <1>10 DEF WaitReturns
<1>11. CASE ApproveReturns(c)
    BY <1>11 DEF ApproveReturns
<1>12. CASE ExecuteCalled(c, OwnApproval(c))
    BY <1>12 DEF ExecuteCalled, OwnApproval
<1>13. CASE ReplayReturns(c)
    BY <1>13 DEF ReplayReturns
<1>14. CASE EffectInvoked(c)
    BY <1>14 DEF EffectInvoked
<1>15. CASE EffectReturns(c)
    BY <1>15 DEF EffectReturns
<1>16. CASE EffectThrows(c)
    BY <1>16 DEF EffectThrows
<1>17. CASE FailureRecorded(c)
    BY <1>17 DEF FailureRecorded
<1>18. CASE ExecuteReturns(c)
    BY <1>18 DEF ExecuteReturns
<1>19. CASE PolicyCalled(c)
    BY <1>19 DEF PolicyCalled
<1>20. CASE SinkDecide(c)
    BY <1>20 DEF SinkDecide, harnessVars
<1>21. CASE GuidewireHandles(c)
    BY <1>21 DEF GuidewireHandles, harnessVars
<1>22. CASE RequestLost(c)
    BY <1>22 DEF RequestLost, harnessVars
<1>23. CASE AuditRejects(c)
    BY <1>23 DEF AuditRejects
<1>24. QED
    BY <1>1, <1>2, <1>3, <1>4, <1>5, <1>6, <1>7, <1>8, <1>9, <1>10, <1>11, <1>12, <1>13,
       <1>14, <1>15, <1>16, <1>17, <1>18, <1>19, <1>20, <1>21, <1>22, <1>23
       DEF CallStep, MethodStep, Environment, OutsideStep

\* A step records what it was awaiting, and nothing else.
LEMMA TrailAtKept ==
    ASSUME IInv, NEW c \in Calls, CallStep(c) \/ Environment(c),
           TrailAt(c), Unasked(c), Ended(c)
    PROVE  TrailAt(c)'
<1> USE CallsAssumption
       DEF IInv, TypeOK, Goto, Finish, Unasked, TrailAt, Past, Before, Recorded, Entry,
           PCs, Events, Awaits, Planned, Approve, InExecute
<1>1. CASE AuditCommit(c)
    BY <1>1 DEF AuditCommit, harnessVars
<1>2. CASE PlanRecorded(c)
    BY <1>2 DEF PlanRecorded
<1>3. CASE PolicyEvaluates(c)
    BY <1>3 DEF PolicyEvaluates
<1>4. CASE PolicyUnreachable(c)
    BY <1>4 DEF PolicyUnreachable
<1>5. CASE PolicyReturns(c)
    BY <1>5 DEF PolicyReturns
<1>6. CASE ApproveCalled(c)
    BY <1>6 DEF ApproveCalled
<1>7. CASE SinkRequest(c)
    BY <1>7 DEF SinkRequest
<1>8. CASE SinkFails(c)
    BY <1>8 DEF SinkFails
<1>9. CASE RequestRecorded(c)
    BY <1>9 DEF RequestRecorded
<1>10. CASE WaitReturns(c)
    BY <1>10 DEF WaitReturns
<1>11. CASE ApproveReturns(c)
    BY <1>11 DEF ApproveReturns
<1>12. CASE ExecuteCalled(c, OwnApproval(c))
    BY <1>12 DEF ExecuteCalled, OwnApproval
<1>13. CASE ReplayReturns(c)
    BY <1>13 DEF ReplayReturns
<1>14. CASE EffectInvoked(c)
    BY <1>14 DEF EffectInvoked
<1>15. CASE EffectReturns(c)
    BY <1>15 DEF EffectReturns
<1>16. CASE EffectThrows(c)
    BY <1>16 DEF EffectThrows
<1>17. CASE FailureRecorded(c)
    BY <1>17 DEF FailureRecorded
<1>18. CASE ExecuteReturns(c)
    BY <1>18 DEF ExecuteReturns
<1>19. CASE PolicyCalled(c)
    BY <1>19 DEF PolicyCalled
<1>20. CASE SinkDecide(c)
    BY <1>20 DEF SinkDecide, harnessVars
<1>21. CASE GuidewireHandles(c)
    BY <1>21 DEF GuidewireHandles, harnessVars
<1>22. CASE RequestLost(c)
    BY <1>22 DEF RequestLost, harnessVars
<1>23. CASE AuditRejects(c)
    BY <1>23 DEF AuditRejects
<1>24. QED
    BY <1>1, <1>2, <1>3, <1>4, <1>5, <1>6, <1>7, <1>8, <1>9, <1>10, <1>11, <1>12, <1>13,
       <1>14, <1>15, <1>16, <1>17, <1>18, <1>19, <1>20, <1>21, <1>22, <1>23
       DEF CallStep, MethodStep, Environment, OutsideStep

\* An answer comes with all of its entries, and later steps leave them alone.
LEMMA EndedKept ==
    ASSUME IInv, NEW c \in Calls, CallStep(c) \/ Environment(c),
           TrailAt(c), Unasked(c), Ended(c)
    PROVE  Ended(c)'
<1> USE CallsAssumption
       DEF IInv, TypeOK, Goto, Finish, Unasked, TrailAt, Past, Before, Recorded, Entry,
           PCs, Events, Awaits, Planned, Approve, InExecute, Ended, Trail, TrailOf,
           Approval, Answer, InApprove
<1>1. CASE AuditCommit(c)
    BY <1>1 DEF AuditCommit, harnessVars
<1>2. CASE PlanRecorded(c)
    BY <1>2 DEF PlanRecorded
<1>3. CASE PolicyEvaluates(c)
    BY <1>3 DEF PolicyEvaluates
<1>4. CASE PolicyUnreachable(c)
    BY <1>4 DEF PolicyUnreachable
<1>5. CASE PolicyReturns(c)
    BY <1>5 DEF PolicyReturns
<1>6. CASE ApproveCalled(c)
    BY <1>6 DEF ApproveCalled
<1>7. CASE SinkRequest(c)
    BY <1>7 DEF SinkRequest
<1>8. CASE SinkFails(c)
    BY <1>8 DEF SinkFails
<1>9. CASE RequestRecorded(c)
    BY <1>9 DEF RequestRecorded
<1>10. CASE WaitReturns(c)
    BY <1>10 DEF WaitReturns
<1>11. CASE ApproveReturns(c)
    BY <1>11 DEF ApproveReturns
<1>12. CASE ExecuteCalled(c, OwnApproval(c))
    BY <1>12 DEF ExecuteCalled, OwnApproval
<1>13. CASE ReplayReturns(c)
    BY <1>13 DEF ReplayReturns
<1>14. CASE EffectInvoked(c)
    BY <1>14 DEF EffectInvoked
<1>15. CASE EffectReturns(c)
    BY <1>15 DEF EffectReturns
<1>16. CASE EffectThrows(c)
    BY <1>16 DEF EffectThrows
<1>17. CASE FailureRecorded(c)
    BY <1>17 DEF FailureRecorded
<1>18. CASE ExecuteReturns(c)
    BY <1>18 DEF ExecuteReturns
<1>19. CASE PolicyCalled(c)
    BY <1>19 DEF PolicyCalled
<1>20. CASE SinkDecide(c)
    BY <1>20 DEF SinkDecide, harnessVars
<1>21. CASE GuidewireHandles(c)
    BY <1>21 DEF GuidewireHandles, harnessVars
<1>22. CASE RequestLost(c)
    BY <1>22 DEF RequestLost, harnessVars
<1>23. CASE AuditRejects(c)
    BY <1>23 DEF AuditRejects
<1>24. QED
    BY <1>1, <1>2, <1>3, <1>4, <1>5, <1>6, <1>7, <1>8, <1>9, <1>10, <1>11, <1>12, <1>13,
       <1>14, <1>15, <1>16, <1>17, <1>18, <1>19, <1>20, <1>21, <1>22, <1>23
       DEF CallStep, MethodStep, Environment, OutsideStep

\* A call's trail, rows and answers are its own.
LEMMA OthersKeepTrail ==
    ASSUME IInv, NEW c \in Calls, CallStep(c) \/ Environment(c),
           NEW d \in Calls, d # c, TrailAt(d), Unasked(d), Ended(d)
    PROVE  TrailAt(d)' /\ Unasked(d)' /\ Ended(d)'
<1>1. Same(d)
    BY OthersSame DEF IInv
<1>2. TrailAt(d)' /\ Unasked(d)'
    BY <1>1 DEF Same, TrailAt, Past, Before, Unasked
<1>3. Trail(d)' = Trail(d)
    BY <1>1 DEF Same, Trail
<1>4. TrailOf(d)' = TrailOf(d)
    BY <1>1 DEF Same, TrailOf
<1>5. Ended(d)'
    BY <1>1, <1>3, <1>4 DEF Same, Ended
<1>6. QED
    BY <1>2, <1>5

\* A stop answers "lost" to what runs, and leaves every trail alone.
LEMMA RestartKeepsTrail ==
    ASSUME IInv, TrailInv, NEW p \in Procs, Restart(p)
    PROVE  TrailInv'
<1> SUFFICES ASSUME NEW c \in Calls
             PROVE  TrailAt(c)' /\ Unasked(c)' /\ Ended(c)'
    BY DEF TrailInv
<1>1. TrailAt(c) /\ Unasked(c) /\ Ended(c)
    BY DEF TrailInv
<1>2. /\ audit' = audit /\ approval' = approval /\ passed' = passed
      /\ \/ pc'[c] = "done" /\ answer'[c] = "lost"
         \/ pc'[c] = pc[c] /\ answer'[c] = answer[c]
    BY DEF Restart
<1>3. CASE pc'[c] = "done" /\ answer'[c] = "lost"
    BY <1>3 DEF TrailAt, Unasked, Ended
<1>4. CASE pc'[c] = pc[c] /\ answer'[c] = answer[c]
  <2>1. TrailAt(c)' /\ Unasked(c)'
    BY <1>1, <1>2, <1>4 DEF TrailAt, Past, Before, Unasked, Recorded
  <2>2. Trail(c)' = Trail(c) /\ TrailOf(c)' = TrailOf(c)
    BY <1>2, <1>4 DEF Trail, TrailOf, Recorded
  <2>3. QED
    BY <1>1, <1>4, <2>1, <2>2 DEF Ended
<1>5. QED
    BY <1>2, <1>3, <1>4

LEMMA TrailKept == IInv /\ TrailInv /\ [Next]_vars => TrailInv'
<1> SUFFICES ASSUME IInv, TrailInv, [Next]_vars PROVE TrailInv'
    OBVIOUS
<1>1. ASSUME NEW c \in Calls, CallStep(c) \/ Environment(c)
      PROVE  TrailInv'
    BY <1>1, UnaskedKept, TrailAtKept, EndedKept, OthersKeepTrail DEF TrailInv
<1>2. CASE UNCHANGED vars
  <2> SUFFICES ASSUME NEW c \in Calls
               PROVE  TrailAt(c)' /\ Unasked(c)' /\ Ended(c)'
      BY DEF TrailInv
  <2>1. TrailAt(c)' /\ Unasked(c)'
    BY <1>2 DEF vars, harnessVars, TrailInv, TrailAt, Past, Before, Unasked, Recorded
  <2>2. Trail(c)' = Trail(c) /\ TrailOf(c)' = TrailOf(c)
    BY <1>2 DEF vars, harnessVars, Trail, TrailOf, Recorded
  <2>3. QED
    BY <1>2, <2>1, <2>2 DEF vars, harnessVars, TrailInv, Ended
<1>3. QED
    BY <1>1, <1>2, RestartKeepsTrail DEF Next

\* The trail of a call that neither a failing store nor a stop cut short is the
\* one of its answer, for any number of calls, processes and faults.
THEOREM TrailTells == Spec => []TrailTellsAnswer
<1>1. Init => TrailInv
    BY DEF Init, TrailInv, TrailAt, Past, Unasked, Ended, Recorded, Entry
<1>2. TrailInv => TrailTellsAnswer
    BY DEF TrailInv, Ended, TrailTellsAnswer
<1>3. QED
    BY <1>1, <1>2, TrailKept, Invariance, PTL DEF Spec
----------------------------------------------------------------------------
\* Refinement of AtMostOnceWrite.

Reply == [c \in Writers |-> Told(c)]

LEMMA WritersAreCalls == Writers \subseteq Calls
BY DEF Writers

\* An answer that a caller was told is not changed, and only a step of the
\* call itself gives it one.
LEMMA DoneStays ==
    ASSUME TypeOK, NEW c \in Calls, CallStep(c) \/ Environment(c), pc[c] = "done"
    PROVE  pc'[c] = "done" /\ answer'[c] = answer[c]
<1> USE DEF TypeOK
<1>1. CASE CallStep(c)
    BY <1>1
       DEF CallStep, MethodStep, Events, AuditCommit, PlanRecorded, PolicyEvaluates,
           PolicyReturns, ApproveCalled, SinkRequest, RequestRecorded, WaitReturns,
           ApproveReturns, ExecuteCalled, ReplayReturns, EffectInvoked,
           EffectReturns, EffectThrows, FailureRecorded, ExecuteReturns
<1>2. CASE Environment(c)
    BY <1>2
       DEF Environment, OutsideStep, Events, PolicyCalled, PolicyUnreachable, SinkDecide,
           SinkFails, GuidewireHandles, RequestLost, AuditRejects, harnessVars
<1>3. QED
    BY <1>1, <1>2

\* What a step of c shows the callers when it is Guidewire's.
LEMMA HandleMaps ==
    ASSUME IInv, NEW c \in Calls, GuidewireHandles(c)
    PROVE  Promise!AbsNext \/ UNCHANGED Promise!absVars
<1>1. c \in Writers
    BY DEF IInv, Wire, GuidewireHandles
<1>2. UNCHANGED Reply
    BY DEF GuidewireHandles, harnessVars, Reply, Told
<1>3. CASE UNCHANGED written
    BY <1>2, <1>3 DEF Promise!absVars, Reply
<1>4. CASE written[KeyOf(c)] = NoCall /\ written' = [written EXCEPT ![KeyOf(c)] = c]
    BY <1>1, <1>2, <1>4 DEF Promise!AbsNext, Promise!Write, Reply
<1>5. QED
    BY <1>3, <1>4 DEF GuidewireHandles

\* A step of c that leaves Guidewire alone tells c at most one thing.
LEMMA TellMaps ==
    ASSUME IInv, ExecutedIsTheWrite', ReplayIsBacked', NEW c \in Calls,
           CallStep(c) \/ Environment(c), UNCHANGED written
    PROVE  Promise!AbsNext \/ UNCHANGED Promise!absVars
<1>1. \A d \in Writers : d # c => Told(d)' = Told(d)
    BY OthersSame, WritersAreCalls DEF IInv, Same, Told
<1>2. CASE c \notin Writers \/ Told(c)' = Told(c)
  <2>1. Reply' = Reply
    BY <1>1, <1>2 DEF Reply
  <2>2. QED
    BY <2>1 DEF Promise!absVars, Reply
<1>3. CASE c \in Writers /\ Told(c)' # Told(c)
  <2>1. pc[c] # "done" /\ Told(c) = "none"
    BY <1>3, DoneStays DEF IInv, Told
  <2>2. pc'[c] = "done"
    BY <1>3, <2>1 DEF Told
  <2>3. Reply' = [Reply EXCEPT ![c] = Told(c)']
    BY <1>1, <1>3 DEF Reply
  <2>4. CASE answer'[c] = "executed"
    <3>1. written[KeyOf(c)] = c
      BY <1>3, <2>4 DEF ExecutedIsTheWrite
    <3>2. Promise!TellExecuted(c)
      BY <1>3, <2>1, <2>2, <2>3, <2>4, <3>1 DEF Promise!TellExecuted, Promise!Tell, Reply, Told
    <3>3. QED
      BY <1>3, <3>2 DEF Promise!AbsNext
  <2>5. CASE answer'[c] = "replayed"
    <3>1. PICK d \in Calls : replayOf'[c] = d /\ KeyOf(d) = KeyOf(c) /\ answer'[d] = "executed"
                             /\ written[KeyOf(c)] = d
      BY <1>3, <2>5, WritersAreCalls DEF ReplayIsBacked
    <3>2. d # c /\ d \in Writers
      BY <1>3, <2>5, <3>1, SameKeySameWriter
    <3>3. answer[d] = "executed" /\ pc[d] = "done"
      <4>1. answer[d] = "executed"
        BY <3>1, <3>2, OthersSame DEF IInv, Same
      <4>2. QED
        BY <4>1 DEF IInv, Answer
    <3>4. Promise!TellReplayed(c)
      BY <1>3, <2>1, <2>2, <2>3, <2>5, <3>1, <3>2, <3>3
         DEF Promise!TellReplayed, Promise!Tell, Reply, Told
    <3>5. QED
      BY <1>3, <3>4 DEF Promise!AbsNext
  <2>6. CASE answer'[c] \notin {"executed", "replayed"}
    <3>1. Promise!TellFailed({c})
      BY <1>3, <2>1, <2>2, <2>3, <2>6 DEF Promise!TellFailed, Reply, Told
    <3>2. QED
      BY <1>3, <3>1 DEF Promise!AbsNext
  <2>7. QED
    BY <2>4, <2>5, <2>6
<1>4. QED
    BY <1>2, <1>3

\* A stop fails the calls it cuts short, all at once.
LEMMA RestartMaps ==
    ASSUME IInv, NEW p \in Procs, Restart(p)
    PROVE  Promise!AbsNext
<1> DEFINE S == {c \in Writers : ProcOf[c] = p /\ Running(c)}
<1>1. \A c \in S : Told(c) = "none"
    BY DEF Running, Told
<1>2. \A c \in Writers : Told(c)' = IF c \in S THEN "failed" ELSE Told(c)
    BY WritersAreCalls DEF Restart, Told, Running
<1>3. Promise!TellFailed(S)
    BY <1>1, <1>2 DEF Promise!TellFailed, Restart
<1>4. QED
    BY <1>3 DEF Promise!AbsNext

\* The harness implements the abstract at-most-once write.
THEOREM Refinement == Spec => AtMostOnce
<1>1. Init => Promise!AbsInit
    BY WritersAreCalls DEF Init, Promise!AbsInit, Told
<1>2. IInv /\ ExecutedIsTheWrite' /\ ReplayIsBacked' /\ [Next]_vars => 
        [Promise!AbsNext]_(Promise!absVars)
  <2> SUFFICES ASSUME IInv, ExecutedIsTheWrite', ReplayIsBacked', [Next]_vars
               PROVE  Promise!AbsNext \/ UNCHANGED Promise!absVars
      OBVIOUS
  <2>1. ASSUME NEW c \in Calls, CallStep(c) \/ Environment(c)
        PROVE  Promise!AbsNext \/ UNCHANGED Promise!absVars
    <3>1. CASE GuidewireHandles(c)
      BY <3>1, HandleMaps
    <3>2. CASE UNCHANGED written
      BY <2>1, <3>2, TellMaps
    <3>3. QED
      BY <2>1, <3>1, <3>2 DEF CallStep, MethodStep, Environment, OutsideStep, harnessVars,
             AuditCommit, PlanRecorded, PolicyEvaluates, PolicyUnreachable,
             PolicyReturns, ApproveCalled, SinkRequest, SinkFails, RequestRecorded,
             WaitReturns, ApproveReturns, ExecuteCalled, ReplayReturns, EffectInvoked,
             EffectReturns, EffectThrows, FailureRecorded, ExecuteReturns, PolicyCalled,
             SinkDecide, GuidewireHandles, RequestLost, AuditRejects
  <2>2. CASE UNCHANGED vars
    BY <2>2 DEF vars, harnessVars, Promise!absVars, Told
  <2>3. QED
    BY <2>1, <2>2, RestartMaps DEF Next
<1>3. QED
    BY <1>1, <1>2, Invariance, ExecutedOnce, ReplayBacked, PTL
       DEF Spec, AtMostOnce, Promise!AbsSpec
============================================================================
