-------------------------- MODULE PgApprovalsProofs --------------------------
(* Proofs about PgApprovals, for all requests, votes, times and timeouts. *)
EXTENDS PgApprovals, TLAPS

LEMMA InitTyped == Init => TypeOK
BY PgAssumption DEF Init, TypeOK, States, Terminal, ReqPCs, VotePCs

LEMMA DeadlineTyped == ASSUME TypeOK, NEW i \in Requests PROVE Deadline(i) \in Nat
BY PgAssumption DEF TypeOK, Deadline, Smaller

\* A waiter whose deadline has come may expire its row.
LEMMA DeadlineIsDue ==
    ASSUME TypeOK, NEW i \in Requests, now >= Deadline(i)
    PROVE  ExpiryIsDue(i)
BY PgAssumption DEF TypeOK, Deadline, Smaller, ExpiryIsDue

LEMMA StepTyped == TypeOK /\ [Next]_vars => TypeOK'
<1> SUFFICES ASSUME TypeOK, [Next]_vars
             PROVE  TypeOK'
    OBVIOUS
<1> USE PgAssumption DEF TypeOK, rowVars, reqVars, voteVars
<1>1. ASSUME NEW i \in Requests, RequestCalled(i)
      PROVE  TypeOK'
    BY <1>1, DeadlineTyped DEF RequestCalled, ReqPCs, States, Terminal
<1>2. ASSUME NEW i \in Requests, InsertCommits(i)
      PROVE  TypeOK'
    BY <1>2, DeadlineTyped DEF InsertCommits, ReqPCs, States, Terminal
<1>3. ASSUME NEW i \in Requests, InsertRefused(i)
      PROVE  TypeOK'
    BY <1>3, DeadlineTyped DEF InsertRefused, ReqPCs, States, Terminal
<1>4. ASSUME NEW i \in Requests, WaitCalled(i)
      PROVE  TypeOK'
    BY <1>4, DeadlineTyped DEF WaitCalled, ReqPCs, States, Terminal
<1>5. ASSUME NEW i \in Requests, WaitFetches(i)
      PROVE  TypeOK'
    BY <1>5, DeadlineTyped DEF WaitFetches, ReqPCs, States, Terminal
<1>6. ASSUME NEW i \in Requests, WaitLooks(i)
      PROVE  TypeOK'
    BY <1>6, DeadlineTyped DEF WaitLooks, Smaller, ReqPCs, States, Terminal
<1>7. ASSUME NEW i \in Requests, WaitWakes(i)
      PROVE  TypeOK'
    BY <1>7, DeadlineTyped DEF WaitWakes, ReqPCs, States, Terminal
<1>8. ASSUME NEW i \in Requests, WaitFlips(i)
      PROVE  TypeOK'
    BY <1>8, DeadlineTyped DEF WaitFlips, FlipPending, ReqPCs, States, Terminal
<1>9. ASSUME NEW i \in Requests, WaitReturns(i)
      PROVE  TypeOK'
    BY <1>9, DeadlineTyped DEF WaitReturns, ReqPCs, States, Terminal
<1>10. ASSUME NEW i \in Requests, RequesterGone(i)
      PROVE  TypeOK'
    BY <1>10, DeadlineTyped DEF RequesterGone, ReqPCs, States, Terminal
<1>11. ASSUME NEW v \in Votes, DecideFlips(v)
      PROVE  TypeOK'
    BY <1>11 DEF DecideFlips, FlipPending, VotePCs, States, Terminal
<1>12. ASSUME NEW v \in Votes, DecideReturns(v)
      PROVE  TypeOK'
    BY <1>12 DEF DecideReturns, VotePCs, States, Terminal
<1>13. ASSUME NEW v \in Votes, DeciderGone(v)
      PROVE  TypeOK'
    BY <1>13 DEF DeciderGone, VotePCs, States, Terminal
<1>14. ASSUME NEW v \in Votes, NEW i \in Requests, DecideCalled(v, i)
      PROVE  TypeOK'
    BY <1>14 DEF DecideCalled, VotePCs
<1>15. CASE Tick
    BY <1>15 DEF Tick
<1>16. CASE UNCHANGED vars
    BY <1>16 DEF vars
<1>17. QED
    BY <1>1, <1>2, <1>3, <1>4, <1>5, <1>6, <1>7, <1>8, <1>9, <1>10, <1>11, <1>12, <1>13, <1>14, <1>15, <1>16
       DEF Next, RequesterStep, DeciderStep

THEOREM TypeCorrect == Spec => []TypeOK
BY InitTyped, StepTyped, PTL DEF Spec

\* The inductive invariant is kept by every step.
LEMMA StepInv == IInv /\ [Next]_vars => IInv'
<1> SUFFICES ASSUME IInv, [Next]_vars
             PROVE  IInv'
    OBVIOUS
<1> USE PgAssumption DEF IInv, rowVars, reqVars, voteVars, Terminal
<1>0. TypeOK'
    BY StepTyped
<1>1. ASSUME NEW i \in Requests, RequestCalled(i)
      PROVE  IInv'
  <2>1. ASSUME NEW j \in Requests
        PROVE  RowOf(j)' /\ SeenOf(j)' /\ ToldOf(j)'
    BY <1>1 DEF RequestCalled, RowOf, SeenOf, ToldOf, Waiting, TypeOK, States
  <2>2. ASSUME NEW j \in Requests
        PROVE  DueOf(j)'
    BY <1>0, <1>1 DEF RequestCalled, DueOf, RowOf, Waiting, ExpiryIsDue, TypeOK
  <2>3. ASSUME NEW j \in Requests
        PROVE  VotesOf(j)'
    BY <1>1 DEF RequestCalled, RowOf, VotesOf, Waiting, TypeOK
  <2>4. ASSUME NEW u \in Votes
        PROVE  CastOf(u)'
    BY <1>1 DEF RequestCalled, CastOf, RowOf, VotesOf, Waiting, TypeOK
  <2>5. QED
    BY <1>0, <2>1, <2>2, <2>3, <2>4
<1>2. ASSUME NEW i \in Requests, InsertCommits(i)
      PROVE  IInv'
  <2>1. ASSUME NEW j \in Requests
        PROVE  RowOf(j)' /\ SeenOf(j)' /\ ToldOf(j)'
    BY <1>2 DEF InsertCommits, RowOf, SeenOf, ToldOf, Waiting, TypeOK, States
  <2>2. ASSUME NEW j \in Requests
        PROVE  DueOf(j)'
    BY <1>0, <1>2 DEF InsertCommits, DueOf, RowOf, Waiting, ExpiryIsDue, TypeOK
  <2>3. ASSUME NEW j \in Requests
        PROVE  VotesOf(j)'
    BY <1>2 DEF InsertCommits, RowOf, VotesOf, Waiting, TypeOK
  <2>4. ASSUME NEW u \in Votes
        PROVE  CastOf(u)'
    BY <1>2 DEF InsertCommits, CastOf, RowOf, VotesOf, Waiting, TypeOK
  <2>5. QED
    BY <1>0, <2>1, <2>2, <2>3, <2>4
<1>3. ASSUME NEW i \in Requests, InsertRefused(i)
      PROVE  IInv'
  <2>1. ASSUME NEW j \in Requests
        PROVE  RowOf(j)' /\ SeenOf(j)' /\ ToldOf(j)'
    BY <1>3 DEF InsertRefused, RowOf, SeenOf, ToldOf, Waiting, TypeOK, States
  <2>2. ASSUME NEW j \in Requests
        PROVE  DueOf(j)'
    BY <1>0, <1>3 DEF InsertRefused, DueOf, RowOf, Waiting, ExpiryIsDue, TypeOK
  <2>3. ASSUME NEW j \in Requests
        PROVE  VotesOf(j)'
    BY <1>3 DEF InsertRefused, RowOf, VotesOf, Waiting, TypeOK
  <2>4. ASSUME NEW u \in Votes
        PROVE  CastOf(u)'
    BY <1>3 DEF InsertRefused, CastOf, RowOf, VotesOf, Waiting, TypeOK
  <2>5. QED
    BY <1>0, <2>1, <2>2, <2>3, <2>4
<1>4. ASSUME NEW i \in Requests, WaitCalled(i)
      PROVE  IInv'
  <2>1. ASSUME NEW j \in Requests
        PROVE  RowOf(j)' /\ SeenOf(j)' /\ ToldOf(j)'
    BY <1>4 DEF WaitCalled, RowOf, SeenOf, ToldOf, Waiting, TypeOK, States
  <2>2. ASSUME NEW j \in Requests
        PROVE  DueOf(j)'
    BY <1>0, <1>4 DEF WaitCalled, DueOf, RowOf, Waiting, ExpiryIsDue, TypeOK
  <2>3. ASSUME NEW j \in Requests
        PROVE  VotesOf(j)'
    BY <1>4 DEF WaitCalled, RowOf, VotesOf, Waiting, TypeOK
  <2>4. ASSUME NEW u \in Votes
        PROVE  CastOf(u)'
    BY <1>4 DEF WaitCalled, CastOf, RowOf, VotesOf, Waiting, TypeOK
  <2>5. QED
    BY <1>0, <2>1, <2>2, <2>3, <2>4
<1>5. ASSUME NEW i \in Requests, WaitFetches(i)
      PROVE  IInv'
  <2>1. ASSUME NEW j \in Requests
        PROVE  RowOf(j)' /\ SeenOf(j)' /\ ToldOf(j)'
    BY <1>5 DEF WaitFetches, RowOf, SeenOf, ToldOf, Waiting, TypeOK, States
  <2>2. ASSUME NEW j \in Requests
        PROVE  DueOf(j)'
    BY <1>0, <1>5 DEF WaitFetches, DueOf, RowOf, Waiting, ExpiryIsDue, TypeOK
  <2>3. ASSUME NEW j \in Requests
        PROVE  VotesOf(j)'
    BY <1>5 DEF WaitFetches, RowOf, VotesOf, Waiting, TypeOK
  <2>4. ASSUME NEW u \in Votes
        PROVE  CastOf(u)'
    BY <1>5 DEF WaitFetches, CastOf, RowOf, VotesOf, Waiting, TypeOK
  <2>5. QED
    BY <1>0, <2>1, <2>2, <2>3, <2>4
<1>6. ASSUME NEW i \in Requests, WaitLooks(i)
      PROVE  IInv'
  <2>1. ASSUME NEW j \in Requests
        PROVE  RowOf(j)' /\ SeenOf(j)' /\ ToldOf(j)'
    BY <1>6 DEF WaitLooks, RowOf, SeenOf, ToldOf, Waiting, TypeOK, States
  <2>2. ASSUME NEW j \in Requests
        PROVE  DueOf(j)'
    BY <1>0, <1>6, DeadlineIsDue DEF WaitLooks, DueOf, RowOf, Waiting, ExpiryIsDue, TypeOK
  <2>3. ASSUME NEW j \in Requests
        PROVE  VotesOf(j)'
    BY <1>6 DEF WaitLooks, RowOf, VotesOf, Waiting, TypeOK
  <2>4. ASSUME NEW u \in Votes
        PROVE  CastOf(u)'
    BY <1>6 DEF WaitLooks, CastOf, RowOf, VotesOf, Waiting, TypeOK
  <2>5. QED
    BY <1>0, <2>1, <2>2, <2>3, <2>4
<1>7. ASSUME NEW i \in Requests, WaitWakes(i)
      PROVE  IInv'
  <2>1. ASSUME NEW j \in Requests
        PROVE  RowOf(j)' /\ SeenOf(j)' /\ ToldOf(j)'
    BY <1>7 DEF WaitWakes, RowOf, SeenOf, ToldOf, Waiting, TypeOK, States
  <2>2. ASSUME NEW j \in Requests
        PROVE  DueOf(j)'
    BY <1>0, <1>7 DEF WaitWakes, DueOf, RowOf, Waiting, ExpiryIsDue, TypeOK
  <2>3. ASSUME NEW j \in Requests
        PROVE  VotesOf(j)'
    BY <1>7 DEF WaitWakes, RowOf, VotesOf, Waiting, TypeOK
  <2>4. ASSUME NEW u \in Votes
        PROVE  CastOf(u)'
    BY <1>7 DEF WaitWakes, CastOf, RowOf, VotesOf, Waiting, TypeOK
  <2>5. QED
    BY <1>0, <2>1, <2>2, <2>3, <2>4
<1>8. ASSUME NEW i \in Requests, WaitFlips(i)
      PROVE  IInv'
  <2>1. ASSUME NEW j \in Requests
        PROVE  RowOf(j)' /\ SeenOf(j)' /\ ToldOf(j)'
    BY <1>8 DEF WaitFlips, FlipPending, RowOf, SeenOf, ToldOf, Waiting, TypeOK, States
  <2>2. ASSUME NEW j \in Requests
        PROVE  DueOf(j)'
    BY <1>0, <1>8 DEF WaitFlips, FlipPending, DueOf, RowOf, Waiting, ExpiryIsDue, TypeOK
  <2>3. ASSUME NEW j \in Requests
        PROVE  VotesOf(j)'
    BY <1>8 DEF WaitFlips, FlipPending, RowOf, VotesOf, Waiting, TypeOK
  <2>4. ASSUME NEW u \in Votes
        PROVE  CastOf(u)'
    BY <1>8 DEF WaitFlips, FlipPending, CastOf, RowOf, VotesOf, Waiting, TypeOK
  <2>5. QED
    BY <1>0, <2>1, <2>2, <2>3, <2>4
<1>9. ASSUME NEW i \in Requests, WaitReturns(i)
      PROVE  IInv'
  <2>1. ASSUME NEW j \in Requests
        PROVE  RowOf(j)' /\ SeenOf(j)' /\ ToldOf(j)'
    BY <1>9 DEF WaitReturns, RowOf, SeenOf, ToldOf, Waiting, TypeOK, States
  <2>2. ASSUME NEW j \in Requests
        PROVE  DueOf(j)'
    BY <1>0, <1>9 DEF WaitReturns, DueOf, RowOf, Waiting, ExpiryIsDue, TypeOK
  <2>3. ASSUME NEW j \in Requests
        PROVE  VotesOf(j)'
    BY <1>9 DEF WaitReturns, RowOf, VotesOf, Waiting, TypeOK
  <2>4. ASSUME NEW u \in Votes
        PROVE  CastOf(u)'
    BY <1>9 DEF WaitReturns, CastOf, RowOf, VotesOf, Waiting, TypeOK
  <2>5. QED
    BY <1>0, <2>1, <2>2, <2>3, <2>4
<1>10. ASSUME NEW i \in Requests, RequesterGone(i)
      PROVE  IInv'
  <2>1. ASSUME NEW j \in Requests
        PROVE  RowOf(j)' /\ SeenOf(j)' /\ ToldOf(j)'
    BY <1>10 DEF RequesterGone, RowOf, SeenOf, ToldOf, Waiting, TypeOK, States
  <2>2. ASSUME NEW j \in Requests
        PROVE  DueOf(j)'
    BY <1>0, <1>10 DEF RequesterGone, DueOf, RowOf, Waiting, ExpiryIsDue, TypeOK
  <2>3. ASSUME NEW j \in Requests
        PROVE  VotesOf(j)'
    BY <1>10 DEF RequesterGone, RowOf, VotesOf, Waiting, TypeOK
  <2>4. ASSUME NEW u \in Votes
        PROVE  CastOf(u)'
    BY <1>10 DEF RequesterGone, CastOf, RowOf, VotesOf, Waiting, TypeOK
  <2>5. QED
    BY <1>0, <2>1, <2>2, <2>3, <2>4
<1>11. ASSUME NEW v \in Votes, DecideFlips(v)
      PROVE  IInv'
  <2>1. ASSUME NEW j \in Requests
        PROVE  RowOf(j)' /\ SeenOf(j)' /\ ToldOf(j)'
    BY <1>11 DEF DecideFlips, FlipPending, RowOf, SeenOf, ToldOf, Waiting, TypeOK, States
  <2>2. ASSUME NEW j \in Requests
        PROVE  DueOf(j)'
    BY <1>0, <1>11 DEF DecideFlips, FlipPending, DueOf, RowOf, Waiting, ExpiryIsDue, TypeOK
  <2>3. ASSUME NEW j \in Requests
        PROVE  VotesOf(j)'
    BY <1>11 DEF DecideFlips, FlipPending, RowOf, VotesOf, Waiting, TypeOK
  <2>4. ASSUME NEW u \in Votes
        PROVE  CastOf(u)'
    BY <1>11 DEF DecideFlips, FlipPending, CastOf, RowOf, VotesOf, Waiting, TypeOK
  <2>5. QED
    BY <1>0, <2>1, <2>2, <2>3, <2>4
<1>12. ASSUME NEW v \in Votes, DecideReturns(v)
      PROVE  IInv'
  <2>1. ASSUME NEW j \in Requests
        PROVE  RowOf(j)' /\ SeenOf(j)' /\ ToldOf(j)'
    BY <1>12 DEF DecideReturns, RowOf, SeenOf, ToldOf, Waiting, TypeOK, States
  <2>2. ASSUME NEW j \in Requests
        PROVE  DueOf(j)'
    BY <1>0, <1>12 DEF DecideReturns, DueOf, RowOf, Waiting, ExpiryIsDue, TypeOK
  <2>3. ASSUME NEW j \in Requests
        PROVE  VotesOf(j)'
    BY <1>12 DEF DecideReturns, RowOf, VotesOf, Waiting, TypeOK
  <2>4. ASSUME NEW u \in Votes
        PROVE  CastOf(u)'
    BY <1>12 DEF DecideReturns, CastOf, RowOf, VotesOf, Waiting, TypeOK
  <2>5. QED
    BY <1>0, <2>1, <2>2, <2>3, <2>4
<1>13. ASSUME NEW v \in Votes, DeciderGone(v)
      PROVE  IInv'
  <2>1. ASSUME NEW j \in Requests
        PROVE  RowOf(j)' /\ SeenOf(j)' /\ ToldOf(j)'
    BY <1>13 DEF DeciderGone, RowOf, SeenOf, ToldOf, Waiting, TypeOK, States
  <2>2. ASSUME NEW j \in Requests
        PROVE  DueOf(j)'
    BY <1>0, <1>13 DEF DeciderGone, DueOf, RowOf, Waiting, ExpiryIsDue, TypeOK
  <2>3. ASSUME NEW j \in Requests
        PROVE  VotesOf(j)'
    BY <1>13 DEF DeciderGone, RowOf, VotesOf, Waiting, TypeOK
  <2>4. ASSUME NEW u \in Votes
        PROVE  CastOf(u)'
    BY <1>13 DEF DeciderGone, CastOf, RowOf, VotesOf, Waiting, TypeOK
  <2>5. QED
    BY <1>0, <2>1, <2>2, <2>3, <2>4
<1>14. ASSUME NEW v \in Votes, NEW i \in Requests, DecideCalled(v, i)
      PROVE  IInv'
  <2>1. ASSUME NEW j \in Requests
        PROVE  RowOf(j)' /\ SeenOf(j)' /\ ToldOf(j)'
    BY <1>14 DEF DecideCalled, RowOf, SeenOf, ToldOf, Waiting, TypeOK, States
  <2>2. ASSUME NEW j \in Requests
        PROVE  DueOf(j)'
    BY <1>0, <1>14 DEF DecideCalled, DueOf, RowOf, Waiting, ExpiryIsDue, TypeOK
  <2>3. ASSUME NEW j \in Requests
        PROVE  VotesOf(j)'
    BY <1>14 DEF DecideCalled, RowOf, VotesOf, Waiting, TypeOK
  <2>4. ASSUME NEW u \in Votes
        PROVE  CastOf(u)'
    BY <1>14 DEF DecideCalled, CastOf, RowOf, VotesOf, Waiting, TypeOK
  <2>5. QED
    BY <1>0, <2>1, <2>2, <2>3, <2>4
<1>15. CASE Tick
  <2>1. ASSUME NEW j \in Requests
        PROVE  RowOf(j)' /\ SeenOf(j)' /\ ToldOf(j)'
    BY <1>15 DEF Tick, RowOf, SeenOf, ToldOf, Waiting, TypeOK, States
  <2>2. ASSUME NEW j \in Requests
        PROVE  DueOf(j)'
    BY <1>0, <1>15 DEF Tick, DueOf, RowOf, Waiting, ExpiryIsDue, TypeOK
  <2>3. ASSUME NEW j \in Requests
        PROVE  VotesOf(j)'
    BY <1>15 DEF Tick, RowOf, VotesOf, Waiting, TypeOK
  <2>4. ASSUME NEW u \in Votes
        PROVE  CastOf(u)'
    BY <1>15 DEF Tick, CastOf, RowOf, VotesOf, Waiting, TypeOK
  <2>5. QED
    BY <1>0, <2>1, <2>2, <2>3, <2>4
<1>16. CASE UNCHANGED vars
    BY <1>0, <1>16 DEF vars, RowOf, SeenOf, ToldOf, DueOf, VotesOf, CastOf, Waiting, ExpiryIsDue
<1>17. QED
    BY <1>1, <1>2, <1>3, <1>4, <1>5, <1>6, <1>7, <1>8, <1>9, <1>10, <1>11, <1>12, <1>13, <1>14, <1>15, <1>16
       DEF Next, RequesterStep, DeciderStep

LEMMA InitInv == Init => IInv
BY InitTyped DEF Init, IInv, RowOf, SeenOf, ToldOf, DueOf, VotesOf, CastOf, Waiting, Terminal

THEOREM Invariance == Spec => []IInv
BY InitInv, StepInv, PTL DEF Spec

\* A waiter is told what its row says, and the row stays so.
THEOREM WaiterTold == Spec => []ToldIsTheRow
<1>1. IInv => ToldIsTheRow
    BY DEF IInv, ToldIsTheRow, ToldOf
<1>2. QED
    BY <1>1, Invariance, PTL

\* No row expires before its time to live or its waiter's timeout is over.
THEOREM ExpiredOnTime == Spec => []NeverExpiredEarly
<1>1. IInv => NeverExpiredEarly
    BY DEF IInv, NeverExpiredEarly, DueOf
<1>2. QED
    BY <1>1, Invariance, PTL

----------------------------------------------------------------------------
\* Votes that count.

\* An outcome is that of one vote, and an approver who hears that its vote
\* counted has the one vote on the row.
Outcome(i) ==
    state[i] \in {"approved", "denied"} =>
        \E v \in Votes : votes[i] = {v} /\ state[i] = Verdict[v]

Heard(v) ==
    heard[v] \in {"approved", "denied"} =>
        /\ vote[v] = "done" /\ voteOn[v] \in Requests
        /\ votes[voteOn[v]] = {v} /\ state[voteOn[v]] = heard[v]

VotesCount == (\A i \in Requests : Outcome(i)) /\ (\A v \in Votes : Heard(v))

\* Rows change from none to pending, and from pending to a settled state.
RowMoves(i) ==
    \/ state'[i] = state[i] /\ votes'[i] = votes[i]
    \/ state[i] = "none" /\ state'[i] = "pending" /\ votes'[i] = votes[i]
    \/ state[i] = "pending" /\ state'[i] = "expired" /\ votes'[i] = votes[i]
    \/ state[i] = "pending" /\ \E v \in Votes : state'[i] = Verdict[v] /\ votes'[i] = {v}

LEMMA EveryRowMoves == ASSUME IInv, [Next]_vars, NEW i \in Requests PROVE RowMoves(i)
<1> USE DEF rowVars, reqVars, voteVars
<1>1. ASSUME NEW k \in Requests, InsertCommits(k)
      PROVE  RowMoves(i)
    BY <1>1 DEF InsertCommits, RowMoves, IInv, RowOf, TypeOK
<1>2. ASSUME NEW k \in Requests, WaitFlips(k)
      PROVE  RowMoves(i)
    BY <1>2 DEF WaitFlips, FlipPending, RowMoves, IInv, TypeOK
<1>3. ASSUME NEW v \in Votes, DecideFlips(v)
      PROVE  RowMoves(i)
    BY <1>3 DEF DecideFlips, FlipPending, RowMoves, IInv, VotesOf, TypeOK
<1>4. CASE UNCHANGED rowVars
    BY <1>4 DEF RowMoves
<1>5. QED
    BY <1>1, <1>2, <1>3, <1>4
       DEF Next, RequesterStep, DeciderStep, RequestCalled, InsertRefused, WaitCalled, WaitFetches,
           WaitLooks, WaitWakes, WaitReturns, RequesterGone, DecideReturns, DeciderGone,
           DecideCalled, Tick, vars

LEMMA OutcomeKept ==
    ASSUME IInv, [Next]_vars, NEW i \in Requests, Outcome(i)
    PROVE  Outcome(i)'
BY EveryRowMoves DEF RowMoves, Outcome

\* What an approver heard stays; it hears of a vote that counted when it won.
LEMMA HeardMoves ==
    ASSUME IInv, [Next]_vars, NEW v \in Votes, heard'[v] \in {"approved", "denied"}
    PROVE  /\ vote'[v] = "done" /\ voteOn'[v] = voteOn[v]
           /\ \/ heard'[v] = heard[v] /\ vote[v] = "done"
              \/ vote[v] = "won" /\ heard'[v] = state[voteOn[v]] /\ UNCHANGED rowVars
<1> USE DEF rowVars, reqVars, voteVars
<1>0. vote[v] # "done" => heard[v] = "none"
    BY DEF IInv, CastOf
<1>1. ASSUME NEW u \in Votes, DecideReturns(u) \/ DeciderGone(u)
      PROVE  /\ vote'[v] = "done" /\ voteOn'[v] = voteOn[v]
             /\ \/ heard'[v] = heard[v] /\ vote[v] = "done"
                \/ vote[v] = "won" /\ heard'[v] = state[voteOn[v]] /\ UNCHANGED rowVars
    BY <1>0, <1>1 DEF DecideReturns, DeciderGone, IInv, TypeOK
<1>2. ASSUME NEW u \in Votes, DecideFlips(u) \/ \E i \in Requests : DecideCalled(u, i)
      PROVE  vote'[v] = "done" /\ voteOn'[v] = voteOn[v] /\ heard'[v] = heard[v] /\ vote[v] = "done"
  <2>1. heard' = heard /\ vote[v] = "done" /\ vote[u] \in {"idle", "update"}
      BY <1>0, <1>2 DEF DecideFlips, DecideCalled
  <2>2. QED
      BY <1>2, <2>1 DEF DecideFlips, DecideCalled, IInv, TypeOK
<1>3. CASE UNCHANGED voteVars
    BY <1>0, <1>3
<1>4. QED
    BY <1>1, <1>2, <1>3
       DEF Next, RequesterStep, DeciderStep, RequestCalled, InsertCommits, InsertRefused, WaitCalled,
           WaitFetches, WaitLooks, WaitWakes, WaitFlips, WaitReturns, RequesterGone, Tick, vars

LEMMA HeardKept ==
    ASSUME IInv, [Next]_vars, NEW v \in Votes, Heard(v)
    PROVE  Heard(v)'
<1> SUFFICES ASSUME heard'[v] \in {"approved", "denied"}
             PROVE  /\ vote'[v] = "done" /\ voteOn'[v] \in Requests
                    /\ votes'[voteOn'[v]] = {v} /\ state'[voteOn'[v]] = heard'[v]
    BY DEF Heard
<1>1. vote'[v] = "done" /\ voteOn'[v] = voteOn[v]
    BY HeardMoves
<1>2. CASE heard'[v] = heard[v] /\ vote[v] = "done"
  <2>1. voteOn[v] \in Requests /\ votes[voteOn[v]] = {v} /\ state[voteOn[v]] = heard[v]
      BY <1>2 DEF Heard
  <2>2. RowMoves(voteOn[v])
      BY <2>1, EveryRowMoves
  <2>3. QED
      BY <1>1, <1>2, <2>1, <2>2 DEF RowMoves
<1>3. CASE vote[v] = "won" /\ heard'[v] = state[voteOn[v]] /\ UNCHANGED rowVars
  <2>1. voteOn[v] \in Requests /\ votes[voteOn[v]] = {v}
      BY <1>3 DEF IInv, TypeOK, CastOf
  <2>2. QED
      BY <1>1, <1>3, <2>1 DEF rowVars
<1>4. QED
    BY <1>2, <1>3, HeardMoves

\* A vote that counts, counts alone, and whoever hears that it counted is told
\* the truth for good.
THEOREM VotesAreCounted == Spec => []VotesCount
<1>1. Init => VotesCount
    BY DEF Init, VotesCount, Outcome, Heard
<1>2. IInv /\ VotesCount /\ [Next]_vars => VotesCount'
    BY OutcomeKept, HeardKept DEF VotesCount
<1>3. QED
    BY <1>1, <1>2, Invariance, PTL DEF Spec

----------------------------------------------------------------------------
\* A row nobody waits for, and the plan it blocks.

LEMMA PendingStays ==
    ASSUME TypeOK, OnePending, [Next]_vars
    PROVE  OnePending'
<1> USE DEF rowVars, reqVars, voteVars
<1>1. ASSUME NEW k \in Requests, InsertCommits(k)
      PROVE  OnePending'
  <2> SUFFICES ASSUME NEW i \in Requests, NEW j \in Requests,
                      state'[i] = "pending", state'[j] = "pending", PlanOf[i] = PlanOf[j]
               PROVE  i = j
      BY DEF OnePending
  <2>1. state' = [state EXCEPT ![k] = "pending"]
      BY <1>1 DEF InsertCommits
  <2>2. \A l \in Requests : PlanOf[l] = PlanOf[k] => state[l] # "pending"
      BY <1>1 DEF InsertCommits, PendingFor
  <2>3. QED
      BY <2>1, <2>2 DEF OnePending, TypeOK
<1>2. ASSUME NEW k \in Requests, WaitFlips(k)
      PROVE  OnePending'
    BY <1>2 DEF WaitFlips, FlipPending, OnePending, TypeOK
<1>3. ASSUME NEW v \in Votes, DecideFlips(v)
      PROVE  OnePending'
  <2>1. Verdict[v] # "pending"
      BY PgAssumption
  <2>2. \A i \in Requests : state'[i] = "pending" => state[i] = "pending"
      BY <1>3, <2>1 DEF DecideFlips, FlipPending, TypeOK
  <2>3. QED
      BY <2>2 DEF OnePending
<1>4. CASE UNCHANGED state
    BY <1>4 DEF OnePending
<1>5. QED
    BY <1>1, <1>2, <1>3, <1>4
       DEF Next, RequesterStep, DeciderStep, RequestCalled, InsertRefused, WaitCalled, WaitFetches,
           WaitLooks, WaitWakes, WaitReturns, RequesterGone, DecideReturns, DeciderGone,
           DecideCalled, Tick, vars

\* At most one row of a plan is pending.
THEOREM OnePendingRow == Spec => []OnePending
<1>1. Init => OnePending
    BY DEF Init, OnePending
<1>2. TypeOK /\ OnePending /\ [Next]_vars => OnePending'
    BY PendingStays
<1>3. QED
    BY <1>1, <1>2, TypeCorrect, PTL DEF Spec

\* What a step may do to a row that nobody waits for.
LEMMA AbandonedStep ==
    ASSUME IInv, [Next]_vars, NEW i \in Requests, Abandoned(i)
    PROVE  state'[i] = "pending" \/ \E v \in Votes : state'[i] = Verdict[v] /\ votes'[i] = {v}
<1> USE DEF rowVars, reqVars, voteVars
<1>1. ASSUME NEW k \in Requests, InsertCommits(k) \/ WaitFlips(k)
      PROVE  state'[i] = "pending"
  <2>1. k # i
      BY <1>1 DEF InsertCommits, WaitFlips, Abandoned
  <2>2. QED
      BY <1>1, <2>1 DEF InsertCommits, WaitFlips, FlipPending, Abandoned, IInv, TypeOK
<1>2. ASSUME NEW v \in Votes, DecideFlips(v)
      PROVE  state'[i] = "pending" \/ (state'[i] = Verdict[v] /\ votes'[i] = {v})
  <2>1. votes[i] = {}
      BY DEF IInv, VotesOf, Abandoned
  <2>2. CASE voteOn[v] = i
      BY <1>2, <2>1, <2>2 DEF DecideFlips, FlipPending, Abandoned, IInv, TypeOK
  <2>3. CASE voteOn[v] # i
      BY <1>2, <2>3 DEF DecideFlips, FlipPending, Abandoned, IInv, TypeOK
  <2>4. QED
      BY <2>2, <2>3
<1>3. CASE UNCHANGED state
    BY <1>3 DEF Abandoned
<1>4. QED
    BY <1>1, <1>2, <1>3
       DEF Next, RequesterStep, DeciderStep, RequestCalled, InsertRefused, WaitCalled, WaitFetches,
           WaitLooks, WaitWakes, WaitReturns, RequesterGone, DecideReturns, DeciderGone,
           DecideCalled, Tick, vars

\* While it is pending, no step gives its plan another pending row; the step
\* that settles it does nothing else.
LEMMA AbandonedBlocks ==
    ASSUME TypeOK, OnePending, [Next]_vars, NEW i \in Requests, Abandoned(i),
           NEW j \in Requests \ {i}, PlanOf[j] = PlanOf[i]
    PROVE  state'[j] # "pending"
<1> USE DEF rowVars, reqVars, voteVars
<1>0. state[j] # "pending"
    BY DEF OnePending, Abandoned
<1>1. ASSUME NEW k \in Requests, InsertCommits(k)
      PROVE  state'[j] # "pending"
  <2>1. PlanOf[k] # PlanOf[i]
      BY <1>1 DEF InsertCommits, PendingFor, Abandoned
  <2>2. k # j
      BY <2>1
  <2>3. QED
      BY <1>0, <1>1, <2>2 DEF InsertCommits, TypeOK
<1>2. ASSUME NEW k \in Requests, WaitFlips(k)
      PROVE  state'[j] # "pending"
    BY <1>0, <1>2 DEF WaitFlips, FlipPending, TypeOK
<1>3. ASSUME NEW v \in Votes, DecideFlips(v)
      PROVE  state'[j] # "pending"
  <2>1. Verdict[v] # "pending"
      BY PgAssumption
  <2>2. QED
      BY <1>0, <1>3, <2>1 DEF DecideFlips, FlipPending, TypeOK
<1>4. CASE UNCHANGED state
    BY <1>0, <1>4
<1>5. QED
    BY <1>1, <1>2, <1>3, <1>4
       DEF Next, RequesterStep, DeciderStep, RequestCalled, InsertRefused, WaitCalled, WaitFetches,
           WaitLooks, WaitWakes, WaitReturns, RequesterGone, DecideReturns, DeciderGone,
           DecideCalled, Tick, vars

\* A row whose requester is gone is settled by a vote alone, and blocks every
\* other request of its plan until then.
THEOREM AbandonedStays == Spec => AbandonedNeedsAVote
<1> DEFINE Keeps == \A i \in Requests : Abandoned(i) =>
         /\ \/ state'[i] = "pending"
            \/ \E v \in Votes : state'[i] = Verdict[v] /\ votes'[i] = {v}
         /\ \A j \in Requests \ {i} : PlanOf[j] = PlanOf[i] => state'[j] # "pending"
<1>1. IInv /\ OnePending /\ [Next]_vars => Keeps
    BY AbandonedStep, AbandonedBlocks DEF IInv
<1>2. IInv /\ OnePending /\ [Next]_vars => [Keeps]_vars
    BY <1>1
<1>3. QED
    BY <1>2, Invariance, OnePendingRow, PTL DEF Spec, AbandonedNeedsAVote

----------------------------------------------------------------------------
\* The steps of the sink are those of the abstract life of an approval, or
\* leave its variables alone.
LEMMA StepMaps ==
    ASSUME IInv, [Next]_vars
    PROVE  Promise!LifecycleNext \/ UNCHANGED Promise!lifecycleVars
<1> USE DEF rowVars, reqVars, voteVars, Promise!lifecycleVars
<1>1. ASSUME NEW i \in Requests, InsertCommits(i)
      PROVE  Promise!Open(i)
    BY <1>1 DEF IInv, RowOf, InsertCommits, Promise!Open
<1>2. ASSUME NEW i \in Requests, WaitFlips(i)
      PROVE  Promise!Expire(i) \/ UNCHANGED Promise!lifecycleVars
    BY <1>2 DEF IInv, TypeOK, VotesOf, WaitFlips, FlipPending, Promise!Expire
<1>3. ASSUME NEW i \in Requests, WaitLooks(i)
      PROVE  Promise!TellWaiter(i) \/ UNCHANGED Promise!lifecycleVars
    BY <1>3 DEF IInv, SeenOf, ToldOf, WaitLooks, Terminal, Promise!TellWaiter, Promise!Settled
<1>4. ASSUME NEW i \in Requests, WaitReturns(i)
      PROVE  Promise!TellWaiter(i)
    BY <1>4 DEF IInv, RowOf, SeenOf, ToldOf, WaitReturns, Terminal,
                Promise!TellWaiter, Promise!Settled
<1>5. ASSUME NEW i \in Requests, InsertRefused(i) \/ RequesterGone(i)
      PROVE  Promise!TellWaiter(i)
    BY <1>5 DEF IInv, ToldOf, InsertRefused, RequesterGone, Promise!TellWaiter
<1>6. ASSUME NEW v \in Votes, DecideFlips(v)
      PROVE  Promise!LifecycleNext \/ UNCHANGED Promise!lifecycleVars
  <2>1. CASE state[voteOn[v]] = "pending"
    <3>1. voteOn[v] \in Requests
      BY <1>6 DEF IInv, TypeOK, DecideFlips
    <3>2. votes[voteOn[v]] = {}
      BY <2>1, <3>1 DEF IInv, VotesOf
    <3>3. votes' = [votes EXCEPT ![voteOn[v]] = {v}]
      BY <1>6, <2>1, <3>2 DEF DecideFlips, FlipPending
    <3>4. Promise!SettleByVote(voteOn[v], v)
      BY <1>6, <2>1, <3>3 DEF IInv, CastOf, DecideFlips, FlipPending, Promise!SettleByVote
    <3>5. QED
      BY <3>1, <3>4 DEF Promise!LifecycleNext
  <2>2. CASE state[voteOn[v]] # "pending"
    BY <1>6, <2>2 DEF DecideFlips, FlipPending
  <2>3. QED
    BY <2>1, <2>2
<1>7. ASSUME NEW v \in Votes, DecideReturns(v)
      PROVE  Promise!TellVoter(v)
    BY <1>7 DEF IInv, TypeOK, CastOf, DecideReturns, Promise!TellVoter
<1>8. ASSUME NEW v \in Votes, DeciderGone(v)
      PROVE  Promise!TellVoter(v)
    BY <1>8 DEF IInv, CastOf, DeciderGone, Promise!TellVoter
<1>9. ASSUME NEW i \in Requests,
             RequestCalled(i) \/ WaitCalled(i) \/ WaitFetches(i) \/ WaitWakes(i)
      PROVE  UNCHANGED Promise!lifecycleVars
    BY <1>9 DEF RequestCalled, WaitCalled, WaitFetches, WaitWakes
<1>10. CASE Tick \/ UNCHANGED vars \/ \E v \in Votes, i \in Requests : DecideCalled(v, i)
    BY <1>10 DEF Tick, vars, DecideCalled
<1>11. QED
    BY <1>1, <1>2, <1>3, <1>4, <1>5, <1>6, <1>7, <1>8, <1>9, <1>10
       DEF Next, RequesterStep, DeciderStep, Promise!LifecycleNext

\* The sink implements the abstract life of an approval.
THEOREM Refinement == Spec => Lifecycle
<1>1. Init => Promise!LifecycleInit
    BY DEF Init, Promise!LifecycleInit
<1>2. IInv /\ [Next]_vars => [Promise!LifecycleNext]_(Promise!lifecycleVars)
    BY StepMaps
<1>3. QED
    BY <1>1, <1>2, Invariance, PTL DEF Spec, Lifecycle, Promise!LifecycleSpec

==============================================================================
