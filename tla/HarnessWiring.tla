---------------------------- MODULE HarnessWiring ----------------------------
(***************************************************************************)
(* The harness together with the policy engine and the approval sink it is *)
(* created with (createHarness in packages/harness/src/harness.ts):        *)
(* either behind their interfaces, as module Harness sees them, or those   *)
(* in memory, which the PolicyCenter server wires.  There, what wait()     *)
(* returned is a snapshot: `approval` is what the call holds, `row` what   *)
(* the Map says.                                                           *)
(***************************************************************************)
EXTENDS Harness, MemoryPolicy

CONSTANTS
    Wirings,  \* the wirings createHarness() may be called with
    Ttl, Timeout, MaxTime  \* of MemoryApprovals

VARIABLES
    wiring,  \* chosen once
    now, row

\* An interface wiring, or one in memory with its options.
Interface == [kind |-> "interface"]
InMemory(rules, denyMode) == [kind |-> "memory", rules |-> rules, denyMode |-> denyMode]

Sink == INSTANCE MemoryApprovals WITH Requests <- Calls

wiringVars == <<vars, wiring, now, row>>

Evaluate(c, w) == evaluate(InputOf[c], w.rules)

ASSUME SinkAssumption ==
    Ttl \in Nat \ {0} /\ Timeout \in Nat \ {0} /\ MaxTime \in Nat

ASSUME WiringAssumption ==
    \A w \in Wirings \ {Interface} :
        /\ w.kind = "memory" /\ w.denyMode \in BOOLEAN
        /\ \A c \in Calls : Evaluate(c, w) \in PolicyOutcomes[c]

WiringTypeOK == TypeOK /\ wiring \in Wirings /\ Sink!SinkTypeOK

WiringInit == Init /\ wiring \in Wirings /\ Sink!SinkInit

----------------------------------------------------------------------------
Memory == wiring # Interface

\* The engine in memory never fails, and decides by its rules.
EngineDecides(c) ==
    /\ PolicyEvaluates(c)
    /\ decision'[c] = Evaluate(c, wiring)
    /\ UNCHANGED <<now, row>>

RowRequested(c) == SinkRequest(c) /\ Sink!Request(c)

\* wait() resolves to the row as it is when it returns.
RowAwaited(c) ==
    /\ WaitReturns(c)
    /\ Sink!Wait(c, wiring.denyMode)
    /\ approval' = [approval EXCEPT ![c] = row'[c].state]

MemoryStep(c) == Memory /\ (EngineDecides(c) \/ RowRequested(c) \/ RowAwaited(c))

InterfaceStep(c) ==
    /\ ~Memory
    /\ PolicyEvaluates(c) \/ SinkRequest(c) \/ WaitReturns(c)
    /\ UNCHANGED <<now, row>>

InterfaceEnvironment(c) ==
    /\ ~Memory
    /\ PolicyUnreachable(c) \/ SinkDecide(c) \/ SinkFails(c)
    /\ UNCHANGED <<now, row>>

WiredCallStep(c) ==
    /\ \/ MethodStep(c) /\ UNCHANGED <<now, row>>
       \/ MemoryStep(c)
       \/ InterfaceStep(c)
    /\ UNCHANGED wiring

\* Votes come at any time, on any row; the harness does not hear of them.
RowDecided(c) == Memory /\ Sink!Decide(c) /\ UNCHANGED vars
TimePasses == Memory /\ Sink!Tick /\ UNCHANGED vars

\* The rows in memory are gone with the process that made them.
ProcessRestarts(p) ==
    /\ Restart(p)
    /\ Sink!Forget({c \in Calls : ProcOf[c] = p})

WiringNext ==
    \/ \E c \in Calls :
         \/ WiredCallStep(c)
         \/ /\ \/ OutsideStep(c) /\ UNCHANGED <<now, row>>
               \/ InterfaceEnvironment(c)
               \/ RowDecided(c)
            /\ UNCHANGED wiring
    \/ /\ TimePasses \/ \E p \in Procs : ProcessRestarts(p)
       /\ UNCHANGED wiring

WiringSpec == WiringInit /\ [][WiringNext]_wiringVars

\* As FairSpec of Harness; voters and the clock owe nothing.
FairWiringSpec == WiringSpec /\ \A c \in Calls : WF_wiringVars(WiredCallStep(c))

----------------------------------------------------------------------------
\* Properties.

RowTellsVotes == Sink!RowTellsVotes

\* Told of an expiry, a caller's row had run out: with a ttl no longer than the
\* harness waits (both are 24 h by default, in-memory.ts and requestApproval)
\* nobody is told APPROVAL_TIMEOUT before the ttl has passed, whatever happens
\* between request() and wait().
ExpiredForCause ==
    Memory /\ Ttl <= Timeout =>
        \A c \in Calls : approval[c] = "expired" /\ row[c] # Sink!NoRow =>
            row[c].expiresAt <= now

\* With what is wired in memory no write leaves for Guidewire unless every
\* predicate of some allow-rule holds of its plan and its own row was voted
\* for, by the sink or by somebody, in this life of the process ("blocked by
\* default", the header of policy/in-memory.ts; `wait` of the sink).
WritesAreRuled ==
    Memory => \A c \in Calls : wire[c] # "none" =>
        /\ \E rule \in wiring.rules : \A p \in DOMAIN rule : rule[p] = InputOf[c][p]
        /\ row[c] # Sink!NoRow => "approved" \in row[c].votes
==============================================================================
