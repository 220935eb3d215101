--------------------------- MODULE MCHarnessWiring ---------------------------
(* An instance of HarnessWiring for model checking. *)
EXTENDS HarnessWiring

CONSTANTS c1, c2, p1

\* Two attempts at one write, in one process.
SameWrite ==
    [c \in Calls |->
        [toolName |-> "bind", toolVersion |-> "v1", tenantId |-> "t1", args |-> "a",
         actorId |-> "u1", mode |-> "approved_execute", summary |-> "s", traceId |-> c]]
OneProcess == [c \in Calls |-> p1]
AnyOutcome == [c \in Calls |-> Outcomes]

\* A rule for the tool, and one that would match it in another tenant only.
Ours == [toolName |-> "bind", mode |-> "approved_execute"]
Theirs == [toolName |-> "bind", tenantId |-> "t2"]

AllWirings ==
    {Interface, InMemory({Ours}, FALSE), InMemory({Theirs}, TRUE)}
==============================================================================
