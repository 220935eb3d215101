----------------------------- MODULE MCHarness -----------------------------
(* Instances of Harness for model checking. *)
EXTENDS Harness

CONSTANTS c1, c2, p1

\* Two attempts at one write in one process.
SameWrite ==
    [c \in Calls |->
        [toolName |-> "bind", toolVersion |-> "v1", tenantId |-> "t1", args |-> "a",
         actorId |-> "u1", mode |-> "approved_execute", summary |-> "s", traceId |-> c]]
OneProcess == [c \in Calls |-> p1]

AnyOutcome == [c \in Calls |-> Outcomes]
NeedsApproval == [c \in Calls |-> {"require_approval"}]
============================================================================
