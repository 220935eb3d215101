----------------------------- MODULE MCHarnessPg -----------------------------
(* An instance of HarnessPg for model checking. *)
EXTENDS HarnessPg

CONSTANTS c1, c2, p1, p2, v1, v2

\* A write and its retry, of one plan, in two processes.
SamePlan ==
    [c \in Calls |->
        [toolName |-> "bind", toolVersion |-> "v1", tenantId |-> "t1", args |-> "a",
         actorId |-> "u1", mode |-> "approved_execute", summary |-> "s", traceId |-> "t"]]
OwnProcess == [c \in Calls |-> IF c = c1 THEN p1 ELSE p2]

\* The rules may have changed when the retry asks.
RulesMayChange ==
    [c \in Calls |-> IF c = c1 THEN {"require_approval"} ELSE {"allow", "require_approval"}]

\* Two approvers who disagree.
Disagree == [v \in Votes |-> IF v = v1 THEN "approved" ELSE "denied"]
==============================================================================
