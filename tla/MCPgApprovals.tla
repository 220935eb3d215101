--------------------------- MODULE MCPgApprovals ---------------------------
(* Instances of PgApprovals for model checking. *)
EXTENDS PgApprovals, TLC

CONSTANTS r1, r2, v1, v2, plan

\* A request and a re-request for one plan; the second does not wait for a vote.
OnePlan == [i \in Requests |-> plan]
NoWait == [i \in Requests |-> IF i = r2 THEN 0 ELSE NoTimeout]

\* Two approvers who disagree.
Disagree == [v \in Votes |-> IF v = v1 THEN "approved" ELSE "denied"]
============================================================================
