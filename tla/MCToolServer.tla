---------------------------- MODULE MCToolServer ----------------------------
(* Instances of ToolServer for model checking. *)
EXTENDS ToolServer, TLC

CONSTANTS d1, d2, d3, r1, s1, t1, t2, t3

\* Drafts with the same arguments; the first has a trace of its own.
SameKey == [d \in Drafts |-> "k"]
SharedTrace == [x \in ToolCalls |-> IF x = d1 THEN t1 ELSE t2]

\* Every call has a trace of its own.
OwnTrace == [x \in ToolCalls |-> IF x = d1 THEN t1 ELSE IF x = d2 THEN t2 ELSE t3]
============================================================================
