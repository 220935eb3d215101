----------------------------- MODULE MCPgAudit -----------------------------
(* Instances of PgAudit for model checking. *)
EXTENDS PgAudit, TLC

CONSTANTS w1, w2, w3, w4, t1, t2

\* Three appends to one chain and one to another.
OneElse == [w \in Appends |-> IF w = w4 THEN t2 ELSE t1]

\* One of the entries has a value of two lines.
Value(text) == [text |-> text, more |-> <<>>]
Inputs == [w \in Appends |->
    IF w = w2
    THEN [entryId |-> Value(w), planId |-> Value("p"), traceId |-> Value("t"),
          blobRef |-> [text |-> "b", more |-> <<<<"oauthScope", "admin">>>>]]
    ELSE [entryId |-> Value(w), planId |-> Value("p"), traceId |-> Value("t")]]
============================================================================
