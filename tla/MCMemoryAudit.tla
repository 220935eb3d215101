---------------------------- MODULE MCMemoryAudit ----------------------------
(* An instance of MemoryAudit for model checking. *)
EXTENDS MemoryAudit

Value(text) == [text |-> text, more |-> <<>>]
Scope == <<"oauthScope", "admin">>

Bare == [entryId |-> Value("e"), planId |-> Value("p"), traceId |-> Value("t")]
Scoped == [entryId |-> Value("e"), planId |-> Value("p"), traceId |-> Value("t"),
           blobRef |-> Value("b"), oauthScope |-> Value("admin")]
\* Its blobRef holds the line of the scope, and it has none.
Folded == [entryId |-> Value("e"), planId |-> Value("p"), traceId |-> Value("t"),
           blobRef |-> [text |-> "b", more |-> <<Scope>>]]

SomeBodies == {Bare, Scoped, Folded}
SomeLines == {Scope}
============================================================================
