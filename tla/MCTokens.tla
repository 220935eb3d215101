------------------------------ MODULE MCTokens ------------------------------
(* An instance of Tokens for model checking. *)
EXTENDS Tokens, TLC

CONSTANTS c1, c2, u1
TwinCalls == Permutations(Calls)
============================================================================
