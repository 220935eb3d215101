--------------------------- MODULE AtMostOnceWrite ---------------------------
(***************************************************************************)
(* What the harness promises to the callers of its writing tools, with no  *)
(* word about caches, audit entries, processes or the wire: Guidewire      *)
(* executes the request of at most one call per idempotency key; only that *)
(* call may be told "executed"; a call is told "replayed" only when the    *)
(* call that was told "executed" for its key has its write in Guidewire.   *)
(* A failed call says nothing: its write may happen, even afterwards.      *)
(***************************************************************************)
CONSTANTS Calls,    \* the calls of writing tools
          Keys,     \* idempotency keys
          Key(_),   \* the key of a call
          NoCall

VARIABLES writer,   \* writer[k]: the call whose write Guidewire executed
          reply     \* reply[c]: what call c was told

absVars == <<writer, reply>>

AbsInit ==
    /\ writer = [k \in Keys |-> NoCall]
    /\ reply = [c \in Calls |-> "none"]

Write(c) ==
    /\ writer[Key(c)] = NoCall
    /\ writer' = [writer EXCEPT ![Key(c)] = c]
    /\ UNCHANGED reply

Tell(c, r) ==
    /\ reply[c] = "none"
    /\ reply' = [reply EXCEPT ![c] = r]
    /\ UNCHANGED writer

TellExecuted(c) == writer[Key(c)] = c /\ Tell(c, "executed")

TellReplayed(c) ==
    /\ \E d \in Calls : /\ Key(d) = Key(c)
                        /\ writer[Key(c)] = d
                        /\ reply[d] = "executed"
    /\ Tell(c, "replayed")

\* One stop of a process fails all the calls it was running at once.
TellFailed(S) ==
    /\ \A c \in S : reply[c] = "none"
    /\ reply' = [c \in Calls |-> IF c \in S THEN "failed" ELSE reply[c]]
    /\ UNCHANGED writer

AbsNext ==
    \/ \E c \in Calls : Write(c) \/ TellExecuted(c) \/ TellReplayed(c)
    \/ \E S \in SUBSET Calls : TellFailed(S)

AbsSpec == AbsInit /\ [][AbsNext]_absVars
==============================================================================
