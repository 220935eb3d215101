-------------------------- MODULE ApprovalLifecycle --------------------------
(***************************************************************************)
(* What an approval sink promises to the calls that wait for an approval   *)
(* and to the approvers: a request is settled once, by one vote or by      *)
(* expiry; a waiter hears how; of all the votes on a request one at most   *)
(* hears that it counted.  A call that fails is told nothing: a vote may   *)
(* count without its approver hearing so.                                  *)
(***************************************************************************)
CONSTANTS Requests,   \* approval requests
          Votes,      \* decide() calls
          Verdict     \* Verdict[v]: "approved" or "denied"

VARIABLES state,      \* state[r]: "none", "pending" or how r was settled
          votes,      \* votes[r]: the votes that count for r
          told,       \* told[r]: what the call waiting for r was told
          heard       \* heard[v]: what the approver who cast v was told

lifecycleVars == <<state, votes, told, heard>>

Settled(r) == state[r] \notin {"none", "pending"}

LifecycleInit ==
    /\ state = [r \in Requests |-> "none"]
    /\ votes = [r \in Requests |-> {}]
    /\ told = [r \in Requests |-> "none"]
    /\ heard = [v \in Votes |-> "none"]

Open(r) ==
    /\ state[r] = "none"
    /\ state' = [state EXCEPT ![r] = "pending"]
    /\ UNCHANGED <<votes, told, heard>>

SettleByVote(r, v) ==
    /\ state[r] = "pending"
    /\ heard[v] = "none"
    /\ \A q \in Requests : v \notin votes[q]
    /\ state' = [state EXCEPT ![r] = Verdict[v]]
    /\ votes' = [votes EXCEPT ![r] = {v}]
    /\ UNCHANGED <<told, heard>>

Expire(r) ==
    /\ state[r] = "pending"
    /\ state' = [state EXCEPT ![r] = "expired"]
    /\ UNCHANGED <<votes, told, heard>>

TellWaiter(r) ==
    /\ told[r] = "none"
    /\ \E s \in {"error", state[r]} :
         /\ s # "error" => Settled(r)
         /\ told' = [told EXCEPT ![r] = s]
    /\ UNCHANGED <<state, votes, heard>>

TellVoter(v) ==
    /\ heard[v] = "none"
    /\ \/ \E r \in Requests : /\ votes[r] = {v}
                              /\ heard' = [heard EXCEPT ![v] = state[r]]
       \/ /\ \A r \in Requests : v \notin votes[r]
          /\ heard' = [heard EXCEPT ![v] = "illegal"]
       \/ heard' = [heard EXCEPT ![v] = "error"]
    /\ UNCHANGED <<state, votes, told>>

LifecycleNext ==
    \/ \E r \in Requests : Open(r) \/ Expire(r) \/ TellWaiter(r)
    \/ \E r \in Requests, v \in Votes : SettleByVote(r, v)
    \/ \E v \in Votes : TellVoter(v)

LifecycleSpec == LifecycleInit /\ [][LifecycleNext]_lifecycleVars
==============================================================================
