---------------------------- MODULE AppendOnlyLog ----------------------------
(***************************************************************************)
(* What the audit store promises to those who append: a log per tenant     *)
(* that only grows, at its end, by one entry per append; an append that    *)
(* returns gives the place of its entry.  An append that throws may have   *)
(* its entry in the log, or get it there later, or never.                  *)
(***************************************************************************)
EXTENDS Naturals

CONSTANTS Appends,    \* append() calls
          TenantOf,   \* TenantOf[w]: the tenant whose log w extends
          Tenants

VARIABLES length,     \* length[t]: the number of entries in t's log
          placed,     \* [tenant, seq, call]: which call's entry is where
          reply       \* reply[w]: what w said, and the place it gave

Silent == [said |-> "nothing", seq |-> 0]
Threw == [said |-> "threw", seq |-> 0]
Returned(seq) == [said |-> "returned", seq |-> seq]

logVars == <<length, placed, reply>>

LogInit ==
    /\ length = [t \in Tenants |-> 0]
    /\ placed = {}
    /\ reply = [w \in Appends |-> Silent]

Place(w, seq) == [tenant |-> TenantOf[w], seq |-> seq, call |-> w]

Extend(w) ==
    /\ \A e \in placed : e.call # w
    /\ reply[w] \in {Silent, Threw}
    /\ length' = [length EXCEPT ![TenantOf[w]] = @ + 1]
    /\ placed' = placed \cup {Place(w, length[TenantOf[w]] + 1)}
    /\ UNCHANGED reply

Return(w) ==
    /\ reply[w] = Silent
    /\ \E e \in placed : /\ e.call = w
                         /\ reply' = [reply EXCEPT ![w] = Returned(e.seq)]
    /\ UNCHANGED <<length, placed>>

Throw(w) ==
    /\ reply[w] = Silent
    /\ reply' = [reply EXCEPT ![w] = Threw]
    /\ UNCHANGED <<length, placed>>

LogNext == \E w \in Appends : Extend(w) \/ Return(w) \/ Throw(w)

LogSpec == LogInit /\ [][LogNext]_logVars
==============================================================================
