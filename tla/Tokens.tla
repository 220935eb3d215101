-------------------------------- MODULE Tokens --------------------------------
(***************************************************************************)
(* The token cache of packages/auth/src/client.ts and the requests of      *)
(* packages/client-sdk/src/client.ts that use it.                          *)
(*                                                                         *)
(* A request to Guidewire takes the cached token while it is fresh, and    *)
(* fetches one when it is not.  Fetches are not serialized: each call that *)
(* misses fetches for itself, and the reply that comes last stays cached.  *)
(* Time is a tick counter; every message arrives within Delay ticks of     *)
(* being sent, the time the server's process takes to turn to it included. *)
(* An operator may revoke the client's tokens, which the cache never hears *)
(* of: the 401 of a request reaches its caller and nothing else.           *)
(***************************************************************************)
EXTENDS Integers

CONSTANTS
    Calls,       \* requests to Guidewire
    Refreshers,  \* callers of refreshToken()
    Lifetime,    \* how long Guidewire accepts a token
    Window,      \* Lifetime * REFRESH_FRACTION
    Delay,       \* bound on how long a message is on its way
    MaxTime,     \* bound on the clock
    NoToken      \* stands for `undefined`

ASSUME TokensAssumption ==
    /\ Calls \cap Refreshers = {}
    /\ Lifetime \in Nat /\ Window \in Nat \ {0} /\ Delay \in Nat /\ MaxTime \in Nat
    /\ Window + 2 * Delay <= Lifetime  \* the margin covers two messages
    /\ NoToken \notin Nat

Callers == Calls \cup Refreshers

VARIABLES
    now,     \* the clock
    cached,  \* the TokenBundle kept: [issued, expiresAt]
    pc,      \* what each caller awaits
    since,   \* when the message it awaits was sent
    token,   \* when the token it was given was issued
    revokedAt  \* tokens issued before this are revoked; 0 if none are

vars == <<now, cached, pc, since, token, revokedAt>>

\* "fetching": the grant is requested; "granted": it is on its way back;
\* "sent": the request to Guidewire is; "accepted", "unauthorised": its reply;
\* "refreshed", "failed": refreshToken() returned, or a fetch threw.
InFlight == {"fetching", "granted", "sent"}
PCs == InFlight \cup {"idle", "accepted", "unauthorised", "refreshed", "failed"}

TypeOK ==
    /\ now \in Nat
    /\ cached \in [issued : Nat, expiresAt : Nat] \cup {NoToken}
    /\ pc \in [Callers -> PCs]
    /\ since \in [Callers -> Nat]
    /\ token \in [Callers -> Nat \cup {NoToken}]
    /\ revokedAt \in 0..now
    /\ cached # NoToken => cached.issued <= now
    /\ \A c \in Callers :
         /\ since[c] <= now
         /\ pc[c] \in {"granted", "sent", "unauthorised"} => token[c] \in 0..now

Init ==
    /\ now = 0
    /\ cached = NoToken
    /\ pc = [c \in Callers |-> "idle"]
    /\ since = [c \in Callers |-> 0]
    /\ token = [c \in Callers |-> NoToken]
    /\ revokedAt = 0

----------------------------------------------------------------------------
Goes(c, from, to) ==
    /\ pc[c] = from
    /\ pc' = [pc EXCEPT ![c] = to]

Sends(c) == since' = [since EXCEPT ![c] = now]

Fresh == cached # NoToken /\ cached.expiresAt > now

\* Defect (for OutageEnds): every use keeps the token for another Window.
CallWithCachedSliding(c) ==
    /\ c \in Calls
    /\ Fresh
    /\ Goes(c, "idle", "sent")
    /\ Sends(c)
    /\ token' = [token EXCEPT ![c] = cached.issued]
    /\ cached' = [cached EXCEPT !.expiresAt = now + Window]
    /\ UNCHANGED <<now, revokedAt>>

\* get, post and put: the cached token goes into the headers.
CallWithCached(c) ==
    /\ c \in Calls
    /\ Fresh
    /\ Goes(c, "idle", "sent")
    /\ Sends(c)
    /\ token' = [token EXCEPT ![c] = cached.issued]
    /\ UNCHANGED <<now, cached, revokedAt>>

\* getToken misses, or refreshToken is called: fetchToken.
FetchCalled(c) ==
    /\ c \in Calls => ~Fresh
    /\ Goes(c, "idle", "fetching")
    /\ Sends(c)
    /\ UNCHANGED <<now, cached, token, revokedAt>>

\* The token endpoint issues a token.
Grants(c) ==
    /\ Goes(c, "fetching", "granted")
    /\ Sends(c)
    /\ token' = [token EXCEPT ![c] = now]
    /\ UNCHANGED <<now, cached, revokedAt>>

\* The endpoint, or the way to it or back, fails: what was cached stays.
FetchFails(c) ==
    /\ Goes(c, "fetching", "failed") \/ Goes(c, "granted", "failed")
    /\ UNCHANGED <<now, cached, since, token, revokedAt>>

\* Defect (for NeverUnauthorised): the token is kept for all of its lifetime.
FetchReturnsLate(c) ==
    /\ Goes(c, "granted", IF c \in Calls THEN "sent" ELSE "refreshed")
    /\ Sends(c)
    /\ cached' = [issued |-> token[c], expiresAt |-> now + Lifetime]
    /\ UNCHANGED <<now, token, revokedAt>>

\* The reply arrives: it is kept for Window from now, whatever is cached, and a
\* request goes out with it.
FetchReturns(c) ==
    /\ Goes(c, "granted", IF c \in Calls THEN "sent" ELSE "refreshed")
    /\ Sends(c)
    /\ cached' = [issued |-> token[c], expiresAt |-> now + Window]
    /\ UNCHANGED <<now, token, revokedAt>>

\* Guidewire accepts a token during its lifetime, unless it was revoked.
Accepts(t) == now < t + Lifetime /\ t >= revokedAt

\* A 401 makes the call throw: the cached token stays, and nothing tries again.
GuidewireReplies(c) ==
    /\ pc[c] = "sent"
    /\ Goes(c, "sent", IF Accepts(token[c]) THEN "accepted" ELSE "unauthorised")
    /\ UNCHANGED <<now, cached, since, token, revokedAt>>

\* The caller calls again.
CallsAgain(c) ==
    /\ \E from \in PCs \ (InFlight \cup {"idle"}) : Goes(c, from, "idle")
    /\ since' = [since EXCEPT ![c] = 0]
    /\ token' = [token EXCEPT ![c] = NoToken]
    /\ UNCHANGED <<now, cached, revokedAt>>

\* An operator revokes the tokens issued so far (the bound: once).
Revokes ==
    /\ revokedAt = 0
    /\ revokedAt' = now
    /\ UNCHANGED <<now, cached, pc, since, token>>

\* Time passes; no message is on its way for longer than Delay.
Tick ==
    /\ now < MaxTime
    /\ \A c \in Callers : pc[c] \in InFlight => now < since[c] + Delay
    /\ now' = now + 1
    /\ UNCHANGED <<cached, pc, since, token, revokedAt>>

Next ==
    \/ \E c \in Callers :
         \/ CallWithCached(c) \/ FetchCalled(c) \/ Grants(c) \/ FetchFails(c)
         \/ FetchReturns(c) \/ GuidewireReplies(c) \/ CallsAgain(c)
    \/ Revokes \/ Tick

Spec == Init /\ [][Next]_vars

----------------------------------------------------------------------------
\* Properties.

\* A request in flight never reaches Guidewire with an expired token, however
\* fetches overlap and whichever reply is cached last: "in-flight
\* approved_execute writes never see a mid-write 401" (REFRESH_FRACTION), as
\* long as what is left of the lifetime covers the way of two messages.  Only a
\* revocation makes a token unacceptable.
NeverUnauthorised ==
    \A c \in Calls : pc[c] = "unauthorised" => token[c] < revokedAt

\* An outage after a revocation is bounded, although a 401 neither drops nor
\* refreshes the cached token (parseJson throws, getToken looks at the clock
\* only): no request sent Window + Delay after the revocation is refused, even
\* if a grant older than the revocation was cached after it.
OutageEnds ==
    \A c \in Calls : pc[c] = "unauthorised" => since[c] < revokedAt + Window + Delay

\* Whatever is cached, a request sent before it expires arrives in time; and it
\* is kept for Window from the arrival of the grant.
CacheInTime ==
    cached # NoToken => /\ cached.expiresAt + Delay <= cached.issued + Lifetime
                        /\ cached.expiresAt <= cached.issued + Window + Delay

\* Messages are on their way for Delay at most, and a request holds a token that
\* outlives it and is not older than the cache allows.
CallInTime(c) ==
    /\ pc[c] \in InFlight => now <= since[c] + Delay
    /\ pc[c] = "granted" => token[c] = since[c]
    /\ pc[c] = "sent" => /\ since[c] + Delay < token[c] + Lifetime
                         /\ since[c] < token[c] + Window + Delay

IInv ==
    /\ TypeOK
    /\ CacheInTime
    /\ \A c \in Callers : CallInTime(c)
    /\ NeverUnauthorised
    /\ OutageEnds
==============================================================================
