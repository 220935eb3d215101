----------------------------- MODULE TokensProofs -----------------------------
(***************************************************************************)
(* Proofs about module Tokens: with a margin of two message delays, no     *)
(* request arrives with an expired token, and a revocation refuses no      *)
(* request sent Window + Delay after it, for every number of callers and   *)
(* every lifetime, window and delay.                                       *)
(***************************************************************************)
EXTENDS Tokens, TLAPS

\* A token cached and the requests sent with it are in time from the start.
LEMMA InitInv == Init => IInv
BY TokensAssumption DEF Init, IInv, TypeOK, CacheInTime, CallInTime, NeverUnauthorised,
   OutageEnds, PCs, InFlight, Callers

\* A caller keeps its part of the invariant when it and the cache stay.
LEMMA OthersStay ==
    ASSUME IInv, NEW c \in Callers, NEW d \in Callers, d # c,
           now' = now,
           NEW from \in PCs, NEW to \in PCs, Goes(c, from, to),
           since' = since \/ Sends(c) \/ since' = [since EXCEPT ![c] = 0],
           \E t : token' = token \/ token' = [token EXCEPT ![c] = t]
    PROVE  pc'[d] = pc[d] /\ CallInTime(d)'
<1>1. pc'[d] = pc[d] /\ since'[d] = since[d] /\ token'[d] = token[d]
  BY DEF IInv, TypeOK, Goes, Sends
<1> QED BY <1>1 DEF IInv, CallInTime

\* A request that leaves with a token sent before its expiry is in time.
LEMMA CallWithCachedInv ==
    ASSUME IInv, NEW c \in Callers, CallWithCached(c)
    PROVE  IInv'
<1> USE TokensAssumption DEF CallWithCached, Goes, Sends
<1>1. /\ cached # NoToken /\ cached \in [issued : Nat, expiresAt : Nat]
      /\ cached.expiresAt > now /\ cached.issued <= now
  BY DEF IInv, TypeOK, Fresh
<1>2. TypeOK'
  BY <1>1 DEF IInv, TypeOK, PCs, InFlight
<1>3. CacheInTime' /\ NeverUnauthorised' /\ OutageEnds'
  BY DEF IInv, TypeOK, CacheInTime, NeverUnauthorised, OutageEnds, Callers
<1>4. CallInTime(c)'
  <2>1. pc'[c] = "sent" /\ since'[c] = now /\ token'[c] = cached.issued
    BY DEF IInv, TypeOK
  <2>2. now + Delay < cached.issued + Lifetime /\ now < cached.issued + Window + Delay
    BY <1>1 DEF IInv, CacheInTime, TypeOK
  <2> QED BY <2>1, <2>2 DEF IInv, TypeOK, CallInTime, InFlight
<1>5. ASSUME NEW d \in Callers, d # c PROVE CallInTime(d)'
  BY <1>5, OthersStay, "idle" \in PCs, "sent" \in PCs DEF PCs, InFlight
<1> QED BY <1>2, <1>3, <1>4, <1>5 DEF IInv

\* A fetch changes neither the cache nor any request.
LEMMA FetchInv ==
    ASSUME IInv, NEW c \in Callers, FetchCalled(c) \/ Grants(c) \/ FetchFails(c)
    PROVE  IInv'
<1> USE TokensAssumption DEF Goes, Sends
<1>1. TypeOK'
  BY DEF FetchCalled, Grants, FetchFails, IInv, TypeOK, PCs, InFlight
<1>2. CacheInTime' /\ NeverUnauthorised' /\ OutageEnds'
  BY DEF FetchCalled, Grants, FetchFails, IInv, TypeOK, CacheInTime, NeverUnauthorised,
         OutageEnds, Callers
<1>3. CallInTime(c)'
  BY DEF FetchCalled, Grants, FetchFails, IInv, TypeOK, CallInTime, InFlight
<1>4. ASSUME NEW d \in Callers, d # c PROVE CallInTime(d)'
  BY <1>4, OthersStay DEF FetchCalled, Grants, FetchFails, PCs, InFlight
<1> QED BY <1>1, <1>2, <1>3, <1>4 DEF IInv

\* The margin covers the way of the reply, for the cache, and of the request.
LEMMA FetchReturnsInv ==
    ASSUME IInv, NEW c \in Callers, FetchReturns(c)
    PROVE  IInv'
<1> USE TokensAssumption DEF FetchReturns, Goes, Sends
<1>1. token[c] \in 0..now /\ now <= token[c] + Delay
  BY DEF IInv, TypeOK, CallInTime, InFlight
<1>2. TypeOK'
  BY <1>1 DEF IInv, TypeOK, PCs, InFlight
<1>3. CacheInTime' /\ NeverUnauthorised' /\ OutageEnds'
  BY <1>1 DEF IInv, TypeOK, CacheInTime, NeverUnauthorised, OutageEnds, Callers
<1>4. CallInTime(c)'
  <2>1. token'[c] = token[c] /\ since'[c] = now /\ now' = now
    BY DEF IInv, TypeOK
  <2>2. pc'[c] \in {"sent", "refreshed"}
    BY DEF IInv, TypeOK
  <2>3. now + Delay < token[c] + Lifetime /\ now < token[c] + Window + Delay
    BY <1>1 DEF IInv, TypeOK
  <2> QED BY <2>1, <2>2, <2>3 DEF IInv, TypeOK, CallInTime, InFlight
<1>5. ASSUME NEW d \in Callers, d # c PROVE CallInTime(d)'
  BY <1>5, OthersStay DEF PCs, InFlight
<1> QED BY <1>2, <1>3, <1>4, <1>5 DEF IInv

\* A request that arrives within Delay is accepted, unless its token is revoked;
\* then it was sent before the cache forgot that token.
LEMMA RepliesInv ==
    ASSUME IInv, NEW c \in Callers, GuidewireReplies(c) \/ CallsAgain(c)
    PROVE  IInv'
<1> USE TokensAssumption DEF Goes, Accepts
<1>1. TypeOK'
  BY DEF GuidewireReplies, CallsAgain, IInv, TypeOK, PCs, InFlight
<1>2. CacheInTime'
  BY DEF GuidewireReplies, CallsAgain, IInv, CacheInTime
<1>3. NeverUnauthorised' /\ OutageEnds'
  <2>1. CASE GuidewireReplies(c)
    <3>1. /\ now < token[c] + Lifetime /\ since[c] < token[c] + Window + Delay
          /\ token[c] \in Nat /\ since[c] \in Nat /\ revokedAt \in Nat
      BY <2>1 DEF GuidewireReplies, IInv, TypeOK, CallInTime, InFlight
    <3>2. pc'[c] = "unauthorised" => token[c] < revokedAt /\ since[c] < revokedAt + Window + Delay
      BY <2>1, <3>1 DEF GuidewireReplies, IInv, TypeOK
    <3> QED BY <2>1, <3>2 DEF GuidewireReplies, IInv, TypeOK, NeverUnauthorised, OutageEnds, Callers
  <2>2. CASE CallsAgain(c)
    BY <2>2 DEF CallsAgain, IInv, TypeOK, NeverUnauthorised, OutageEnds, Callers
  <2> QED BY <2>1, <2>2
<1>4. CallInTime(c)'
  BY DEF GuidewireReplies, CallsAgain, IInv, TypeOK, CallInTime, InFlight
<1>5. ASSUME NEW d \in Callers, d # c PROVE CallInTime(d)'
  BY <1>5, OthersStay DEF GuidewireReplies, CallsAgain, PCs, InFlight
<1> QED BY <1>1, <1>2, <1>3, <1>4, <1>5 DEF IInv

\* A revocation refuses nothing by itself, and it is the first: no request was
\* refused before it.
LEMMA RevokesInv == IInv /\ Revokes => IInv'
<1> SUFFICES ASSUME IInv, Revokes PROVE IInv'
  OBVIOUS
<1>1. \A c \in Calls : pc[c] # "unauthorised"
  BY TokensAssumption DEF Revokes, IInv, TypeOK, NeverUnauthorised, Callers
<1> QED BY <1>1, TokensAssumption
        DEF Revokes, IInv, TypeOK, CacheInTime, CallInTime, NeverUnauthorised, OutageEnds

\* Time passes only while every message is in time.
LEMMA TickInv == IInv /\ Tick => IInv'
BY TokensAssumption DEF Tick, IInv, TypeOK, CacheInTime, CallInTime, NeverUnauthorised, OutageEnds

\* The inductive invariant: tokens are cached in time, requests hold tokens
\* that outlive their way, and none was refused but for a revocation.
THEOREM Invariance == Spec => []IInv
<1>1. IInv /\ [Next]_vars => IInv'
  <2> SUFFICES ASSUME IInv, [Next]_vars PROVE IInv'
    OBVIOUS
  <2>1. CASE UNCHANGED vars
    BY <2>1 DEF vars, IInv, TypeOK, CacheInTime, CallInTime, NeverUnauthorised, OutageEnds, Accepts
  <2>2. ASSUME NEW c \in Callers,
               CallWithCached(c) \/ FetchCalled(c) \/ Grants(c) \/ FetchFails(c)
               \/ FetchReturns(c) \/ GuidewireReplies(c) \/ CallsAgain(c)
        PROVE  IInv'
    BY <2>2, CallWithCachedInv, FetchInv, FetchReturnsInv, RepliesInv
  <2>3. CASE Revokes \/ Tick
    BY <2>3, RevokesInv, TickInv
  <2> QED BY <2>1, <2>2, <2>3 DEF Next
<1> QED BY InitInv, <1>1, PTL DEF Spec

\* Types are respected, and no token comes from the future.
THEOREM TypeCorrect == Spec => []TypeOK
<1>1. IInv => TypeOK
  BY DEF IInv
<1> QED BY Invariance, <1>1, PTL

\* No request reaches Guidewire with an expired token ("never see a mid-write
\* 401"), for every lifetime whose last part covers two message delays.
THEOREM NoMidWriteRefusal == Spec => []NeverUnauthorised
<1>1. IInv => NeverUnauthorised
  BY DEF IInv
<1> QED BY Invariance, <1>1, PTL

\* Whoever is refused after a revocation sent its request within Window + Delay
\* of it, whatever is cached and however grants overlap.
THEOREM OutageIsBounded == Spec => []OutageEnds
<1>1. IInv => OutageEnds
  BY DEF IInv
<1> QED BY Invariance, <1>1, PTL
==============================================================================
