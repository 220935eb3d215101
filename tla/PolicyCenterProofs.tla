------------------------- MODULE PolicyCenterProofs -------------------------
(***************************************************************************)
(* Theorems about the PolicyCenter server: what its start may end in, and  *)
(* what its calls find.                                                    *)
(***************************************************************************)
EXTENDS PolicyCenter, ToolServerProofs

----------------------------------------------------------------------------
\* The options.

LEMMA MaxIsThere ==
    ASSUME NEW n \in Nat, NEW S \in SUBSET (1..n), S # {}
    PROVE  Max(S) \in S
<1> DEFINE T == {n - i : i \in S}
<1>1. T \subseteq Nat /\ T # {}
  <2>1. \A i \in S : n - i \in Nat
    OBVIOUS
  <2>2. QED
    BY <2>1
<1>2. PICK x \in T : \A y \in T : <<y, x>> \notin OpToRel(<, Nat)
  BY <1>1, NatLessThanWellFounded, WFMin, Zenon
<1>3. PICK i \in S : x = n - i
  OBVIOUS
<1>4. \A j \in S : i >= j
  <2>1. \A y \in T : ~(y < x)
    BY <1>1, <1>2 DEF OpToRel
  <2>2. \A j \in S : ~(n - j < n - i)
    BY <1>3, <2>1
  <2>3. QED
    BY <2>2
<1>5. QED
  BY <1>4 DEF Max

\* LastOf gives the value of one of the options it looks for.
LEMMA LastIsAnOption ==
    ASSUME NEW l \in Launches, NEW names, NEW otherwise,
           NEW k \in DOMAIN l.argv, l.argv[k].name \in names
    PROVE  \E i \in DOMAIN l.argv :
             l.argv[i].name \in names /\ LastOf(names, l, otherwise) = l.argv[i].value
<1> DEFINE own == {i \in DOMAIN l.argv : l.argv[i].name \in names}
<1>1. Len(l.argv) \in Nat /\ DOMAIN l.argv = 1..Len(l.argv)
  BY BootAssumption
<1>2. own \in SUBSET (1..Len(l.argv)) /\ own # {}
  BY <1>1
<1>3. Max(own) \in own
  BY <1>1, <1>2, MaxIsThere
<1>4. LastOf(names, l, otherwise) = l.argv[Max(own)].value
  BY <1>2 DEF LastOf
<1>5. QED
  BY <1>3, <1>4

\* Options that parse give a profile exactly when one of them is --profile.
LEMMA ProfileIsGiven ==
    ASSUME NEW l \in Launches, ~BadArgv(l)
    PROVE  /\ (\E i \in DOMAIN l.argv : l.argv[i].name = "--profile") =>
                ProfilePath(l) # NoValue
           /\ ProfilePath(l) # NoValue => ProfilePath(l) \in DOMAIN Contents
<1>1. CASE \E i \in DOMAIN l.argv : l.argv[i].name = "--profile"
  <2>1. PICK i \in DOMAIN l.argv :
          l.argv[i].name \in {"--profile"} /\ ProfilePath(l) = l.argv[i].value
    BY <1>1, LastIsAnOption, Zenon DEF ProfilePath
  <2>2. l.argv[i].value # NoValue
    BY <2>1 DEF BadArgv, BadOption
  <2>3. QED
    BY <2>1, <2>2, BootAssumption
<1>2. CASE ~\E i \in DOMAIN l.argv : l.argv[i].name = "--profile"
  BY <1>2 DEF ProfilePath, LastOf
<1>3. QED
  BY <1>1, <1>2

----------------------------------------------------------------------------
\* The start.

\* What a refusal by file or by the gate says, with what is held.
RefusedByFile ==
    /\ failure.file \in Files
    /\ held[failure.file] = Flawed
    /\ \A f \in Files \ {failure.file} : held[f] # Flawed
    /\ IF failure.file = Manifest THEN \A f \in OtherFiles : held[f] = Unread
                                  ELSE Valid(Manifest)

RefusedByGate ==
    /\ \A f \in Files : Valid(f)
    /\ failure = GateFailure(Offending(held))
    /\ Offending(held) # {}

BootInv ==
    /\ launch \in Launches
    /\ stage \in {"started", "manifest", "files", "built", "serving", "exited"}
    /\ profile \in {"none", "default", "loaded"}
    /\ held = [f \in Files |-> held[f]]
    /\ \A f \in Files : held[f] = Unread \/ held[f] \in Contents[ProfilePath(launch)][f]
    /\ stage \in {"manifest", "files"} => ProfilePath(launch) # NoValue /\ ~BadArgv(launch)
    /\ stage \in {"started", "manifest"} => \A f \in Files : held[f] = Unread
    /\ stage = "files" => Valid(Manifest) /\ \A f \in Files : held[f] # Flawed
    /\ stage \in {"started", "manifest", "files"} => profile = "none"
    /\ profile = "default" => ProfilePath(launch) = NoValue /\ ~BadArgv(launch)
    /\ profile = "loaded" =>
         /\ ProfilePath(launch) # NoValue /\ ~BadArgv(launch)
         /\ \A f \in Files : Valid(f)
         /\ Offending(held) = {}
    /\ stage # "exited" => failure = NoFailure
    /\ stage = "exited" =>
         \/ failure \in {Failure("args"), Failure("port")}
         \/ \E f \in Files : failure = FileFailure(f) /\ RefusedByFile
         \/ RefusedByGate /\ ProfilePath(launch) # NoValue /\ ~BadArgv(launch)

LEMMA BootStarts == BootInit => BootInv
  BY BootAssumption DEF BootInit, BootInv, NoFailure

\* What a read that settles leaves in `held`.
LEMMA ReadIsHeld ==
    ASSUME BootInv, NEW f \in Files, NEW valid \in BOOLEAN, ReadGives(f, valid),
           UNCHANGED launch
    PROVE  /\ held' = [g \in Files |-> held'[g]]
           /\ held'[f] \in Contents[ProfilePath(launch)][f] /\ held'[f] # Unread
           /\ valid <=> held'[f] # Flawed
           /\ \A g \in Files \ {f} : held'[g] = held[g]
           /\ \A g \in Files : held'[g] = Unread \/ held'[g] \in Contents[ProfilePath(launch)][g]
           /\ stage \in {"manifest", "files"} /\ ProfilePath(launch) \in DOMAIN Contents
           /\ \A g \in Files \ {f} : held[g] # Flawed
           /\ IF f = Manifest THEN \A g \in OtherFiles : held[g] = Unread ELSE Valid(Manifest)
<1>1. stage \in {"manifest", "files"} /\ ProfilePath(launch) \in DOMAIN Contents
  BY ProfileIsGiven DEF BootInv, ReadGives, Awaited
<1>2. PICK content \in Contents[ProfilePath(launch)][f] :
        /\ valid <=> content # Flawed
        /\ held' = [held EXCEPT ![f] = content]
  BY DEF ReadGives
<1>3. content # Unread
  BY <1>1, BootAssumption
<1>4. held' = [g \in Files |-> IF g = f THEN content ELSE held[g]]
  BY <1>2 DEF BootInv
<1>5. /\ \A g \in Files \ {f} : held[g] # Flawed
      /\ IF f = Manifest THEN \A g \in OtherFiles : held[g] = Unread ELSE Valid(Manifest)
  BY <1>1, BootAssumption
     DEF BootInv, ReadGives, Awaited, Valid, Files, OtherFiles, Manifest
<1>6. QED
  BY <1>1, <1>2, <1>3, <1>4, <1>5 DEF BootInv

LEMMA ReadFailsKeeps == ASSUME BootInv, NEW f \in Files, ReadFails(f) PROVE BootInv'
<1>1. ReadGives(f, FALSE) /\ UNCHANGED <<launch, profile>>
      /\ stage' = "exited" /\ failure' = FileFailure(f)
  BY DEF ReadFails, Exits
<1>2. RefusedByFile'
  <2>1. failure'.file = f
    BY <1>1 DEF FileFailure
  <2>2. IF f = Manifest THEN \A g \in OtherFiles : held'[g] = Unread
                       ELSE held'[Manifest] \notin {Unread, Flawed}
    BY <1>1, ReadIsHeld DEF Valid, Files, OtherFiles, Manifest
  <2>3. QED
    BY <1>1, <2>1, <2>2, ReadIsHeld DEF RefusedByFile, Valid
<1>3. profile = "none"
  BY <1>1, ReadIsHeld DEF BootInv
<1>4. QED
  BY <1>1, <1>2, <1>3, ReadIsHeld DEF BootInv

LEMMA ReadSettlesKeeps == ASSUME BootInv, NEW f \in Files, ReadSettles(f) PROVE BootInv'
<1>1. ReadGives(f, TRUE) /\ UNCHANGED launch
  BY DEF ReadSettles
<1>2. \A g \in Files : held'[g] # Flawed
  BY <1>1, ReadIsHeld
<1>3. profile = "none" /\ failure = NoFailure /\ ProfilePath(launch) # NoValue /\ ~BadArgv(launch)
  BY <1>1, ReadIsHeld DEF BootInv
<1>4. CASE \E g \in Files : held'[g] = Unread
  <2>1. stage' = "files" /\ UNCHANGED <<profile, failure>>
    BY <1>4 DEF ReadSettles
  <2>2. Valid(Manifest)'
    BY <1>1, <1>2, ReadIsHeld DEF Valid, Files, OtherFiles, Manifest
  <2>3. QED
    BY <1>1, <1>2, <1>3, <2>1, <2>2, ReadIsHeld DEF BootInv
<1>5. CASE \A g \in Files : held'[g] # Unread
  <2>1. \A g \in Files : Valid(g)'
    BY <1>2, <1>5 DEF Valid
  <2>2. GateDecides
    BY <1>5 DEF ReadSettles
  <2>3. CASE Offending(held') = {}
    <3>1. stage' = "built" /\ profile' = "loaded" /\ UNCHANGED failure
      BY <2>2, <2>3 DEF GateDecides
    <3>2. QED
      BY <1>1, <1>3, <2>1, <2>3, <3>1, ReadIsHeld DEF BootInv
  <2>4. CASE Offending(held') # {}
    <3>1. stage' = "exited" /\ failure' = GateFailure(Offending(held')) /\ UNCHANGED profile
      BY <2>2, <2>4 DEF GateDecides, Exits
    <3>2. RefusedByGate'
      BY <2>1, <2>4, <3>1 DEF RefusedByGate
    <3>3. QED
      BY <1>1, <1>3, <3>1, <3>2, ReadIsHeld DEF BootInv
  <2>5. QED
    BY <2>3, <2>4
<1>6. QED
  BY <1>4, <1>5

LEMMA BootStepKeeps == BootInv /\ [BootNext]_bootVars => BootInv'
<1> SUFFICES ASSUME BootInv, [BootNext]_bootVars PROVE BootInv'
  OBVIOUS
<1>1. CASE UNCHANGED bootVars
  BY <1>1 DEF bootVars, BootInv, Valid, RefusedByFile, RefusedByGate
<1>2. CASE ArgsThrow
  BY <1>2 DEF ArgsThrow, Exits, BootInv
<1>3. CASE TakesDefault
  BY <1>3 DEF TakesDefault, BootInv
<1>4. CASE LoadCalled
  BY <1>4 DEF LoadCalled, BootInv
<1>5. CASE Connects
  BY <1>5 DEF Connects, Exits, BootInv, Valid
<1>6. ASSUME NEW f \in Files, ReadFails(f) \/ ReadSettles(f) PROVE BootInv'
  BY <1>6, ReadFailsKeeps, ReadSettlesKeeps
<1>7. QED
  BY <1>1, <1>2, <1>3, <1>4, <1>5, <1>6 DEF BootNext

\* The inductive invariant of the start.
THEOREM BootInvariance == BootSpec => []BootInv
  BY BootStarts, BootStepKeeps, PTL DEF BootSpec

LEMMA RefusalsAreExplained == BootInv => RefusalIsExplained
<1> SUFFICES ASSUME BootInv PROVE RefusalIsExplained
  OBVIOUS
<1>1. ASSUME failure.by = "file" PROVE RefusedByFile
  <2>1. stage = "exited"
    BY <1>1 DEF BootInv, NoFailure
  <2>2. QED
    BY <1>1, <2>1 DEF BootInv, Failure, FileFailure, GateFailure, RefusedByGate
<1>2. ASSUME failure.by = "BAA_GATE_MISSING"
      PROVE  RefusedByGate /\ ProfilePath(launch) \in DOMAIN Contents
  <2>1. stage = "exited"
    BY <1>2 DEF BootInv, NoFailure
  <2>2. RefusedByGate /\ ProfilePath(launch) # NoValue /\ ~BadArgv(launch)
    BY <1>2, <2>1 DEF BootInv, Failure, FileFailure
  <2>3. QED
    BY <2>2, ProfileIsGiven DEF BootInv
<1>3. ASSUME RefusedByGate, ProfilePath(launch) \in DOMAIN Contents
      PROVE  /\ \A f \in Files : Valid(f)
             /\ held["pii-policy.yaml"] = FALSE
             /\ failure.lobs = {c \in DOMAIN held["lob.yaml"] : held["lob.yaml"][c] = "health"}
             /\ failure.lobs # {}
  <2>1. held["pii-policy.yaml"] \in BOOLEAN
    BY <1>3, BootAssumption DEF RefusedByGate, BootInv, Valid, Files, OtherFiles
  <2>2. ~held["pii-policy.yaml"]
    BY <1>3, <2>1, Zenon DEF RefusedByGate, Offending, offendingLobs
  <2>3. Offending(held) = {c \in DOMAIN held["lob.yaml"] : LobClass(held["lob.yaml"][c]) = "health"}
    BY <2>2, Zenon DEF Offending, offendingLobs
  <2>4. \A c : LobClass(c) = "health" <=> c = "health"
    BY DEF LobClass
  <2>5. failure.lobs = Offending(held)
    BY <1>3 DEF RefusedByGate, GateFailure
  <2>6. QED
    BY <1>3, <2>1, <2>2, <2>3, <2>4, <2>5 DEF RefusedByGate
<1>4. QED
  BY <1>1, <1>2, <1>3 DEF RefusalIsExplained, RefusedByFile

LEMMA TheGateHolds == BootInv => GateHolds
<1> SUFFICES ASSUME BootInv, profile = "loaded", NEW c \in DOMAIN held["lob.yaml"],
                    held["lob.yaml"][c] = "health"
             PROVE  held["pii-policy.yaml"]
  BY DEF GateHolds
<1>1. Offending(held) = {}
  BY DEF BootInv
<1>2. LobClass(held["lob.yaml"][c]) = "health"
  BY DEF LobClass
<1>3. QED
  BY <1>1, <1>2, Zenon DEF Offending, offendingLobs

LEMMA NothingDegrades == BootInv => NeverDegrades
  BY ProfileIsGiven DEF BootInv, NeverDegrades

LEMMA BootTypes == BootInv => BootTypeOK
  BY DEF BootInv, BootTypeOK, NoFailure, Failure, FileFailure, GateFailure, RefusedByGate

----------------------------------------------------------------------------
\* The server from its launch on.

\* A call past its client.get has had a token and a base URL.
PastGet == {"policy", "decided", "replay", "effect", "recorded", "executed", "value"}
GotInv ==
    /\ at \in [ToolCalls -> Ats]
    /\ \A x \in ToolCalls : at[x] \in PastGet => Ready(launch)

\* A call that moves past its client.get got a reply from it.
LEMMA OnlyAReplyGoesOn ==
    ASSUME TypeInv, [ServerNext]_vars, NEW x \in ToolCalls, at'[x] \in PastGet
    PROVE  at[x] \in PastGet \/ Got(x)
<1> USE DEF Moves, TypeInv, PastGet
<1> Drafts \subseteq ToolCalls
  BY DEF ToolCalls
<1>1. ASSUME NEW y \in ToolCalls,
             ArgsRefused(y) \/ NotImplemented(y) \/ ToolCalled(y) \/ ReadCompletes(y)
               \/ HandlerThrows(y)
      PROVE  at[x] \in PastGet \/ Got(x)
  BY <1>1 DEF ArgsRefused, NotImplemented, ToolCalled, ReadCompletes, HandlerThrows, Got
<1>2. ASSUME NEW d \in Drafts,
             DraftComposed(d) \/ PolicyAllows(d) \/ ExecuteReplays(d) \/ ExecuteStarts(d)
      PROVE  at[x] \in PastGet \/ Got(x)
  BY <1>2 DEF DraftComposed, PolicyAllows, ExecuteReplays, ExecuteStarts, Got
<1>3. ASSUME NEW d \in Drafts, EffectReturns(d) \/ ExecuteReturns(d) \/ DraftReturns(d)
      PROVE  at[x] \in PastGet \/ Got(x)
  BY <1>3 DEF EffectReturns, ExecuteReturns, DraftReturns
<1>4. ASSUME (\E t \in Traces : Collects(t)) \/ Verifies \/ BuildReturns \/ UNCHANGED vars
      PROVE  at[x] \in PastGet \/ Got(x)
  BY <1>4 DEF Collects, Verifies, BuildReturns, vars
<1>5. QED
  BY <1>1, <1>2, <1>3, <1>4 DEF ServerNext

LEMMA BothStart == PolicyCenterInit => BootInit /\ ServerInit
  BY DEF PolicyCenterInit

LEMMA BothStep == [PolicyCenterNext]_pcVars => [BootNext]_bootVars /\ [ServerNext]_vars
  BY DEF PolicyCenterNext, Boots, Serves, pcVars

\* The server is the start of module Boot and the server of module ToolServer.
THEOREM StartsAsBoot == PolicyCenterSpec => BootSpec
  BY BothStart, BothStep, PTL DEF PolicyCenterSpec, BootSpec

THEOREM ServesAsToolServer == PolicyCenterSpec => ServerSpec
  BY BothStart, BothStep, PTL DEF PolicyCenterSpec, ServerSpec

\* A server that was given a profile never runs on the default one.
THEOREM NoDegrading == PolicyCenterSpec => []NeverDegrades
  BY StartsAsBoot, BootInvariance, NothingDegrades, PTL

\* No profile is in force with a health LOB and no BAA.
THEOREM Gated == PolicyCenterSpec => []GateHolds
  BY StartsAsBoot, BootInvariance, TheGateHolds, PTL

\* A refusal names its one cause.
THEOREM Explained == PolicyCenterSpec => []RefusalIsExplained
  BY StartsAsBoot, BootInvariance, RefusalsAreExplained, PTL

\* Every variable of the start and of the server has its type.
THEOREM PolicyCenterTypes == PolicyCenterSpec => []PolicyCenterTypeOK
<1>1. BootInv /\ ServerInv => PolicyCenterTypeOK
  BY BootTypes, TypesAreKept DEF PolicyCenterTypeOK
<1>2. QED
  BY <1>1, StartsAsBoot, ServesAsToolServer, BootInvariance, ServerInvariance, PTL

\* What is shown of the server holds of it from its launch on.
THEOREM ServerKeeps ==
    PolicyCenterSpec =>
        [](BundleIsCovered /\ ExecutionIsShown /\ ReplayIsShown /\ TrailTellsTool)
<1>1. ServerInv => BundleIsCovered /\ ExecutionIsShown /\ ReplayIsShown /\ TrailTellsTool
  BY BundlesAreCovered, ExecutionsAreShown, ReplaysAreShown, TrailsTell
<1>2. QED
  BY <1>1, ServesAsToolServer, ServerInvariance, PTL

\* Nothing is answered by a server that was not told where Guidewire is.
THEOREM NothingIsMocked == PolicyCenterSpec => []NoMocks
<1>1. PolicyCenterInit => GotInv
  BY DEF PolicyCenterInit, ServerInit, GotInv, PastGet, Ats
<1>2. ServerInv /\ ServerInv' /\ GotInv /\ [PolicyCenterNext]_pcVars => GotInv'
  <2> SUFFICES ASSUME ServerInv, ServerInv', GotInv, [PolicyCenterNext]_pcVars PROVE GotInv'
    OBVIOUS
  <2>1. at' \in [ToolCalls -> Ats]
    BY DEF ServerInv, TypeInv
  <2>2. launch' = launch
    <3>1. ASSUME NEW f \in Files, ReadFails(f) \/ ReadSettles(f) PROVE launch' = launch
      BY <3>1 DEF ReadFails, ReadSettles
    <3>2. QED
      BY <3>1 DEF PolicyCenterNext, Boots, Serves, BootNext, pcVars, bootVars,
                  ArgsThrow, TakesDefault, LoadCalled, Connects
  <2>3. ASSUME NEW x \in ToolCalls, at'[x] \in PastGet PROVE Ready(launch)
    <3>1. at[x] \in PastGet \/ Got(x)
      BY <2>3, BothStep, OnlyAReplyGoesOn DEF ServerInv
    <3>2. CASE at' = at
      BY <2>3, <3>2 DEF GotInv
    <3>3. CASE Serves
      BY <3>1, <3>3 DEF GotInv, Serves
    <3>4. QED
      BY <3>2, <3>3 DEF PolicyCenterNext, Boots, pcVars, vars
  <2>4. QED
    BY <2>1, <2>2, <2>3 DEF GotInv, Ready, Authenticated
<1>3. GotInv => NoMocks
  BY DEF GotInv, NoMocks, Ready, Authenticated, Settings, PastGet
<1>4. PolicyCenterSpec => []ServerInv
  BY ServesAsToolServer, ServerInvariance, PTL
<1>5. QED
  BY <1>1, <1>2, <1>3, <1>4, PTL DEF PolicyCenterSpec

----------------------------------------------------------------------------
\* What the read tools show.

Aliased(p, tool, f) == Mapping!fieldAlias(p, tool.scope, f)
PairsFor(p, tool) == Mapping!AliasesOf(p, Mapping!SCOPE_TO_ENTITY[tool.scope])

\* Field f, and no other that the tool asks for, is surfaced under k.
Surfaces(p, tool, f, k) ==
    /\ f \in Range(tool.fields) /\ Aliased(p, tool, f) = k
    /\ \A g \in Range(tool.fields) : Aliased(p, tool, g) = k => g = f

\* A sequence, and one whose terms differ.
Listed(values) == Len(values) \in Nat /\ DOMAIN values = 1..Len(values)
DistinctTerms(pairs) ==
    Listed(pairs) /\ \A i, j \in DOMAIN pairs : pairs[i].term = pairs[j].term => i = j

Usable(p) ==
    /\ p.kind \in {"default", "loaded"}
    /\ p.kind = "loaded" =>
         /\ \A entity : DistinctTerms(Mapping!AliasesOf(p, entity))
         /\ \A typelist : Listed(Mapping!ValuesOf(p, typelist))

LEMMA DefaultJobAliases ==
    ASSUME NEW tool, tool.scope = "pc.job"
    PROVE  /\ Aliased(Mapping!DefaultProfile, tool, "jobNumber") = "submissionNumber"
           /\ Aliased(Mapping!DefaultProfile, tool, "jobStatus") = "status"
           /\ Aliased(Mapping!DefaultProfile, tool, "assignedToUser") = "assignedTo"
           /\ Aliased(Mapping!DefaultProfile, tool, "jobSubtype") = "kind"
  BY DEF Aliased, Mapping!fieldAlias, Mapping!SelectInSeq, Mapping!Mapped,
         Mapping!defaultAliases, Mapping!DefaultProfile, Mapping!Scopes

LEMMA DefaultPolicyAliases ==
    ASSUME NEW tool, tool.scope = "pc.policy"
    PROVE  /\ Aliased(Mapping!DefaultProfile, tool, "policyNumber") = "policyNumber"
           /\ Aliased(Mapping!DefaultProfile, tool, "policyStatus") = "status"
           /\ Aliased(Mapping!DefaultProfile, tool, "effectiveDate") = "effectiveDate"
           /\ Aliased(Mapping!DefaultProfile, tool, "expirationDate") = "expirationDate"
           /\ Aliased(Mapping!DefaultProfile, tool, "productCode") = "lineOfBusiness"
           /\ Aliased(Mapping!DefaultProfile, tool, "cancellationReason") = "cancellationReason"
  BY DEF Aliased, Mapping!fieldAlias, Mapping!SelectInSeq, Mapping!Mapped,
         Mapping!defaultAliases, Mapping!DefaultProfile, Mapping!Scopes

\* Under the default each key of a result stands for one field of its tool.
LEMMA DefaultSurfaces ==
    ASSUME NEW tool \in Mapping!ReadTools, NEW k \in DOMAIN tool.shows
    PROVE  /\ Surfaces(Mapping!DefaultProfile, tool, FieldOf(tool, k), k)
           /\ \E n \in Nat : DOMAIN tool.fields = 1..n
<1>1. ASSUME tool \in {Mapping!find, Mapping!summarize}
      PROVE  \E f : Surfaces(Mapping!DefaultProfile, tool, f, k)
  <2>1. tool.scope = "pc.job"
    BY <1>1 DEF Mapping!find, Mapping!summarize, Mapping!Tool
  <2>2. Range(tool.fields) = {"jobNumber", "jobStatus", "assignedToUser", "jobSubtype"}
    BY <1>1 DEF Range, Mapping!find, Mapping!summarize, Mapping!Tool, Mapping!JobFields
  <2>3. k \in {"submissionNumber", "status", "assignedTo", "kind"}
    <3>1. DOMAIN Mapping!SubmissionDetail = DOMAIN Mapping!SubmissionSummary
      BY DEF Mapping!SubmissionDetail
    <3>2. k \in DOMAIN Mapping!SubmissionSummary
      BY <1>1, <3>1 DEF Mapping!find, Mapping!summarize, Mapping!Tool
    <3>3. QED
      BY <3>2 DEF Mapping!SubmissionSummary
  <2>4. QED
    BY <2>1, <2>2, <2>3, DefaultJobAliases DEF Surfaces
<1>2. ASSUME tool \in {Mapping!show, Mapping!lose}
      PROVE  \E f : Surfaces(Mapping!DefaultProfile, tool, f, k)
  <2>1. tool.scope = "pc.policy"
    BY <1>2 DEF Mapping!show, Mapping!lose, Mapping!Tool
  <2> DEFINE plain == {"policyNumber", "policyStatus", "productCode", "effectiveDate",
                       "expirationDate"}
             keys == {"policyNumber", "status", "lineOfBusiness", "effectiveDate",
                      "expirationDate"}
  <2>2. CASE tool = Mapping!show
    <3>1. Range(tool.fields) = plain
      BY <2>2 DEF Range, Mapping!show, Mapping!Tool
    <3>2. k \in keys
      BY <2>2 DEF Mapping!show, Mapping!Tool, Mapping!PolicySummary
    <3>3. QED
      BY <2>1, <3>1, <3>2, DefaultPolicyAliases DEF Surfaces
  <2>3. CASE tool = Mapping!lose
    <3>1. Range(tool.fields) = plain \cup {"cancellationReason"}
      BY <2>3 DEF Range, Mapping!lose, Mapping!Tool
    <3>2. k \in keys \cup {"cancellationReason"}
      BY <2>3 DEF Mapping!lose, Mapping!Tool, Mapping!LostPolicyEntry, Mapping!PolicySummary
    <3>3. QED
      BY <2>1, <3>1, <3>2, DefaultPolicyAliases DEF Surfaces
  <2>4. QED
    BY <1>2, <2>2, <2>3
<1>3. PICK f : Surfaces(Mapping!DefaultProfile, tool, f, k)
  BY <1>1, <1>2 DEF Mapping!ReadTools
<1>4. FieldOf(tool, k) = f
  BY <1>3 DEF FieldOf, Surfaces, Aliased
<1>5. \E n \in Nat : DOMAIN tool.fields = 1..n
  <2>1. CASE tool \in {Mapping!find, Mapping!summarize}
    <3>1. DOMAIN tool.fields = 1..4
      BY <2>1 DEF Mapping!find, Mapping!summarize, Mapping!Tool, Mapping!JobFields
    <3>2. QED
      BY <3>1
  <2>2. CASE tool = Mapping!show
    BY <2>2 DEF Mapping!show, Mapping!Tool
  <2>3. CASE tool = Mapping!lose
    BY <2>3 DEF Mapping!lose, Mapping!Tool
  <2>4. QED
    BY <2>1, <2>2, <2>3 DEF Mapping!ReadTools
<1>6. QED
  BY <1>3, <1>4, <1>5

\* The first pair of a file for a field gives the term that stands for it.
LEMMA FirstTermWins ==
    ASSUME NEW p, p.kind # "default", NEW tool, NEW f, Listed(PairsFor(p, tool))
    PROVE  \/ /\ \A i \in DOMAIN PairsFor(p, tool) : PairsFor(p, tool)[i].field # f
              /\ Aliased(p, tool, f) = f
           \/ \E i \in DOMAIN PairsFor(p, tool) :
                /\ PairsFor(p, tool)[i].field = f
                /\ \A j \in 1..(i - 1) : PairsFor(p, tool)[j].field # f
                /\ Aliased(p, tool, f) = PairsFor(p, tool)[i].term
<1> DEFINE pairs == PairsFor(p, tool)
           named == {i \in 1..Len(pairs) : pairs[i].field = f}
<1>1. named = {} => Aliased(p, tool, f) = f
  BY DEF Aliased, Mapping!fieldAlias, Mapping!SelectInSeq, PairsFor
<1>2. DOMAIN pairs = 1..Len(pairs) /\ Len(pairs) \in Nat
  BY DEF Listed
<1>3. CASE named = {}
  BY <1>1, <1>2, <1>3
<1>4. CASE named # {}
  <2> DEFINE i == Mapping!Min(named)
  <2>1. named \in SUBSET Nat
    BY <1>2
  <2>2. i \in named /\ \A j \in named : i <= j
    BY <1>4, <2>1, MinIsThere DEF Min, Mapping!Min
  <2>3. i \in DOMAIN pairs /\ i \in Nat /\ i # 0 /\ pairs[i].field = f
    BY <1>2, <2>2
  <2>4. ASSUME NEW j \in 1..(i - 1) PROVE pairs[j].field # f
    <3>1. j \in 1..Len(pairs) /\ ~(i <= j)
      BY <1>2, <2>3
    <3>2. QED
      BY <2>2, <3>1
  <2>5. Aliased(p, tool, f) = pairs[i].term
    BY <1>4, <2>3 DEF Aliased, Mapping!fieldAlias, Mapping!SelectInSeq, PairsFor
  <2>6. QED
    BY <2>3, <2>4, <2>5
<1>5. QED
  BY <1>3, <1>4

\* So does a profile that speaks the vocabulary, and no other field is taken
\* for it.
LEMMA SpokenSurfaces ==
    ASSUME NEW tool \in Mapping!ReadTools, NEW k \in DOMAIN tool.shows, NEW p, Usable(p),
           Speaks(p, tool, k)
    PROVE  Surfaces(p, tool, FieldOf(tool, k), k)
<1> DEFINE f == FieldOf(tool, k)
           pairs == PairsFor(p, tool)
<1>1. Surfaces(Mapping!DefaultProfile, tool, f, k)
  BY DefaultSurfaces
<1>2. CASE p.kind = "default"
  <2>1. \A g : Aliased(p, tool, g) = Aliased(Mapping!DefaultProfile, tool, g)
    BY <1>2 DEF Aliased, Mapping!fieldAlias, Mapping!SelectInSeq, Mapping!DefaultProfile
  <2>2. QED
    BY <1>1, <2>1 DEF Surfaces
<1>3. CASE p.kind = "loaded"
  <2>1. /\ Listed(pairs)
        /\ \A i, j \in DOMAIN pairs : pairs[i].term = pairs[j].term => i = j
    BY <1>3 DEF Usable, DistinctTerms, PairsFor
  <2>2. PICK i \in DOMAIN pairs :
          /\ pairs[i].field = f /\ pairs[i].term = k
          /\ \A j \in 1..(i - 1) : pairs[j].field # f
    BY <1>3 DEF Speaks, PairsFor
  <2>3. k \in Range(tool.fields) \ {f} => \E j \in DOMAIN pairs : pairs[j].field = k
    BY <1>3 DEF Speaks, PairsFor
  <2>4. DOMAIN pairs = 1..Len(pairs) /\ Len(pairs) \in Nat
    BY <2>1 DEF Listed
  <2>5. Aliased(p, tool, f) = k
    <3>1. PICK j \in DOMAIN pairs :
            /\ pairs[j].field = f /\ \A l \in 1..(j - 1) : pairs[l].field # f
            /\ Aliased(p, tool, f) = pairs[j].term
      BY <1>3, <2>1, <2>2, FirstTermWins
    <3>2. i = j
      BY <2>2, <2>4, <3>1
    <3>3. QED
      BY <2>2, <3>1, <3>2
  <2>6. ASSUME NEW g \in Range(tool.fields), g # f, Aliased(p, tool, g) = k PROVE FALSE
    <3>1. CASE \A j \in DOMAIN pairs : pairs[j].field # g
      BY <1>3, <2>1, <2>3, <2>6, <3>1, FirstTermWins
    <3>2. CASE \E j \in DOMAIN pairs : pairs[j].field = g /\ pairs[j].term = k
      BY <2>1, <2>2, <2>6, <3>2
    <3>3. QED
      BY <1>3, <2>1, <2>6, <3>1, <3>2, FirstTermWins
  <2>7. QED
    BY <1>1, <2>5, <2>6 DEF Surfaces
<1>4. QED
  BY <1>2, <1>3 DEF Usable

\* What is surfaced under a key is then the value of its field.
LEMMA AliasedValue ==
    ASSUME NEW p, NEW tool, NEW f, NEW k, Surfaces(p, tool, f, k),
           NEW n \in Nat, DOMAIN tool.fields = 1..n,
           NEW given \in SUBSET Range(tool.fields), f \in given
    PROVE  LET out == Mapping!applyFieldAliases([g \in given |-> g], tool.scope, p, tool.fields)
           IN k \in DOMAIN out /\ out[k] = f
<1> DEFINE out == Mapping!applyFieldAliases([g \in given |-> g], tool.scope, p, tool.fields)
           own == {i \in 1..n : tool.fields[i] \in given /\ Aliased(p, tool, tool.fields[i]) = k}
<1>1. \A i \in own : tool.fields[i] = f
  BY DEF Surfaces, Range
<1>2. own # {}
  <2>1. PICK i \in 1..n : tool.fields[i] = f
    BY DEF Surfaces, Range
  <2>2. QED
    BY <2>1 DEF Surfaces
<1>3. Mapping!Max(own) \in own
  <2>1. own \in SUBSET (1..n)
    OBVIOUS
  <2>2. Max(own) \in own
    BY <1>2, <2>1, MaxIsThere
  <2>3. QED
    BY <2>2 DEF Max, Mapping!Max
<1>4. k \in DOMAIN out /\ out[k] = [g \in given |-> g][tool.fields[Mapping!Max(own)]]
  <2> DEFINE places == {i \in DOMAIN tool.fields : tool.fields[i] \in DOMAIN [g \in given |-> g]}
             key(i) == Mapping!fieldAlias(p, tool.scope, tool.fields[i])
  <2>1. out = [j \in {key(i) : i \in places} |->
                 [g \in given |-> g][tool.fields[Mapping!Max({i \in places : key(i) = j})]]]
    BY DEF Mapping!applyFieldAliases
  <2>2. {i \in places : key(i) = k} = own
    BY DEF Aliased
  <2>3. k \in {key(i) : i \in places}
    BY <1>2, <2>2
  <2> HIDE DEF out, places, key
  <2>4. QED
    BY <2>1, <2>2, <2>3
<1>5. QED
  BY <1>1, <1>3, <1>4

\* typelistLabel gives a label of the code, or the code.
LEMMA LabelIsOfTheCode ==
    ASSUME NEW p, Usable(p), NEW typelist, NEW code
    PROVE  Mapping!typelistLabel(p, typelist, code) \in LabelOf(p, typelist, code)
<1> DEFINE values == Mapping!ValuesOf(p, typelist)
           named == {i \in 1..Len(values) : values[i].code = code}
<1>1. CASE p.kind = "default"
  <2>1. values = <<>>
    BY <1>1 DEF Mapping!ValuesOf
  <2>2. Mapping!typelistLabel(p, typelist, code) = code
    BY <2>1 DEF Mapping!typelistLabel, Mapping!SelectInSeq
  <2>3. QED
    BY <1>1, <2>2 DEF LabelOf
<1>2. CASE p.kind = "loaded"
  <2> DEFINE lists == p.files["typelists.yaml"]
  <2>1. Len(values) \in Nat /\ DOMAIN values = 1..Len(values)
    BY <1>2 DEF Usable, Listed
  <2>2. values = IF typelist \in DOMAIN lists THEN lists[typelist] ELSE <<>>
    BY <1>2 DEF Mapping!ValuesOf
  <2>3. CASE named = {}
    <3>1. Mapping!typelistLabel(p, typelist, code) = code
      BY <2>3 DEF Mapping!typelistLabel, Mapping!SelectInSeq
    <3>2. typelist \in DOMAIN lists => ~\E v \in Range(lists[typelist]) : v.code = code
      BY <2>1, <2>2, <2>3 DEF Range
    <3>3. QED
      BY <3>1, <3>2 DEF LabelOf
  <2>4. CASE named # {}
    <3> DEFINE i == Mapping!Min(named)
    <3>1. named \in SUBSET Nat
      BY <2>1
    <3>2. i \in named
      BY <2>4, <3>1, MinIsThere DEF Min, Mapping!Min
    <3>3. i # 0 /\ i \in DOMAIN values /\ values[i].code = code
      BY <2>1, <3>2
    <3>4. Mapping!typelistLabel(p, typelist, code) = values[i].label
      BY <2>4, <3>3 DEF Mapping!typelistLabel, Mapping!SelectInSeq
    <3>5. typelist \in DOMAIN lists /\ values = lists[typelist]
      BY <2>2, <3>3
    <3>6. values[i] \in Range(lists[typelist])
      BY <3>3, <3>5 DEF Range
    <3> HIDE DEF i, values
    <3>7. QED
      BY <1>2, <3>3, <3>4, <3>5, <3>6 DEF LabelOf
  <2>5. QED
    BY <2>3, <2>4
<1>3. QED
  BY <1>1, <1>2 DEF Usable

LEMMA UsableShows == ASSUME NEW p, Usable(p) PROVE ShowsItsOwn(p)
<1> SUFFICES ASSUME NEW tool \in Mapping!ReadTools, NEW given \in SUBSET Range(tool.fields),
                    NEW k \in DOMAIN tool.shows, FieldOf(tool, k) \in given, Speaks(p, tool, k)
             PROVE  Mapping!Result(tool, [f \in given |-> f], p)[k]
                      \in LabelOf(p, tool.shows[k].typelist, FieldOf(tool, k))
  BY DEF ShowsItsOwn
<1> DEFINE f == FieldOf(tool, k)
           out == Mapping!applyFieldAliases([g \in given |-> g], tool.scope, p, tool.fields)
<1>1. PICK n \in Nat : DOMAIN tool.fields = 1..n
  BY DefaultSurfaces
<1>2. k \in DOMAIN out /\ out[k] = f
  BY <1>1, SpokenSurfaces, AliasedValue
<1>3. Mapping!Result(tool, [g \in given |-> g], p)[k]
        = Mapping!typelistLabel(p, tool.shows[k].typelist, f)
  BY <1>2 DEF Mapping!Result
<1>4. QED
  BY <1>3, LabelIsOfTheCode

\* A profile that is in force has files of their schemas.
LEMMA HandleIsUsable == BootInv /\ profile # "none" => Usable(Handle)
<1> SUFFICES ASSUME BootInv, profile # "none" PROVE Usable(Handle)
  OBVIOUS
<1>1. profile \in {"default", "loaded"}
  BY DEF BootInv
<1>2. ASSUME profile = "loaded"
      PROVE  /\ \A entity : DistinctTerms(Mapping!AliasesOf(Handle, entity))
             /\ \A typelist : Listed(Mapping!ValuesOf(Handle, typelist))
  <2> DEFINE d == ProfilePath(launch)
  <2>1. d \in DOMAIN Contents
    BY <1>2, ProfileIsGiven DEF BootInv
  <2>2. /\ held["field-aliases.yaml"] \in Contents[d]["field-aliases.yaml"] \ {Flawed}
        /\ held["typelists.yaml"] \in Contents[d]["typelists.yaml"] \ {Flawed}
    BY <1>2 DEF BootInv, Valid, Files, OtherFiles
  <2>3. ASSUME NEW entity PROVE DistinctTerms(Mapping!AliasesOf(Handle, entity))
    <3>1. CASE entity \in DOMAIN held["field-aliases.yaml"]
      <4> DEFINE pairs == held["field-aliases.yaml"][entity]
      <4>1. pairs \in Range(held["field-aliases.yaml"])
        BY <3>1 DEF Range
      <4>2. /\ pairs \in Seq(Range(pairs))
            /\ \A i, j \in DOMAIN pairs : pairs[i].term = pairs[j].term => i = j
        BY <2>1, <2>2, <4>1, VocabularyAssumption
      <4>3. Mapping!AliasesOf(Handle, entity) = pairs
        BY <3>1 DEF Mapping!AliasesOf, Handle
      <4>4. QED
        BY <4>2, <4>3 DEF DistinctTerms, Listed
    <3>2. CASE entity \notin DOMAIN held["field-aliases.yaml"]
      <4>1. Mapping!AliasesOf(Handle, entity) = <<>>
        BY <3>2 DEF Mapping!AliasesOf, Handle
      <4>2. QED
        BY <4>1 DEF DistinctTerms, Listed
    <3>3. QED
      BY <3>1, <3>2
  <2>4. ASSUME NEW typelist PROVE Listed(Mapping!ValuesOf(Handle, typelist))
    <3>1. CASE typelist \in DOMAIN held["typelists.yaml"]
      <4> DEFINE values == held["typelists.yaml"][typelist]
      <4>1. values \in Range(held["typelists.yaml"])
        BY <3>1 DEF Range
      <4>2. values \in Seq(Range(values))
        BY <2>1, <2>2, <4>1, VocabularyAssumption
      <4>3. Mapping!ValuesOf(Handle, typelist) = values
        BY <1>2, <3>1 DEF Mapping!ValuesOf, Handle
      <4>4. QED
        BY <4>2, <4>3 DEF Listed
    <3>2. CASE typelist \notin DOMAIN held["typelists.yaml"]
      <4>1. Mapping!ValuesOf(Handle, typelist) = <<>>
        BY <1>2, <3>2 DEF Mapping!ValuesOf, Handle
      <4>2. QED
        BY <4>1 DEF Listed
    <3>3. QED
      BY <3>1, <3>2
  <2>5. QED
    BY <2>3, <2>4
<1>3. Handle.kind = profile
  BY DEF Handle
<1>4. QED
  BY <1>1, <1>2, <1>3 DEF Usable

\* Whatever profile is in force shows every field its own value.
ProfileShows == profile # "none" => ShowsItsOwn(Handle)

THEOREM InForceShows == PolicyCenterSpec => []ProfileShows
<1>1. BootInv => ProfileShows
  BY HandleIsUsable, UsableShows DEF ProfileShows
<1>2. QED
  BY <1>1, StartsAsBoot, BootInvariance, PTL

\* A profile that comes into force shows every field its own value.
THEOREM TheReadsShow == PolicyCenterSpec => ReadsShow
<1>1. [PolicyCenterNext]_pcVars /\ ProfileShows'
        => [profile # profile' => ShowsItsOwn(Handle')]_pcVars
  <2> SUFFICES ASSUME PolicyCenterNext, ProfileShows', profile # profile'
               PROVE  ShowsItsOwn(Handle')
    BY DEF pcVars
  <2>1. profile' # "none"
    <3>1. ASSUME NEW f \in Files, ReadFails(f) \/ ReadSettles(f)
          PROVE  profile' # "none"
      BY <3>1 DEF ReadFails, ReadSettles, GateDecides
    <3>2. QED
      BY <3>1 DEF PolicyCenterNext, Boots, Serves, BootNext, bootVars,
                  ArgsThrow, TakesDefault, LoadCalled, Connects
  <2>2. QED
    BY <2>1 DEF ProfileShows
<1>2. QED
  BY <1>1, InForceShows, PTL DEF PolicyCenterSpec, ReadsShow
==============================================================================
