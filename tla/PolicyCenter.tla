---------------------------- MODULE PolicyCenter ----------------------------
(***************************************************************************)
(* The PolicyCenter server from its launch on: module Boot builds what the *)
(* callbacks of module ToolServer run with.                                *)
(***************************************************************************)
EXTENDS Boot, ToolServer

Mapping == INSTANCE FieldMapping

\* In a file that is of its schema the terms of an entity are keys of a map,
\* so no two are the same, and the values of a typelist are a list.
ASSUME VocabularyAssumption ==
    \A d \in DOMAIN Contents :
        /\ \A aliases \in Contents[d]["field-aliases.yaml"] \ {Flawed} :
             \A pairs \in Range(aliases) :
                 /\ pairs \in Seq(Range(pairs))
                 /\ \A i, j \in DOMAIN pairs : pairs[i].term = pairs[j].term => i = j
        /\ \A lists \in Contents[d]["typelists.yaml"] \ {Flawed} :
             \A values \in Range(lists) : values \in Seq(Range(values))

\* The handle the tools are given.
Handle == [kind |-> profile, files |-> held]

pcVars == <<bootVars, vars>>

PolicyCenterTypeOK == BootTypeOK /\ ServerTypeOK

PolicyCenterInit == BootInit /\ ServerInit

\* A call whose client.get gave it a reply.
Got(x) == at[x] = "get" /\ at'[x] \in {"policy", "value"}

Boots == BootNext /\ UNCHANGED vars

\* Without a token or a base URL every client.get throws.
Serves ==
    /\ stage = "serving"
    /\ ServerNext
    /\ \A x \in ToolCalls : Got(x) => Ready(launch)
    /\ UNCHANGED bootVars

PolicyCenterNext == Boots \/ Serves

PolicyCenterSpec == PolicyCenterInit /\ [][PolicyCenterNext]_pcVars

----------------------------------------------------------------------------
\* Properties.

\* Nothing is answered without Guidewire: a tool that answers a value did so
\* in a server that was told all of token endpoint, client id, client secret
\* and base URL ("every tool call will fail loudly -- never silently degrades
\* to mocks", cli.ts).
Settings == {"GUIDEWIRE_TOKEN_ENDPOINT", "GUIDEWIRE_OAUTH_CLIENT_ID",
             "GUIDEWIRE_OAUTH_CLIENT_SECRET", "GUIDEWIRE_PC_BASE_URL"}

NoMocks == (\E x \in ToolCalls : at[x] = "value") => Settings \subseteq launch.env

\* The field a key of a result stands for, in the vocabulary of the default.
FieldOf(tool, k) ==
    CHOOSE f \in Range(tool.fields) :
        Mapping!fieldAlias(Mapping!DefaultProfile, tool.scope, f) = k

\* The profile has term k, before any other, for the field k stands for, and
\* surfaces no other field of the tool under k.
Speaks(p, tool, k) ==
    LET f == FieldOf(tool, k)
        pairs == Mapping!AliasesOf(p, Mapping!SCOPE_TO_ENTITY[tool.scope])
        declares(i, field) == pairs[i].field = field
    IN p.kind = "loaded" =>
         /\ \E i \in DOMAIN pairs :
              /\ declares(i, f) /\ pairs[i].term = k
              /\ \A j \in 1..(i - 1) : ~declares(j, f)
         /\ k \in Range(tool.fields) \ {f} => \E i \in DOMAIN pairs : declares(i, k)

LabelOf(p, typelist, code) ==
    IF p.kind = "loaded" /\ typelist \in DOMAIN p.files["typelists.yaml"]
       /\ \E v \in Range(p.files["typelists.yaml"][typelist]) : v.code = code
    THEN {v.label : v \in {w \in Range(p.files["typelists.yaml"][typelist]) : w.code = code}}
    ELSE {code}

\* Under a profile that speaks the vocabulary of a result, every field that
\* Guidewire gave shows its own value, or the label of it, and no other's,
\* whatever other fields are there and however the file orders its terms
\* (inversion in fieldAlias, keys in applyFieldAliases, the results in tools/).
\* A value is named by its field.
ShowsItsOwn(p) ==
    \A tool \in Mapping!ReadTools : \A given \in SUBSET Range(tool.fields) :
        LET result == Mapping!Result(tool, [f \in given |-> f], p)
        IN \A k \in DOMAIN tool.shows :
             FieldOf(tool, k) \in given /\ Speaks(p, tool, k) =>
                 result[k] \in LabelOf(p, tool.shows[k].typelist, FieldOf(tool, k))

ReadsShow == [][profile # profile' => ShowsItsOwn(Handle')]_pcVars
==============================================================================
