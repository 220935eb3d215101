---------------------------- MODULE FieldMapping ----------------------------
(***************************************************************************)
(* What the read tools of the PolicyCenter server make of a reply: the     *)
(* handle of servers/policycenter-mcp/src/profile.ts, applyFieldAliases of *)
(* field-mapping.ts and the results composed in tools/.                    *)
(*                                                                         *)
(* A profile is [kind |-> "default"], or [kind |-> "loaded"] with what its *)
(* files hold.  field-aliases.yaml gives for an entity the sequence of its *)
(* [term, field] pairs, in the order of the file; typelists.yaml gives for *)
(* a typelist the sequence of its [code, label] pairs.                     *)
(***************************************************************************)
EXTENDS Sequences, SequencesExt

\* The scopes and fields the read tools ask for.
Scopes == {"pc.job", "pc.policy"}

SCOPE_TO_ENTITY == [scope \in Scopes |-> IF scope = "pc.job" THEN "Job" ELSE "Policy"]

defaultAliases ==
    [scope \in Scopes |->
        IF scope = "pc.job"
        THEN [jobNumber |-> "submissionNumber", jobStatus |-> "status",
              assignedToUser |-> "assignedTo", jobSubtype |-> "kind"]
        ELSE [policyNumber |-> "policyNumber", policyStatus |-> "status",
              effectiveDate |-> "effectiveDate", expirationDate |-> "expirationDate",
              productCode |-> "lineOfBusiness"]]

\* What a map says of x, or x itself.
Mapped(map, x) == IF x \in DOMAIN map THEN map[x] ELSE x

DefaultProfile == [kind |-> "default"]

AliasesOf(profile, entity) ==
    LET aliases == profile.files["field-aliases.yaml"]
    IN IF entity \in DOMAIN aliases THEN aliases[entity] ELSE <<>>

\* Defect (for ReadsShow): the last of several terms for a field wins.
fieldAliasLast(profile, scope, rawField) ==
    LET aliases == AliasesOf(profile, SCOPE_TO_ENTITY[scope])
        i == SelectLastInSeq(aliases, LAMBDA a : a.field = rawField)
    IN IF profile.kind = "default" THEN Mapped(defaultAliases[scope], rawField)
       ELSE IF i = 0 THEN rawField ELSE aliases[i].term

\* The file goes from the carrier's term to the field: the lookup inverts it,
\* and the first of several terms for a field wins.
fieldAlias(profile, scope, rawField) ==
    LET aliases == AliasesOf(profile, SCOPE_TO_ENTITY[scope])
        i == SelectInSeq(aliases, LAMBDA a : a.field = rawField)
    IN IF profile.kind = "default" THEN Mapped(defaultAliases[scope], rawField)
       ELSE IF i = 0 THEN rawField ELSE aliases[i].term

ValuesOf(profile, typelist) ==
    LET lists == IF profile.kind = "default" THEN <<>> ELSE profile.files["typelists.yaml"]
    IN IF typelist \in DOMAIN lists THEN lists[typelist] ELSE <<>>

typelistLabel(profile, typelist, code) ==
    LET values == ValuesOf(profile, typelist)
        i == SelectInSeq(values, LAMBDA v : v.code = code)
    IN IF i = 0 THEN code ELSE values[i].label

\* Field by field; a field whose key is taken already replaces what was there.
applyFieldAliases(attributes, scope, profile, fields) ==
    LET given == {i \in DOMAIN fields : fields[i] \in DOMAIN attributes}
        key(i) == fieldAlias(profile, scope, fields[i])
    IN [k \in {key(i) : i \in given} |-> attributes[fields[Max({i \in given : key(i) = k})]]]

----------------------------------------------------------------------------
\* The read tools: the fields they ask for, and for each key of a result the
\* typelist that labels it and what it says without a value.  Counts and the
\* attributes that `pull` passes on as they are do not depend on the profile.
Plain(otherwise) == [typelist |-> "none", otherwise |-> otherwise]
Labelled(typelist, otherwise) == [typelist |-> typelist, otherwise |-> otherwise]

JobFields == <<"jobNumber", "jobStatus", "assignedToUser", "jobSubtype">>

SubmissionSummary ==
    [submissionNumber |-> Plain("id"), status |-> Plain("Unknown"),
     assignedTo |-> Plain(""), kind |-> Plain("Submission")]

SubmissionDetail ==
    [SubmissionSummary EXCEPT !.status = Labelled("JobStatus", "Unknown"),
                              !.kind = Labelled("JobSubtype", "Submission")]

PolicySummary ==
    [policyNumber |-> Plain("id"), status |-> Labelled("PolicyStatus", "Unknown"),
     lineOfBusiness |-> Labelled("ProductCode", ""),
     effectiveDate |-> Plain(""), expirationDate |-> Plain("")]

LostPolicyEntry ==
    [k \in DOMAIN PolicySummary \cup {"cancellationReason"} |->
        IF k = "cancellationReason" THEN Labelled("CancellationReason", "Unknown")
        ELSE PolicySummary[k]]

Tool(scope, fields, shows) == [scope |-> scope, fields |-> fields, shows |-> shows]

find == Tool("pc.job", JobFields, SubmissionSummary)
summarize == Tool("pc.job", JobFields, SubmissionDetail)
show ==
    Tool("pc.policy", <<"policyNumber", "policyStatus", "productCode", "effectiveDate",
                        "expirationDate">>, PolicySummary)
lose ==
    Tool("pc.policy", <<"policyNumber", "policyStatus", "productCode", "cancellationReason",
                        "effectiveDate", "expirationDate">>, LostPolicyEntry)

\* `pull` answers what `find` does, of one submission.
ReadTools == {find, summarize, show, lose}

\* A result.  Only the cancellation reason is looked up by its raw name too.
Result(tool, attributes, profile) ==
    LET aliased == applyFieldAliases(attributes, tool.scope, profile, tool.fields)
        value(k) == IF k \in DOMAIN aliased THEN aliased[k]
                    ELSE IF k = "cancellationReason" /\ k \in DOMAIN attributes THEN attributes[k]
                    ELSE tool.shows[k].otherwise
    IN [k \in DOMAIN tool.shows |-> typelistLabel(profile, tool.shows[k].typelist, value(k))]
==============================================================================
