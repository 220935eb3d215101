--------------------------- MODULE MCPolicyCenter ---------------------------
(* An instance of PolicyCenter for model checking. *)
EXTENDS PolicyCenter

CONSTANTS d1, d2, r1, s1, t1, t2

\* Drafts with the same arguments; the first has a trace of its own.
SameKey == [d \in Drafts |-> "k"]
SharedTrace == [x \in ToolCalls |-> IF x = d1 THEN t1 ELSE t2]

Option(name, value) == [name |-> name, value |-> value]
Profile(d) == Option("--profile", d)
Partly == Settings \ {"GUIDEWIRE_OAUTH_CLIENT_SECRET"}

\* With a profile and without; with a credential missing; and with options
\* that are wrong or repeated.
Starts ==
    {[argv |-> <<Profile("demo")>>, env |-> Settings],
     [argv |-> <<>>, env |-> Settings],
     [argv |-> <<Option("--http", "http"), Profile("terms")>>, env |-> Partly],
     [argv |-> <<Profile("terms"), Option("--transport", "tcp")>>, env |-> Settings],
     [argv |-> <<Profile("demo"), Profile("edited")>>, env |-> {}]}

Pair(term, field) == [term |-> term, field |-> field]
Named(code, label) == [code |-> code, label |-> label]

Vocabulary ==
    [Job |-> <<Pair("submissionNumber", "jobNumber"), Pair("status", "jobStatus")>>,
     Policy |-> <<Pair("status", "policyStatus"), Pair("lineOfBusiness", "productCode")>>]

\* Terms of the carrier's own, two terms for a field in both orders, and a term
\* that is the name of another field.
Vocabularies ==
    {Vocabulary,
     [Job |-> <<Pair("quote", "jobNumber"), Pair("status", "jobStatus"), Pair("stage", "jobStatus")>>],
     [Job |-> <<Pair("stage", "jobStatus"), Pair("status", "jobStatus")>>,
      Policy |-> <<Pair("policyNumber", "policyStatus"), Pair("status", "policyNumber")>>],
     [Policy |-> <<Pair("policyNumber", "policyStatus"), Pair("effectiveDate", "effectiveDate")>>]}

Labels ==
    {[PolicyStatus |-> <<Named("policyStatus", "InForce"), Named("policyStatus", "Bound")>>],
     [JobStatus |-> <<Named("jobNumber", "None"), Named("jobStatus", "Open")>>]}

\* The files of a directory: as in `files`, or else one valid content.
Directory(files) ==
    [f \in Files |->
        IF f \in DOMAIN files THEN files[f]
        ELSE CASE f = "field-aliases.yaml" -> {Vocabulary}
               [] f = "typelists.yaml" -> {[PolicyStatus |-> <<>>]}
               [] f = "lob.yaml" -> {[auto |-> "undeclared"]}
               [] f = "pii-policy.yaml" -> {FALSE}
               [] OTHER -> {"valid"}]

\* A health LOB and the BAA come and go while `edited` is read.
Lobs == {[auto |-> "undeclared", medical |-> c] : c \in {"health", "non_health"}}

Directories ==
    ("demo" :> Directory(<<>>))
    @@ ("terms" :> Directory(("field-aliases.yaml" :> Vocabularies) @@ ("typelists.yaml" :> Labels)))
    @@ ("edited" :> Directory(("lob.yaml" :> (Lobs \cup {Flawed}))
                              @@ ("pii-policy.yaml" :> {TRUE, FALSE})
                              @@ ("manifest.yaml" :> {"valid", Flawed})
                              @@ ("events.yaml" :> {"valid", Flawed})))
==============================================================================
