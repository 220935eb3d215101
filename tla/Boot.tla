-------------------------------- MODULE Boot --------------------------------
(***************************************************************************)
(* The start of the PolicyCenter server: parseArgs, buildServer and main   *)
(* of servers/policycenter-mcp/src/cli.ts, loadProfile of profile.ts and   *)
(* checkBaaGate of packages/schemas/src/profile/baa-gate.ts.               *)
(*                                                                         *)
(* A profile directory may change while it is read: each read of a file    *)
(* gives one of the contents its directory may hold, or fails.             *)
(***************************************************************************)
EXTENDS Sequences, SequencesExt

CONSTANTS
    Launches,  \* [argv, env]: the options, and the settings that are not empty
    Contents,  \* Contents[d][f]: what a read of file f of directory d may give
    NoValue,   \* stands for `undefined`
    Flawed,    \* a read that fails: no file, no YAML, or not of its schema
    Unread     \* a read that has not settled

Manifest == "manifest.yaml"
OtherFiles == {"auth.yaml", "roles.yaml", "lob.yaml", "typelists.yaml",
               "custom-entities.yaml", "field-aliases.yaml", "approval-matrix.yaml",
               "pii-policy.yaml", "events.yaml"}
Files == {Manifest} \cup OtherFiles

ASSUME BootAssumption ==
    /\ \A l \in Launches :
         /\ l.argv \in Seq(Range(l.argv))
         /\ \A i \in DOMAIN l.argv :
              l.argv[i].name = "--profile" => l.argv[i].value \in DOMAIN Contents \cup {NoValue}
    /\ Unread # Flawed
    /\ \A d \in DOMAIN Contents :
         /\ \A f \in Files : Unread \notin Contents[d][f]
         /\ Contents[d]["pii-policy.yaml"] \subseteq BOOLEAN \cup {Flawed}

VARIABLES
    launch,   \* how the server was started
    stage,    \* what the start awaits
    held,     \* held[f]: what the read of file f gave
    profile,  \* the profile the server is built with: none yet, the default, what is held
    failure   \* what is printed before the process exits

bootVars == <<launch, stage, held, profile, failure>>

\* by: who refuses; file, lobs: whom ProfileLoadError names.
NoFailure == [by |-> "none"]
Failure(by) == [by |-> by]
FileFailure(f) == [by |-> "file", file |-> f]
GateFailure(lobs) == [by |-> "BAA_GATE_MISSING", lobs |-> lobs]

----------------------------------------------------------------------------
\* parseArgs: [name, value] options, the last of a kind wins.
BadOption(o) ==
    \/ o.name = "--transport" /\ o.value \notin {"stdio", "http"}
    \/ o.name = "--port" /\ o.value # "positive"
    \/ o.name = "--profile" /\ o.value = NoValue

BadArgv(l) == \E i \in DOMAIN l.argv : BadOption(l.argv[i])

LastOf(names, l, otherwise) ==
    LET own == {i \in DOMAIN l.argv : l.argv[i].name \in names}
    IN IF own = {} THEN otherwise ELSE l.argv[Max(own)].value

\* --http and --stdio carry the transport they name.
Transport(l) == LastOf({"--transport", "--http", "--stdio"}, l, "stdio")
ProfilePath(l) == LastOf({"--profile"}, l, NoValue)

\* Defect (for NoMocks): one credential is enough for createAuth.
AuthenticatedInPart(l) ==
    \E v \in {"GUIDEWIRE_TOKEN_ENDPOINT", "GUIDEWIRE_OAUTH_CLIENT_ID",
              "GUIDEWIRE_OAUTH_CLIENT_SECRET"} : v \in l.env

\* createAuth is called, instead of wiring a stub whose getToken throws.
Authenticated(l) ==
    \A v \in {"GUIDEWIRE_TOKEN_ENDPOINT", "GUIDEWIRE_OAUTH_CLIENT_ID",
              "GUIDEWIRE_OAUTH_CLIENT_SECRET"} : v \in l.env

\* client.get has a token and a base URL to send a request to.
Ready(l) == Authenticated(l) /\ "GUIDEWIRE_PC_BASE_URL" \in l.env

\* lob_class as the schema reads it: one that is not there is `non_health`.
LobClass(declared) == IF declared = "undeclared" THEN "non_health" ELSE declared

\* Defect (for GateHolds): a LOB that is not health excuses the others.
offendingIfAll(lob, baaRequired) ==
    IF baaRequired \/ \E c \in DOMAIN lob : LobClass(lob[c]) # "health" THEN {} ELSE DOMAIN lob

\* checkBaaGate: the LOBs that need a BAA the PII policy does not require.
offendingLobs(lob, baaRequired) ==
    IF baaRequired THEN {} ELSE {c \in DOMAIN lob : LobClass(lob[c]) = "health"}

Offending(files) == offendingLobs(files["lob.yaml"], files["pii-policy.yaml"])

----------------------------------------------------------------------------
BootTypeOK ==
    /\ launch \in Launches
    /\ stage \in {"started", "manifest", "files", "built", "serving", "exited"}
    /\ LET contents == Contents[ProfilePath(launch)]
       IN \A f \in Files : held[f] = Unread \/ held[f] \in contents[f]
    /\ profile \in {"none", "default", "loaded"}
    /\ failure = NoFailure <=> stage # "exited"

BootInit ==
    /\ launch \in Launches
    /\ stage = "started"
    /\ held = [f \in Files |-> Unread]
    /\ profile = "none"
    /\ failure = NoFailure

Exits(why) ==
    /\ stage' = "exited"
    /\ failure' = why

ArgsThrow ==
    /\ stage = "started"
    /\ BadArgv(launch)
    /\ Exits(Failure("args"))
    /\ UNCHANGED <<launch, held, profile>>

\* Without --profile the server warns and takes the default.
TakesDefault ==
    /\ stage = "started"
    /\ ~BadArgv(launch)
    /\ ProfilePath(launch) = NoValue
    /\ stage' = "built"
    /\ profile' = "default"
    /\ UNCHANGED <<launch, held, failure>>

LoadCalled ==
    /\ stage = "started"
    /\ ~BadArgv(launch)
    /\ ProfilePath(launch) # NoValue
    /\ stage' = "manifest"
    /\ UNCHANGED <<launch, held, profile, failure>>

\* The file whose read settles: the manifest, then the others in any order.
Awaited(f) ==
    /\ held[f] = Unread
    /\ \/ stage = "manifest" /\ f = Manifest
       \/ stage = "files" /\ f \in OtherFiles

ReadGives(f, valid) ==
    /\ Awaited(f)
    /\ \E content \in Contents[ProfilePath(launch)][f] :
         /\ valid <=> content # Flawed
         /\ held' = [held EXCEPT ![f] = content]

\* Defect (for NeverDegrades): a profile that does not load is done without.
DoesWithout(f) ==
    /\ ReadGives(f, FALSE)
    /\ stage' = "built"
    /\ profile' = "default"
    /\ UNCHANGED <<launch, failure>>

\* The first read that fails ends the process, whatever the others would give.
ReadFails(f) ==
    /\ ReadGives(f, FALSE)
    /\ Exits(FileFailure(f))
    /\ UNCHANGED <<launch, profile>>

\* The gate, once Promise.all has all files.
GateDecides ==
    IF Offending(held') = {}
    THEN stage' = "built" /\ profile' = "loaded" /\ UNCHANGED failure
    ELSE Exits(GateFailure(Offending(held'))) /\ UNCHANGED profile

\* Defect (for RefusalIsExplained): the gate runs as soon as it has its files.
ReadSettlesForGate(f) ==
    /\ ReadGives(f, TRUE)
    /\ IF \E g \in {"lob.yaml", "pii-policy.yaml"} : held'[g] = Unread
       THEN stage' = "files" /\ UNCHANGED <<profile, failure>>
       ELSE GateDecides
    /\ UNCHANGED launch

ReadSettles(f) ==
    /\ ReadGives(f, TRUE)
    /\ IF \E g \in Files : held'[g] = Unread
       THEN stage' = "files" /\ UNCHANGED <<profile, failure>>
       ELSE GateDecides
    /\ UNCHANGED launch

\* main: the harness, the tools and the transport are there; over HTTP the
\* port may be taken, which nothing handles.
Connects ==
    /\ stage = "built"
    /\ \/ stage' = "serving" /\ UNCHANGED failure
       \/ Transport(launch) = "http" /\ Exits(Failure("port"))
    /\ UNCHANGED <<launch, held, profile>>

BootNext ==
    \/ ArgsThrow \/ TakesDefault \/ LoadCalled \/ Connects
    \/ \E f \in Files : ReadFails(f) \/ ReadSettles(f)

BootSpec == BootInit /\ [][BootNext]_bootVars

----------------------------------------------------------------------------
\* Properties.

\* A server that was given a profile never runs on the default one, whatever
\* becomes of the directory while it is read ("Per D-008: never silently
\* degrade to the default profile", the catch around loadProfile).
NeverDegrades ==
    (\E i \in DOMAIN launch.argv : launch.argv[i].name = "--profile") => profile # "default"

\* No profile is in force with a health LOB and no executed BAA, in whatever
\* order its files were read and whatever they became in between (checkBaaGate
\* is applied to what all the reads gave, the default lob_class included).
GateHolds ==
    profile = "loaded" =>
        \A c \in DOMAIN held["lob.yaml"] :
            held["lob.yaml"][c] = "health" => held["pii-policy.yaml"]

\* A refusal names its cause, and there is only one: the file it names did not
\* load, every other one that was read did, the manifest first; and the gate
\* refuses a profile only when all of it is valid, naming exactly the LOBs that
\* are in the way (Promise.all, and the catch around loadProfile).
Valid(f) == held[f] \notin {Unread, Flawed}

RefusalIsExplained ==
    /\ failure.by = "file" =>
         /\ held[failure.file] = Flawed
         /\ \A f \in Files \ {failure.file} : held[f] # Flawed
         /\ IF failure.file = Manifest THEN \A f \in OtherFiles : held[f] = Unread
                                       ELSE Valid(Manifest)
    /\ failure.by = "BAA_GATE_MISSING" =>
         /\ \A f \in Files : Valid(f)
         /\ held["pii-policy.yaml"] = FALSE
         /\ failure.lobs = {c \in DOMAIN held["lob.yaml"] : held["lob.yaml"][c] = "health"}
         /\ failure.lobs # {}
==============================================================================
