------------------------------ MODULE HashChain ------------------------------
(***************************************************************************)
(* The per-tenant hash chain: packages/audit/src/hash.ts and the two       *)
(* verifyChain walks (pg-store.ts, memory-store.ts).                       *)
(*                                                                         *)
(* An entry is a record with its tenant, its chainSeq, its prevHash and    *)
(* its entryHash; `body` holds the other hashed fields that are not        *)
(* undefined.  planId and traceId stand for all the required texts between *)
(* chainSeq and prevHash.  The store keeps a body as it is: recordedAt     *)
(* goes through a TIMESTAMPTZ and a Date, and comes back the same if it    *)
(* was, as all callers pass it, a toISOString of some Date.                *)
(***************************************************************************)
EXTENDS Naturals, FiniteSets, FiniteSetsExt, Sequences

GENESIS_PREV_HASH == <<>>

Required == {"entryId", "planId", "traceId"}
Optional == {"blobRef", "oauthScope"}

\* The lines `key=value` of a field, none if it is undefined.  A value is its
\* text up to the first line feed and the lines after that; a line is the pair
\* of what is before and after its first `=`.
FieldLines(body, key) ==
    IF key \in DOMAIN body THEN <<<<key, body[key].text>>>> \o body[key].more ELSE <<>>

LinesBefore(e) ==
    FieldLines(e.body, "entryId")
        \o <<<<"tenantId", e.tenant>>, <<"chainSeq", e.chainSeq>>>>
        \o FieldLines(e.body, "planId") \o FieldLines(e.body, "traceId")

LinesAfter(e) == FieldLines(e.body, "blobRef") \o FieldLines(e.body, "oauthScope")

\* Nothing is escaped, so entries that differ may serialize alike.
canonicalSerialization(e) == LinesBefore(e) \o <<<<"prevHash", e.prevHash>>>> \o LinesAfter(e)

\* SHA-256 is taken to be injective: a digest is the text it digests.
computeEntryHash(e) == canonicalSerialization(e)

\* No value of the body holds a line feed.
OneLine(body) == \A key \in DOMAIN body : body[key].more = <<>>

\* Defect (for VerifyAccepts): the hash leaves prevHash out.
NextEntryUnlinked(tenant, head, body) ==
    LET partial == [tenant |-> tenant, chainSeq |-> head.seq + 1,
                    body |-> body, prevHash |-> head.hash]
    IN [tenant |-> tenant, chainSeq |-> partial.chainSeq, body |-> body,
        prevHash |-> partial.prevHash,
        entryHash |-> computeEntryHash([partial EXCEPT !.prevHash = GENESIS_PREV_HASH])]

\* The entry an append derives from the head it read.
NextEntry(tenant, head, body) ==
    LET partial == [tenant |-> tenant, chainSeq |-> head.seq + 1,
                    body |-> body, prevHash |-> head.hash]
    IN [tenant |-> tenant, chainSeq |-> partial.chainSeq, body |-> body,
        prevHash |-> partial.prevHash, entryHash |-> computeEntryHash(partial)]

\* The head before the first append: no row, or sequence 0 and no hash.
NoHead == [seq |-> 0, hash |-> GENESIS_PREV_HASH]

\* Defect (for ChainIntact): the head keeps the hash of the entry before.
HeadBefore(entry) == [seq |-> entry.chainSeq, hash |-> entry.prevHash]

HeadAfter(entry) == [seq |-> entry.chainSeq, hash |-> entry.entryHash]

Valid(toSeq) == [valid |-> TRUE, toSeq |-> toSeq]
BrokenAt(seq) == [valid |-> FALSE, toSeq |-> seq]

\* Defect (for VerifiersAgree): a walk from the middle starts at genesis.
verifyRowsFromGenesis(rows, fromSeq) ==
    LET walked == {r \in rows : r.chainSeq >= fromSeq}
        prev(r) == IF r.chainSeq = fromSeq THEN {GENESIS_PREV_HASH}
                   ELSE {q.entryHash : q \in {p \in walked : p.chainSeq = r.chainSeq - 1}}
        broken == {r \in walked : r.prevHash \notin prev(r) \/ r.entryHash # computeEntryHash(r)}
    IN IF walked = {} THEN Valid(0)
       ELSE IF broken # {} THEN BrokenAt(Min({r.chainSeq : r \in broken}))
       ELSE Valid(Max({r.chainSeq : r \in walked}))

\* pg-store: walk the rows of one tenant from fromSeq in order of chain_seq,
\* and stop at the first that does not link or does not hash to its hash.
verifyRows(rows, fromSeq) ==
    LET walked == {r \in rows : r.chainSeq >= fromSeq}
        before(r) == {q \in walked : q.chainSeq < r.chainSeq}
        first == {q.entryHash : q \in {p \in rows : p.chainSeq = fromSeq - 1}}
        prev(r) ==
            IF before(r) # {}
            THEN (CHOOSE q \in before(r) : \A p \in before(r) : p.chainSeq <= q.chainSeq).entryHash
            ELSE IF fromSeq = 1 \/ first = {} THEN GENESIS_PREV_HASH
                                              ELSE CHOOSE h \in first : TRUE
        broken == {r \in walked : r.prevHash # prev(r) \/ r.entryHash # computeEntryHash(r)}
    IN IF walked = {} THEN Valid(0)
       ELSE IF broken # {} THEN BrokenAt(Min({r.chainSeq : r \in broken}))
       ELSE Valid(Max({r.chainSeq : r \in walked}))

\* Defect (for BlameIsFair): the hash of an entry is compared only with the
\* link of the next.
verifyArrayByLinks(entries, fromSeq) ==
    LET broken == {i \in fromSeq + 1..Len(entries) :
                     entries[i].prevHash # computeEntryHash(entries[i - 1])}
    IN IF entries = <<>> THEN Valid(0)
       ELSE IF broken # {} THEN BrokenAt(entries[Min(broken)].chainSeq)
       ELSE Valid(entries[Len(entries)].chainSeq)

\* memory-store: the same walk over an array, by index.
verifyArray(entries, fromSeq) ==
    LET prev(i) ==
            IF i > fromSeq THEN entries[i - 1].entryHash
            ELSE IF fromSeq = 1 \/ fromSeq - 1 > Len(entries)
                 THEN GENESIS_PREV_HASH ELSE entries[fromSeq - 1].entryHash
        broken == {i \in fromSeq..Len(entries) :
                     \/ entries[i].prevHash # prev(i)
                     \/ entries[i].entryHash # computeEntryHash(entries[i])}
    IN IF entries = <<>> THEN Valid(0)
       ELSE IF broken # {} THEN BrokenAt(entries[Min(broken)].chainSeq)
       ELSE Valid(entries[Len(entries)].chainSeq)
==============================================================================
