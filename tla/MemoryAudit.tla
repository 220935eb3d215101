----------------------------- MODULE MemoryAudit -----------------------------
(***************************************************************************)
(* The in-memory audit store (packages/audit/src/memory-store.ts) of one   *)
(* tenant, whose entries someone edits behind its back: what verifyChain   *)
(* finds out.  verifyArray is this store's verifyChain, verifyRows that of *)
(* the Postgres store over the same entries (module HashChain).            *)
(***************************************************************************)
EXTENDS HashChain, Functions

CONSTANTS
    Tenant,
    Bodies,    \* what an entry may say
    Lines,     \* lines its values may hold after the first
    MaxLen,    \* bound on the log
    MaxEdits   \* bound on the edits

IsBody(b) ==
    /\ b = [key \in DOMAIN b |-> [text |-> b[key].text, more |-> b[key].more]]
    /\ Required \subseteq DOMAIN b /\ DOMAIN b \subseteq Required \cup Optional
    /\ \A key \in DOMAIN b : b[key].more \in Seq(Lines)

ASSUME MemoryAssumption ==
    /\ MaxLen \in Nat /\ MaxEdits \in Nat
    /\ \A b \in Bodies : IsBody(b)

VARIABLES
    entries,   \* the stored entries
    head,      \* the head pointer append() keeps
    appended,  \* the entries as append() returned them
    edits      \* edits so far

vars == <<entries, head, appended, edits>>

TypeOK ==
    /\ Len(entries) = Len(appended)
    /\ \A i \in DOMAIN entries :
         /\ entries[i].tenant = Tenant /\ entries[i].body \in Bodies
         /\ entries[i].chainSeq = i /\ appended[i].chainSeq = i
    /\ head.seq = Len(entries)
    /\ edits \in 0..MaxEdits

Init ==
    /\ entries = <<>> /\ appended = <<>>
    /\ head = NoHead
    /\ edits = 0

----------------------------------------------------------------------------
\* Defect (for VerifiedIsAppended): the entry links to the last one stored.
AppendedToLast(body) ==
    /\ Len(entries) < MaxLen
    /\ LET last == IF entries = <<>> THEN NoHead ELSE HeadAfter(entries[Len(entries)])
           entry == NextEntry(Tenant, last, body)
       IN /\ entries' = Append(entries, entry)
          /\ appended' = Append(appended, entry)
          /\ head' = HeadAfter(entry)
    /\ UNCHANGED edits

\* Defect (for TypeOK): the head is never set.
AppendedWithoutHead(body) ==
    /\ Len(entries) < MaxLen
    /\ LET entry == NextEntry(Tenant, head, body)
       IN /\ entries' = Append(entries, entry)
          /\ appended' = Append(appended, entry)
    /\ UNCHANGED <<head, edits>>

\* append(): one turn of the event loop.
Appended(body) ==
    /\ Len(entries) < MaxLen
    /\ LET entry == NextEntry(Tenant, head, body)
       IN /\ entries' = Append(entries, entry)
          /\ appended' = Append(appended, entry)
          /\ head' = HeadAfter(entry)
    /\ UNCHANGED edits

\* Someone edits a stored entry, out of reach of append(): its body, and, to
\* cover it up, its hash and its link to the entry before.
Edit(i, body, rehash, relink) ==
    LET link == IF relink /\ i > 1 THEN entries[i - 1].entryHash ELSE entries[i].prevHash
        edited == [entries[i] EXCEPT !.body = body, !.prevHash = link]
    IN IF rehash THEN [edited EXCEPT !.entryHash = computeEntryHash(edited)] ELSE edited

Tampers(i) ==
    /\ edits < MaxEdits
    /\ \E body \in Bodies, rehash, relink \in BOOLEAN :
         entries' = [entries EXCEPT ![i] = Edit(i, body, rehash, relink)]
    /\ edits' = edits + 1
    /\ UNCHANGED <<head, appended>>

Next ==
    \/ \E body \in Bodies : Appended(body)
    \/ \E i \in DOMAIN entries : Tampers(i)

Spec == Init /\ [][Next]_vars

----------------------------------------------------------------------------
\* Properties.

Edited == {i \in DOMAIN entries : entries[i] # appended[i]}

\* What verifies and ends in the hash of the head says line by line what was
\* appended, whatever edits rewrote, rehashed or relinked it, and although
\* appends went on after them, if no line feed was appended; and an entry
\* without a line feed is the one appended, with its oauthScope (hash.ts).  An
\* edit that puts a line feed in a value may move the next field's line into it
\* unseen.  (verifyChain itself does not look at the head: a tail rewritten up
\* to the end verifies.)
VerifiedIsAppended ==
    /\ verifyArray(entries, 1) = Valid(Len(entries))
    /\ entries # <<>> => entries[Len(entries)].entryHash = head.hash
    /\ \A i \in DOMAIN appended : OneLine(appended[i].body)
    => \A i \in DOMAIN entries :
         /\ canonicalSerialization(entries[i]) = canonicalSerialization(appended[i])
         /\ OneLine(entries[i].body) => entries[i] = appended[i]

\* verifyChain never blames an entry before the first that was edited.  If that
\* edit kept the hash, and no line feed is in what it replaced or put there, it
\* is found and blamed at its place, whatever was edited after it.
BlameIsFair ==
    LET verdict == verifyArray(entries, 1)
        first == Min(Edited)
    IN /\ ~verdict.valid => Edited # {} /\ verdict.toSeq >= first
       /\ /\ Edited # {}
          /\ entries[first].entryHash = appended[first].entryHash
          /\ OneLine(entries[first].body) /\ OneLine(appended[first].body)
          => verdict = BrokenAt(first)

\* Both stores' verifyChain give one verdict from every place of the log,
\* edited or not (memory-store.ts claims the chain protocol of the Postgres
\* store).  From a place past the end both find nothing to blame, and they
\* differ in the place they claim to have reached: the last one, and 0.
VerifiersAgree ==
    /\ \A n \in DOMAIN entries : verifyArray(entries, n) = verifyRows(Range(entries), n)
    /\ \A n \in {Len(entries) + 1, Len(entries) + 2} :
         /\ verifyArray(entries, n) = Valid(Len(entries))
         /\ verifyRows(Range(entries), n) = Valid(0)
==============================================================================
