-------------------------- MODULE MemoryAuditProofs --------------------------
(***************************************************************************)
(* What verifyChain of the in-memory audit store finds of edits, for logs  *)
(* of any length and any number of edits.                                  *)
(***************************************************************************)
EXTENDS MemoryAudit, WellFoundedInduction, TLAPS

\* An entry of the tenant at place i, whatever its hashes are.
EntryAt(e, i) ==
    /\ e = [tenant |-> Tenant, chainSeq |-> i, body |-> e.body,
            prevHash |-> e.prevHash, entryHash |-> e.entryHash]
    /\ e.body \in Bodies

IsLog(log, n) == log = [i \in 1..n |-> log[i]] /\ \A i \in 1..n : EntryAt(log[i], i)

Before(log, i) == IF i = 1 THEN GENESIS_PREV_HASH ELSE log[i - 1].entryHash

Linked(log, i) ==
    /\ log[i].prevHash = Before(log, i)
    /\ log[i].entryHash = computeEntryHash(log[i])

\* What was appended is one chain that ends at the head; what is stored is a
\* log as long, whose hashes may be anything.
LogInv ==
    /\ edits \in 0..MaxEdits
    /\ \E n \in Nat :
         /\ IsLog(entries, n) /\ IsLog(appended, n)
         /\ \A i \in 1..n : Linked(appended, i)
         /\ head = [seq |-> n, hash |-> IF n = 0 THEN GENESIS_PREV_HASH ELSE appended[n].entryHash]

LEMMA LogIsSeq ==
    ASSUME NEW log, NEW n \in Nat, IsLog(log, n)
    PROVE  log \in Seq({log[i] : i \in 1..n}) /\ Len(log) = n /\ DOMAIN log = 1..n
BY DEF IsLog

LEMMA SeqIsFunction ==
    ASSUME NEW S, NEW s \in Seq(S)
    PROVE  s = [i \in 1..Len(s) |-> s[i]]
OBVIOUS

Extends(f, log, e, n) == f[n + 1] = e /\ \A i \in 1..n : f[i] = log[i]

LEMMA EntriesStay ==
    ASSUME NEW log, NEW n \in Nat, IsLog(log, n), NEW e, EntryAt(e, n + 1)
    PROVE  Extends(Append(log, e), log, e, n)
<1>1. log \in Seq({log[i] : i \in 1..n} \cup {e}) /\ Len(log) = n
    BY LogIsSeq DEF IsLog
<1>2. QED
    BY <1>1 DEF Extends

LEMMA LogGrows ==
    ASSUME NEW log, NEW n \in Nat, IsLog(log, n), NEW e, EntryAt(e, n + 1)
    PROVE  IsLog(Append(log, e), n + 1)
<1> DEFINE S == {log[i] : i \in 1..n} \cup {e}
<1>1. log \in Seq(S) /\ Len(log) = n
    BY LogIsSeq DEF IsLog
<1>2. /\ Append(log, e) \in Seq(S)
      /\ Len(Append(log, e)) = n + 1
      /\ \A i \in 1..n : Append(log, e)[i] = log[i]
      /\ Append(log, e)[n + 1] = e
    BY <1>1
<1>3. Append(log, e) = [i \in 1..(n + 1) |-> Append(log, e)[i]]
  <2> HIDE DEF S
  <2>1. QED
    BY <1>2, SeqIsFunction
<1>4. \A i \in 1..(n + 1) : EntryAt(Append(log, e)[i], i)
    BY <1>2 DEF IsLog
<1>5. QED
    BY <1>3, <1>4 DEF IsLog

LEMMA AppendKeeps == ASSUME LogInv, NEW b \in Bodies, Appended(b) PROVE LogInv'
<1> DEFINE e == NextEntry(Tenant, head, b)
<1>1. PICK n \in Nat :
         /\ IsLog(entries, n) /\ IsLog(appended, n)
         /\ \A i \in 1..n : Linked(appended, i)
         /\ head = [seq |-> n, hash |-> IF n = 0 THEN GENESIS_PREV_HASH ELSE appended[n].entryHash]
    BY DEF LogInv
<1>2. /\ EntryAt(e, n + 1)
      /\ e.entryHash = computeEntryHash(e)
      /\ e.prevHash = IF n = 0 THEN GENESIS_PREV_HASH ELSE appended[n].entryHash
    BY <1>1 DEF NextEntry, EntryAt, computeEntryHash, canonicalSerialization, LinesBefore, LinesAfter
<1>3. entries' = Append(entries, e) /\ appended' = Append(appended, e) /\ head' = HeadAfter(e)
    BY DEF Appended
<1>4. IsLog(entries', n + 1) /\ IsLog(appended', n + 1)
    BY <1>1, <1>2, <1>3, LogGrows
<1>5. appended'[n + 1] = e /\ \A i \in 1..n : appended'[i] = appended[i]
  <2>1. Extends(Append(appended, e), appended, e, n)
      BY <1>1, <1>2, EntriesStay
  <2>2. Extends(appended', appended, e, n)
      BY <1>3, <2>1
  <2>3. QED
      BY <2>2 DEF Extends
<1>6. \A i \in 1..(n + 1) : Linked(appended', i)
    BY <1>1, <1>2, <1>5 DEF Linked, Before
<1>7. head' = [seq |-> n + 1, hash |-> appended'[n + 1].entryHash]
    BY <1>2, <1>3, <1>5 DEF HeadAfter, EntryAt
<1>8. edits' \in 0..MaxEdits
    BY DEF Appended, LogInv
<1>9. QED
    BY <1>4, <1>6, <1>7, <1>8 DEF LogInv

LEMMA BodyRewritten ==
    ASSUME NEW e, NEW i, EntryAt(e, i), NEW b \in Bodies
    PROVE  EntryAt([e EXCEPT !.body = b], i)
BY DEF EntryAt

LEMMA LinkRewritten ==
    ASSUME NEW e, NEW i, EntryAt(e, i), NEW l
    PROVE  EntryAt([e EXCEPT !.prevHash = l], i)
BY DEF EntryAt

LEMMA RewrittenStaysInPlace ==
    ASSUME NEW e, NEW i, EntryAt(e, i), NEW b \in Bodies, NEW l
    PROVE  EntryAt([e EXCEPT !.body = b, !.prevHash = l], i)
<1>1. [e EXCEPT !.body = b, !.prevHash = l] = [[e EXCEPT !.body = b] EXCEPT !.prevHash = l]
    OBVIOUS
<1>2. EntryAt([e EXCEPT !.body = b], i)
    BY BodyRewritten
<1>3. QED
    BY <1>1, <1>2, LinkRewritten

LEMMA TamperKeeps == ASSUME LogInv, NEW i \in DOMAIN entries, Tampers(i) PROVE LogInv'
<1>1. PICK n \in Nat :
         /\ IsLog(entries, n) /\ IsLog(appended, n)
         /\ \A j \in 1..n : Linked(appended, j)
         /\ head = [seq |-> n, hash |-> IF n = 0 THEN GENESIS_PREV_HASH ELSE appended[n].entryHash]
    BY DEF LogInv
<1>2. PICK b \in Bodies, rehash \in BOOLEAN, relink \in BOOLEAN :
         entries' = [entries EXCEPT ![i] = Edit(i, b, rehash, relink)]
    BY DEF Tampers
<1>3. i \in 1..n
    BY <1>1 DEF IsLog
<1>4. EntryAt(Edit(i, b, rehash, relink), i)
  <2> DEFINE link == IF relink /\ i > 1 THEN entries[i - 1].entryHash ELSE entries[i].prevHash
             edited == [entries[i] EXCEPT !.body = b, !.prevHash = link]
             hashed == [edited EXCEPT !.entryHash = computeEntryHash(edited)]
  <2>1. EntryAt(entries[i], i)
    BY <1>1, <1>3 DEF IsLog
  <2>2. EntryAt(edited, i)
    BY <2>1, RewrittenStaysInPlace
  <2>3. EntryAt(hashed, i)
    <3> HIDE DEF edited
    <3>1. QED
      BY <2>2 DEF EntryAt
  <2>4. Edit(i, b, rehash, relink) = IF rehash THEN hashed ELSE edited
    BY DEF Edit
  <2>5. QED
    BY <2>2, <2>3, <2>4
<1>5. IsLog(entries', n)
    BY <1>1, <1>2, <1>3, <1>4 DEF IsLog
<1>6. edits' \in 0..MaxEdits
    BY MemoryAssumption DEF Tampers, LogInv
<1>7. QED
    BY <1>1, <1>5, <1>6 DEF Tampers, LogInv

\* The inductive invariant of the store and whoever edits it.
THEOREM Invariance == Spec => []LogInv
<1>1. Init => LogInv
  <2> SUFFICES ASSUME Init PROVE LogInv
      OBVIOUS
  <2>1. IsLog(entries, 0) /\ IsLog(appended, 0)
      BY DEF Init, IsLog
  <2>2. head = [seq |-> 0, hash |-> GENESIS_PREV_HASH] /\ edits \in 0..MaxEdits
      BY MemoryAssumption DEF Init, NoHead
  <2>3. QED
      BY <2>1, <2>2 DEF LogInv
<1>2. LogInv /\ [Next]_vars => LogInv'
  <2> SUFFICES ASSUME LogInv, [Next]_vars PROVE LogInv'
      OBVIOUS
  <2>1. CASE UNCHANGED vars
      BY <2>1 DEF vars, LogInv
  <2>2. QED
      BY <2>1, AppendKeeps, TamperKeeps DEF Next
<1>3. QED
    BY <1>1, <1>2, PTL DEF Spec

\* Stored and appended entries keep their places, and the head its count.
THEOREM TypeCorrect == Spec => []TypeOK
<1>1. LogInv => TypeOK
  <2> SUFFICES ASSUME LogInv PROVE TypeOK
      OBVIOUS
  <2>1. PICK n \in Nat : IsLog(entries, n) /\ IsLog(appended, n) /\ head.seq = n
      BY DEF LogInv
  <2>2. Len(entries) = n /\ Len(appended) = n /\ DOMAIN entries = 1..n
      BY <2>1, LogIsSeq
  <2>3. \A i \in 1..n : EntryAt(entries[i], i) /\ EntryAt(appended[i], i)
      BY <2>1 DEF IsLog
  <2>4. QED
      BY <2>1, <2>2, <2>3 DEF TypeOK, LogInv, EntryAt
<1>2. QED
    BY <1>1, Invariance, PTL

----------------------------------------------------------------------------
\* verifyChain.

Broken == {i \in 1..Len(entries) : ~Linked(entries, i)}

LEMMA VerdictIs ==
    verifyArray(entries, 1) =
        IF entries = <<>> THEN Valid(0)
        ELSE IF Broken # {} THEN BrokenAt(entries[Min(Broken)].chainSeq)
        ELSE Valid(entries[Len(entries)].chainSeq)
<1> DEFINE prev(i) == IF i > 1 THEN entries[i - 1].entryHash
                      ELSE IF 1 = 1 \/ 1 - 1 > Len(entries)
                           THEN GENESIS_PREV_HASH ELSE entries[1 - 1].entryHash
           B == {i \in 1..Len(entries) :
                    \/ entries[i].prevHash # prev(i)
                    \/ entries[i].entryHash # computeEntryHash(entries[i])}
<1>1. \A i \in 1..Len(entries) : prev(i) = Before(entries, i)
    BY DEF Before
<1>2. B = Broken
    BY <1>1 DEF Broken, Linked
<1>3. verifyArray(entries, 1) =
        IF entries = <<>> THEN Valid(0)
        ELSE IF B # {} THEN BrokenAt(entries[Min(B)].chainSeq)
        ELSE Valid(entries[Len(entries)].chainSeq)
    BY DEF verifyArray
<1>4. QED
    BY <1>2, <1>3

\* The lines an entry without line feeds is serialized to, as a set: each key
\* has at most one.
SaidBy(e) ==
    {<<key, e.body[key].text>> : key \in DOMAIN e.body}
        \cup {<<"tenantId", e.tenant>>, <<"chainSeq", e.chainSeq>>, <<"prevHash", e.prevHash>>}

LEMMA LinesJoin ==
    ASSUME NEW S, NEW s \in Seq(S), NEW t \in Seq(S)
    PROVE  s \o t \in Seq(S) /\ Range(s \o t) = Range(s) \cup Range(t)
<1>1. s \o t \in Seq(S) /\ Len(s \o t) = Len(s) + Len(t)
    OBVIOUS
<1>2. \A i \in 1..Len(s) : (s \o t)[i] = s[i]
    OBVIOUS
<1>3. \A i \in 1..Len(t) : (s \o t)[Len(s) + i] = t[i]
    OBVIOUS
<1>4. DOMAIN s = 1..Len(s) /\ DOMAIN t = 1..Len(t) /\ DOMAIN (s \o t) = 1..(Len(s) + Len(t))
    OBVIOUS
<1>5. Len(s) \in Nat /\ Len(t) \in Nat
    OBVIOUS
<1>6. Range(s) \cup Range(t) \subseteq Range(s \o t)
  <2>1. \A i \in 1..Len(t) : Len(s) + i \in 1..(Len(s) + Len(t))
      BY <1>5
  <2>2. \A i \in 1..Len(s) : i \in 1..(Len(s) + Len(t))
      BY <1>5
  <2>3. QED
      BY <1>2, <1>3, <1>4, <2>1, <2>2 DEF Range
<1>7. Range(s \o t) \subseteq Range(s) \cup Range(t)
  <2>1. SUFFICES ASSUME NEW i \in 1..(Len(s) + Len(t))
                 PROVE  (s \o t)[i] \in Range(s) \cup Range(t)
      BY <1>4 DEF Range
  <2>2. CASE i \in 1..Len(s)
      BY <1>2, <1>4, <2>2 DEF Range
  <2>3. CASE i \notin 1..Len(s)
    <3>1. i - Len(s) \in 1..Len(t) /\ Len(s) + (i - Len(s)) = i
        BY <1>5, <2>3
    <3>2. (s \o t)[i] = t[i - Len(s)]
        BY <1>3, <3>1
    <3>3. QED
        BY <1>4, <3>1, <3>2 DEF Range
  <2>4. QED
      BY <2>2, <2>3
<1>8. QED
    BY <1>1, <1>6, <1>7

LEMMA OneLineIs ==
    ASSUME NEW S, NEW x \in S
    PROVE  <<x>> \in Seq(S) /\ Range(<<x>>) = {x}
<1>1. <<x>> \in Seq(S) /\ DOMAIN <<x>> = 1..1 /\ <<x>>[1] = x
    OBVIOUS
<1>2. QED
    BY <1>1 DEF Range

LEMMA TwoLinesAre ==
    ASSUME NEW S, NEW x \in S, NEW y \in S
    PROVE  <<x, y>> \in Seq(S) /\ Range(<<x, y>>) = {x, y}
<1>1. <<x, y>> \in Seq(S) /\ DOMAIN <<x, y>> = 1..2 /\ <<x, y>>[1] = x /\ <<x, y>>[2] = y
    OBVIOUS
<1>2. QED
    BY <1>1 DEF Range

LEMMA FieldIsLines ==
    ASSUME NEW b, IsBody(b), NEW key, NEW S, Lines \subseteq S,
           key \in DOMAIN b => <<key, b[key].text>> \in S
    PROVE  /\ FieldLines(b, key) \in Seq(S)
           /\ OneLine(b) => Range(FieldLines(b, key))
                              = IF key \in DOMAIN b THEN {<<key, b[key].text>>} ELSE {}
<1>1. CASE key \notin DOMAIN b
  <2>1. FieldLines(b, key) = <<>>
      BY <1>1 DEF FieldLines
  <2>2. <<>> \in Seq(S) /\ Range(<<>>) = {}
      BY DEF Range
  <2>3. QED
      BY <1>1, <2>1, <2>2
<1>2. CASE key \in DOMAIN b
  <2> DEFINE line == <<key, b[key].text>>
  <2>1. FieldLines(b, key) = <<line>> \o b[key].more
      BY <1>2 DEF FieldLines
  <2>2. b[key].more \in Seq(S)
    <3>1. b[key].more \in Seq(Lines)
        BY <1>2 DEF IsBody
    <3>2. QED
        BY <3>1
  <2> HIDE DEF line
  <2>3. line \in S
      BY <1>2 DEF line
  <2>4. <<line>> \in Seq(S) /\ Range(<<line>>) = {line}
      BY <2>3, OneLineIs
  <2>5. /\ <<line>> \o b[key].more \in Seq(S)
        /\ Range(<<line>> \o b[key].more) = Range(<<line>>) \cup Range(b[key].more)
    <3> DEFINE first == <<line>>
               more == b[key].more
    <3>1. first \in Seq(S) /\ more \in Seq(S)
        BY <2>2, <2>4
    <3> HIDE DEF first, more
    <3>2. first \o more \in Seq(S) /\ Range(first \o more) = Range(first) \cup Range(more)
        BY <3>1, LinesJoin
    <3>3. QED
        BY <3>2 DEF first, more
  <2>6. OneLine(b) => Range(b[key].more) = {}
    <3>1. OneLine(b) => b[key].more = <<>>
        BY <1>2 DEF OneLine
    <3>2. Range(<<>>) = {}
        BY DEF Range
    <3>3. QED
        BY <3>1, <3>2
  <2>7. QED
      BY <1>2, <2>1, <2>4, <2>5, <2>6 DEF line
<1>3. QED
    BY <1>1, <1>2

\* What an entry is serialized to: its prevHash has a line, and where no value
\* has a line feed there is a line for each field and no other.
LEMMA SerializedAs ==
    ASSUME NEW e, NEW i, EntryAt(e, i)
    PROVE  /\ <<"prevHash", e.prevHash>> \in Range(canonicalSerialization(e))
           /\ OneLine(e.body) => Range(canonicalSerialization(e)) = SaidBy(e)
<1> DEFINE S == Lines \cup SaidBy(e)
           F(key) == FieldLines(e.body, key)
           R(key) == IF key \in DOMAIN e.body THEN {<<key, e.body[key].text>>} ELSE {}
           link == <<"prevHash", e.prevHash>>
           place == <<<<"tenantId", e.tenant>>, <<"chainSeq", e.chainSeq>>>>
<1>1. IsBody(e.body)
    BY MemoryAssumption DEF EntryAt
<1>2. \A key : F(key) \in Seq(S) /\ (OneLine(e.body) => Range(F(key)) = R(key))
  <2>1. \A key : key \in DOMAIN e.body => <<key, e.body[key].text>> \in S
      BY DEF SaidBy
  <2> HIDE DEF S
  <2>2. Lines \subseteq S
      BY DEF S
  <2>3. QED
      BY <1>1, <2>1, <2>2, FieldIsLines
<1>3. <<link>> \in Seq(S) /\ Range(<<link>>) = {link}
  <2>1. link \in S
      BY DEF SaidBy
  <2> HIDE DEF S, link
  <2>2. QED
      BY <2>1, OneLineIs
<1>4. place \in Seq(S) /\ Range(place) = {<<"tenantId", e.tenant>>, <<"chainSeq", e.chainSeq>>}
  <2>1. <<"tenantId", e.tenant>> \in S /\ <<"chainSeq", e.chainSeq>> \in S
      BY DEF SaidBy
  <2> HIDE DEF S
  <2>2. QED
      BY <2>1, TwoLinesAre
<1>5. /\ LinesBefore(e) = F("entryId") \o place \o F("planId") \o F("traceId")
      /\ LinesAfter(e) = F("blobRef") \o F("oauthScope")
      /\ canonicalSerialization(e) = LinesBefore(e) \o <<link>> \o LinesAfter(e)
    BY DEF LinesBefore, LinesAfter, canonicalSerialization
<1> HIDE DEF S, F, link, place
<1>6. /\ LinesBefore(e) \in Seq(S)
      /\ Range(LinesBefore(e)) = Range(F("entryId")) \cup Range(place)
                                   \cup Range(F("planId")) \cup Range(F("traceId"))
  <2> DEFINE s1 == F("entryId") \o place
             s2 == s1 \o F("planId")
  <2>1. LinesBefore(e) = s2 \o F("traceId")
      BY <1>5
  <2>2. s1 \in Seq(S) /\ Range(s1) = Range(F("entryId")) \cup Range(place)
      BY <1>2, <1>4, LinesJoin
  <2> HIDE DEF s1
  <2>3. s2 \in Seq(S) /\ Range(s2) = Range(s1) \cup Range(F("planId"))
      BY <1>2, <2>2, LinesJoin
  <2> HIDE DEF s2
  <2>4. s2 \o F("traceId") \in Seq(S) /\ Range(s2 \o F("traceId")) = Range(s2) \cup Range(F("traceId"))
      BY <1>2, <2>3, LinesJoin
  <2>5. QED
      BY <2>1, <2>2, <2>3, <2>4
<1>7. /\ LinesAfter(e) \in Seq(S)
      /\ Range(LinesAfter(e)) = Range(F("blobRef")) \cup Range(F("oauthScope"))
    BY <1>2, <1>5, LinesJoin
<1>8. Range(canonicalSerialization(e)) = Range(LinesBefore(e)) \cup {link} \cup Range(LinesAfter(e))
  <2> DEFINE s1 == LinesBefore(e)
             s2 == <<link>>
             s3 == LinesAfter(e)
             s4 == s1 \o s2
  <2>1. canonicalSerialization(e) = s4 \o s3
      BY <1>5
  <2>2. s1 \in Seq(S) /\ s2 \in Seq(S) /\ s3 \in Seq(S) /\ Range(s2) = {link}
      BY <1>3, <1>6, <1>7
  <2> HIDE DEF s1, s2, s3
  <2>3. s4 \in Seq(S) /\ Range(s4) = Range(s1) \cup Range(s2)
      BY <2>2, LinesJoin
  <2> HIDE DEF s4
  <2>4. Range(s4 \o s3) = Range(s4) \cup Range(s3)
      BY <2>2, <2>3, LinesJoin
  <2>5. QED
      BY <2>1, <2>2, <2>3, <2>4 DEF s1, s3
<1>9. ASSUME OneLine(e.body) PROVE Range(canonicalSerialization(e)) = SaidBy(e)
  <2>1. Range(canonicalSerialization(e))
          = R("entryId") \cup R("planId") \cup R("traceId") \cup R("blobRef") \cup R("oauthScope")
              \cup {<<"tenantId", e.tenant>>, <<"chainSeq", e.chainSeq>>} \cup {link}
      BY <1>2, <1>4, <1>6, <1>7, <1>8, <1>9
  <2>2. \A x : (\E key \in DOMAIN e.body : x = <<key, e.body[key].text>>)
                 <=> x \in R("entryId") \cup R("planId") \cup R("traceId")
                             \cup R("blobRef") \cup R("oauthScope")
    <3>1. DOMAIN e.body \subseteq {"entryId", "planId", "traceId", "blobRef", "oauthScope"}
        BY <1>1 DEF IsBody, Required, Optional
    <3>2. QED
        BY <3>1
  <2>3. {<<key, e.body[key].text>> : key \in DOMAIN e.body}
          = R("entryId") \cup R("planId") \cup R("traceId") \cup R("blobRef") \cup R("oauthScope")
      BY <2>2
  <2>4. QED
      BY <2>1, <2>3 DEF SaidBy, link
<1>10. QED
    BY <1>8, <1>9 DEF link

\* Entries that serialize alike, one of them without line feeds, link alike.
LEMMA SameLink ==
    ASSUME NEW e, NEW f, NEW i, EntryAt(e, i), EntryAt(f, i), OneLine(f.body),
           canonicalSerialization(e) = canonicalSerialization(f)
    PROVE  e.prevHash = f.prevHash
<1>1. <<"prevHash", e.prevHash>> \in SaidBy(f)
    BY SerializedAs
<1>2. DOMAIN f.body \subseteq {"entryId", "planId", "traceId", "blobRef", "oauthScope"}
    BY MemoryAssumption DEF EntryAt, IsBody, Required, Optional
<1>3. PICK x \in SaidBy(f) : x = <<"prevHash", e.prevHash>>
    BY <1>1
<1>4. CASE \E key \in DOMAIN f.body : x = <<key, f.body[key].text>>
    BY <1>2, <1>3, <1>4
<1>5. CASE x \in {<<"tenantId", f.tenant>>, <<"chainSeq", f.chainSeq>>, <<"prevHash", f.prevHash>>}
    BY <1>3, <1>5
<1>6. QED
    BY <1>4, <1>5 DEF SaidBy

LEMMA SaysNoMore ==
    ASSUME NEW e, NEW f, SaidBy(e) = SaidBy(f), IsBody(e.body), IsBody(f.body),
           NEW key \in DOMAIN e.body
    PROVE  key \in DOMAIN f.body /\ f.body[key].text = e.body[key].text
<1>1. DOMAIN e.body \subseteq {"entryId", "planId", "traceId", "blobRef", "oauthScope"}
    BY DEF IsBody, Required, Optional
<1>2. <<key, e.body[key].text>> \in SaidBy(f)
    BY DEF SaidBy
<1>3. PICK x \in SaidBy(f) : x = <<key, e.body[key].text>>
    BY <1>2
<1>4. x \notin {<<"tenantId", f.tenant>>, <<"chainSeq", f.chainSeq>>, <<"prevHash", f.prevHash>>}
    BY <1>1, <1>3
<1>5. PICK k \in DOMAIN f.body : x = <<k, f.body[k].text>>
    BY <1>4 DEF SaidBy
<1>6. k = key /\ f.body[k].text = e.body[key].text
    BY <1>3, <1>5
<1>7. QED
    BY <1>5, <1>6

\* Entries of one place without line feeds that serialize and are hashed alike
\* are one entry.
LEMMA SameEntry ==
    ASSUME NEW e, NEW f, NEW i, EntryAt(e, i), EntryAt(f, i), OneLine(e.body), OneLine(f.body),
           canonicalSerialization(e) = canonicalSerialization(f), e.entryHash = f.entryHash
    PROVE  e = f
<1>1. e.prevHash = f.prevHash
    BY SameLink
<1>2. IsBody(e.body) /\ IsBody(f.body) /\ SaidBy(e) = SaidBy(f)
    BY MemoryAssumption, SerializedAs DEF EntryAt
<1>3. \A key \in DOMAIN e.body : key \in DOMAIN f.body /\ f.body[key].text = e.body[key].text
    BY <1>2, SaysNoMore
<1>4. \A key \in DOMAIN f.body : key \in DOMAIN e.body
    BY <1>2, SaysNoMore
<1>5. DOMAIN e.body = DOMAIN f.body
    BY <1>3, <1>4
<1>6. /\ e.body = [key \in DOMAIN e.body |-> [text |-> e.body[key].text, more |-> e.body[key].more]]
      /\ f.body = [key \in DOMAIN f.body |-> [text |-> f.body[key].text, more |-> f.body[key].more]]
    BY <1>2 DEF IsBody
<1>7. \A key \in DOMAIN e.body : e.body[key].more = <<>> /\ f.body[key].more = <<>>
    BY <1>5 DEF OneLine
<1>8. e.body = f.body
    BY <1>3, <1>5, <1>6, <1>7
<1>9. QED
    BY <1>1, <1>8 DEF EntryAt

LEMMA LeastOf == ASSUME NEW S \in SUBSET Nat, S # {} PROVE Min(S) \in S /\ \A j \in S : Min(S) <= j
<1>1. PICK i \in S : \A j \in S : <<j, i>> \notin OpToRel(<, Nat)
    BY NatLessThanWellFounded, WFMin, Zenon
<1>2. \A j \in S : ~(j < i)
    BY <1>1 DEF OpToRel
<1>3. i \in S /\ \A j \in S : i =< j
    BY <1>2
<1>4. QED
    BY <1>3 DEF Min

LEMMA LastOf ==
    ASSUME NEW n \in Nat, NEW S \in SUBSET (1..n), S # {}
    PROVE  \E k \in S : \A j \in S : j <= k
<1> DEFINE fromEnd == {n - i : i \in S}
<1>1. fromEnd \in SUBSET Nat /\ fromEnd # {}
  <2>1. \A i \in S : n - i \in Nat
      OBVIOUS
  <2>2. QED
      BY <2>1
<1>2. Min(fromEnd) \in fromEnd /\ \A j \in fromEnd : Min(fromEnd) <= j
    BY <1>1, LeastOf
<1>3. PICK k \in S : Min(fromEnd) = n - k
    BY <1>2
<1>4. \A j \in S : n - k <= n - j
    BY <1>2, <1>3
<1>5. QED
    BY <1>4

\* In a state of the store: its length, and what the walk blames.
LEMMA Walked ==
    ASSUME LogInv
    PROVE  \E n \in Nat :
             /\ IsLog(entries, n) /\ IsLog(appended, n)
             /\ Len(entries) = n /\ DOMAIN entries = 1..n
             /\ \A i \in 1..n : Linked(appended, i)
             /\ n # 0 => head.hash = appended[n].entryHash
             /\ Broken \in SUBSET (1..n) /\ Edited \in SUBSET (1..n)
             /\ Broken = {} => verifyArray(entries, 1) = Valid(n)
             /\ Broken # {} => /\ verifyArray(entries, 1) = BrokenAt(Min(Broken))
                               /\ Min(Broken) \in Broken
                               /\ \A j \in Broken : Min(Broken) <= j
<1>1. PICK n \in Nat :
         /\ IsLog(entries, n) /\ IsLog(appended, n)
         /\ \A i \in 1..n : Linked(appended, i)
         /\ head = [seq |-> n, hash |-> IF n = 0 THEN GENESIS_PREV_HASH ELSE appended[n].entryHash]
    BY DEF LogInv
<1>2. Len(entries) = n /\ DOMAIN entries = 1..n /\ (entries = <<>> <=> n = 0)
  <2>1. Len(entries) = n /\ DOMAIN entries = 1..n
      BY <1>1, LogIsSeq
  <2>2. entries = [i \in 1..n |-> entries[i]]
      BY <1>1 DEF IsLog
  <2>3. n = 0 => entries = <<>>
      BY <2>2
  <2>4. entries = <<>> => n = 0
      BY <2>1
  <2>5. QED
      BY <2>1, <2>3, <2>4
<1>3. Broken \in SUBSET (1..n) /\ Edited \in SUBSET (1..n)
    BY <1>2 DEF Broken, Edited
<1>4. \A i \in 1..n : entries[i].chainSeq = i
    BY <1>1 DEF IsLog, EntryAt
<1>5. Broken = {} => verifyArray(entries, 1) = Valid(n)
    BY <1>2, <1>4, VerdictIs
<1>6. ASSUME Broken # {}
      PROVE  /\ verifyArray(entries, 1) = BrokenAt(Min(Broken))
             /\ Min(Broken) \in Broken
             /\ \A j \in Broken : Min(Broken) <= j
  <2>1. Min(Broken) \in Broken /\ \A j \in Broken : Min(Broken) <= j
      BY <1>3, <1>6, LeastOf
  <2>2. Min(Broken) \in 1..n
      BY <1>3, <2>1
  <2>3. entries[Min(Broken)].chainSeq = Min(Broken) /\ entries # <<>>
    <3> DEFINE m == Min(Broken)
    <3>1. m \in 1..n
        BY <2>2
    <3> HIDE DEF m
    <3>2. entries[m].chainSeq = m /\ entries # <<>>
        BY <1>2, <1>4, <3>1
    <3>3. QED
        BY <3>2 DEF m
  <2>4. QED
      BY <1>6, <2>1, <2>3, VerdictIs
<1>7. n # 0 => head.hash = appended[n].entryHash
    BY <1>1
<1>8. QED
    BY <1>1, <1>2, <1>3, <1>5, <1>6, <1>7

\* Where a stored entry and its predecessor are as appended, the walk goes on.
LEMMA UneditedIsLinked ==
    ASSUME NEW n \in Nat, NEW i \in 1..n, Linked(appended, i),
           entries[i] = appended[i], i > 1 => entries[i - 1] = appended[i - 1]
    PROVE  Linked(entries, i)
BY DEF Linked, Before

\* Where a log verifies, ends in the head's hash and was appended without line
\* feeds, no hash differs from the appended one: the last that did would be what
\* the next entry links to, whose hash, so whose line for prevHash, is as
\* appended.
LEMMA HashesAsAppended ==
    ASSUME NEW n \in Nat, IsLog(entries, n), IsLog(appended, n),
           \A i \in 1..n : Linked(entries, i) /\ Linked(appended, i),
           \A i \in 1..n : OneLine(appended[i].body),
           n # 0 => entries[n].entryHash = appended[n].entryHash
    PROVE  \A i \in 1..n : entries[i].entryHash = appended[i].entryHash
<1> DEFINE differs == {i \in 1..n : entries[i].entryHash # appended[i].entryHash}
<1>1. SUFFICES ASSUME differs # {} PROVE FALSE
    OBVIOUS
<1>2. PICK k \in differs : \A j \in differs : j <= k
    BY <1>1, LastOf
<1>3. k \in 1..n /\ k # n /\ k + 1 \in 1..n /\ k + 1 \notin differs
    BY <1>2
<1>4. entries[k + 1].entryHash = appended[k + 1].entryHash
    BY <1>3
<1>5. canonicalSerialization(entries[k + 1]) = canonicalSerialization(appended[k + 1])
    BY <1>3, <1>4 DEF Linked, computeEntryHash
<1>6. EntryAt(entries[k + 1], k + 1) /\ EntryAt(appended[k + 1], k + 1)
    BY <1>3 DEF IsLog
<1>7. entries[k + 1].prevHash = appended[k + 1].prevHash
    BY <1>3, <1>5, <1>6, SameLink
<1>8. Before(entries, k + 1) = entries[k].entryHash /\ Before(appended, k + 1) = appended[k].entryHash
    BY <1>3 DEF Before
<1>9. entries[k].entryHash = appended[k].entryHash
    BY <1>3, <1>7, <1>8 DEF Linked
<1>10. QED
    BY <1>2, <1>9

\* What verifies and ends in the head's hash says line by line what was
\* appended, if no line feed was, and an entry without line feeds is the
\* appended one.
THEOREM VerifiedIsTrue == Spec => []VerifiedIsAppended
<1>1. LogInv => VerifiedIsAppended
  <2> SUFFICES ASSUME LogInv, verifyArray(entries, 1) = Valid(Len(entries)),
                      entries # <<>> => entries[Len(entries)].entryHash = head.hash,
                      \A i \in DOMAIN appended : OneLine(appended[i].body),
                      NEW i \in DOMAIN entries
               PROVE  /\ canonicalSerialization(entries[i]) = canonicalSerialization(appended[i])
                      /\ OneLine(entries[i].body) => entries[i] = appended[i]
      BY DEF VerifiedIsAppended
  <2>1. PICK n \in Nat :
             /\ IsLog(entries, n) /\ IsLog(appended, n)
             /\ Len(entries) = n /\ DOMAIN entries = 1..n
             /\ \A j \in 1..n : Linked(appended, j)
             /\ n # 0 => head.hash = appended[n].entryHash
             /\ Broken # {} => verifyArray(entries, 1) = BrokenAt(Min(Broken))
      BY Walked
  <2>2. Broken = {}
      BY <2>1 DEF Valid, BrokenAt
  <2>3. \A j \in 1..n : Linked(entries, j)
      BY <2>1, <2>2 DEF Broken
  <2>4. i \in 1..n /\ entries # <<>> /\ DOMAIN appended = 1..n
      BY <2>1 DEF IsLog
  <2>5. \A j \in 1..n : entries[j].entryHash = appended[j].entryHash
    <3>1. entries[n].entryHash = appended[n].entryHash
        BY <2>1, <2>4
    <3>2. QED
        BY <2>1, <2>3, <2>4, <3>1, HashesAsAppended
  <2>6. entries[i].entryHash = appended[i].entryHash
      BY <2>4, <2>5
  <2>7. canonicalSerialization(entries[i]) = canonicalSerialization(appended[i])
      BY <2>1, <2>3, <2>4, <2>6 DEF Linked, computeEntryHash
  <2>8. EntryAt(entries[i], i) /\ EntryAt(appended[i], i)
      BY <2>1, <2>4 DEF IsLog
  <2>9. QED
      BY <2>4, <2>6, <2>7, <2>8, SameEntry
<1>2. QED
    BY <1>1, Invariance, PTL

\* The walk stops at the first edited entry or after it, and at that entry when
\* its hash was left as it was and no line feed is in it or in the appended one.
THEOREM BlamesFairly == Spec => []BlameIsFair
<1>1. LogInv => BlameIsFair
  <2> SUFFICES ASSUME LogInv PROVE BlameIsFair
      OBVIOUS
  <2>1. PICK n \in Nat :
             /\ IsLog(entries, n) /\ IsLog(appended, n)
             /\ Len(entries) = n /\ DOMAIN entries = 1..n
             /\ \A i \in 1..n : Linked(appended, i)
             /\ Broken \in SUBSET (1..n) /\ Edited \in SUBSET (1..n)
             /\ Broken = {} => verifyArray(entries, 1) = Valid(n)
             /\ Broken # {} => /\ verifyArray(entries, 1) = BrokenAt(Min(Broken))
                               /\ Min(Broken) \in Broken
                               /\ \A j \in Broken : Min(Broken) <= j
      BY Walked
  <2> DEFINE m == Min(Broken)
             e == Min(Edited)
  <2>2. ASSUME Broken # {} PROVE m \in 1..n /\ Edited # {} /\ e \in 1..n /\ m >= e
    <3>1. m \in Broken /\ m \in 1..n
        BY <2>1, <2>2
    <3>2. m \in Edited \/ (m > 1 /\ m - 1 \in Edited)
      <4>1. SUFFICES ASSUME m \notin Edited, m > 1 => m - 1 \notin Edited PROVE FALSE
          OBVIOUS
      <4>2. entries[m] = appended[m] /\ (m > 1 => entries[m - 1] = appended[m - 1])
          BY <2>1, <3>1, <4>1 DEF Edited
      <4>3. Linked(entries, m)
        <5>1. Linked(appended, m)
            BY <2>1, <3>1
        <5> HIDE DEF m
        <5>2. QED
            BY <3>1, <4>2, <5>1, UneditedIsLinked
      <4>4. QED
          BY <3>1, <4>3 DEF Broken
    <3>3. e \in Edited /\ \A j \in Edited : e <= j
        BY <2>1, <3>2, LeastOf
    <3>4. e \in 1..n /\ (e <= m \/ e <= m - 1)
        BY <2>1, <3>2, <3>3
    <3> HIDE DEF m, e
    <3>5. QED
        BY <3>1, <3>2, <3>4
  <2>3. ASSUME ~verifyArray(entries, 1).valid
        PROVE  Edited # {} /\ verifyArray(entries, 1).toSeq >= e
    <3>1. Broken # {}
        BY <2>1, <2>3 DEF Valid
    <3>2. verifyArray(entries, 1).toSeq = m
        BY <2>1, <3>1 DEF BrokenAt
    <3>3. QED
        BY <2>2, <3>1, <3>2
  <2>4. ASSUME Edited # {}, entries[e].entryHash = appended[e].entryHash,
               OneLine(entries[e].body), OneLine(appended[e].body)
        PROVE  verifyArray(entries, 1) = BrokenAt(e)
    <3>1. e \in Edited
        BY <2>1, <2>4, LeastOf
    <3>2. e \in 1..n /\ entries[e] # appended[e]
        BY <2>1, <3>1 DEF Edited
    <3>3. EntryAt(entries[e], e) /\ EntryAt(appended[e], e)
        BY <2>1, <3>2 DEF IsLog
    <3>4. appended[e].entryHash = computeEntryHash(appended[e])
        BY <2>1, <3>2 DEF Linked
    <3>5. ~Linked(entries, e)
      <4>1. SUFFICES ASSUME Linked(entries, e) PROVE FALSE
          OBVIOUS
      <4>2. canonicalSerialization(entries[e]) = canonicalSerialization(appended[e])
          BY <2>4, <3>4, <4>1 DEF Linked, computeEntryHash
      <4> HIDE DEF e
      <4>3. QED
          BY <2>4, <3>2, <3>3, <4>2, SameEntry
    <3>6. e \in Broken
        BY <2>1, <3>2, <3>5 DEF Broken
    <3>7. m <= e /\ m >= e /\ m \in 1..n /\ verifyArray(entries, 1) = BrokenAt(m)
        BY <2>1, <2>2, <3>6
    <3> HIDE DEF m, e
    <3>8. m = e
        BY <3>2, <3>7
    <3>9. QED
        BY <3>7, <3>8
  <2>5. QED
      BY <2>3, <2>4 DEF BlameIsFair
<1>2. QED
    BY <1>1, Invariance, PTL

----------------------------------------------------------------------------
\* Both walks find the same link before an entry, so they stop at the same one.

LEMMA GreatestIs ==
    ASSUME NEW n \in Nat, NEW S \in SUBSET (1..n), n \in S
    PROVE  Max(S) = n
<1> DEFINE m == CHOOSE x \in S : \A y \in S : x >= y
<1>1. \A y \in S : n >= y
    OBVIOUS
<1>2. m \in S /\ \A y \in S : m >= y
    BY <1>1
<1>3. \A x \in S : (\A y \in S : x >= y) => x = n
    OBVIOUS
<1>4. m = n
    BY <1>2, <1>3
<1>5. QED
    BY <1>4 DEF Max

LEMMA WalksAgree ==
    ASSUME NEW n \in Nat, IsLog(entries, n), NEW fromSeq \in 1..n
    PROVE  verifyArray(entries, fromSeq) = verifyRows(Range(entries), fromSeq)
<1> DEFINE rows == Range(entries)
           walked == {r \in rows : r.chainSeq >= fromSeq}
           before(r) == {q \in walked : q.chainSeq < r.chainSeq}
           first == {q.entryHash : q \in {p \in rows : p.chainSeq = fromSeq - 1}}
           last(r) == CHOOSE q \in before(r) : \A p \in before(r) : p.chainSeq <= q.chainSeq
           prevRow(r) == IF before(r) # {} THEN last(r).entryHash
                         ELSE IF fromSeq = 1 \/ first = {} THEN GENESIS_PREV_HASH
                                                           ELSE CHOOSE h \in first : TRUE
           brokenRows == {r \in walked : r.prevHash # prevRow(r)
                                         \/ r.entryHash # computeEntryHash(r)}
           prev(i) == IF i > fromSeq THEN entries[i - 1].entryHash
                      ELSE IF fromSeq = 1 \/ fromSeq - 1 > Len(entries)
                           THEN GENESIS_PREV_HASH ELSE entries[fromSeq - 1].entryHash
           broken == {i \in fromSeq..Len(entries) :
                        \/ entries[i].prevHash # prev(i)
                        \/ entries[i].entryHash # computeEntryHash(entries[i])}
<1>1. Len(entries) = n /\ DOMAIN entries = 1..n /\ entries # <<>>
  <2>1. Len(entries) = n /\ DOMAIN entries = 1..n
      BY LogIsSeq
  <2>2. QED
      BY <2>1
<1>2. rows = {entries[i] : i \in 1..n} /\ \A i \in 1..n : entries[i].chainSeq = i
    BY <1>1 DEF Range, IsLog, EntryAt
<1>3. walked = {entries[i] : i \in fromSeq..n}
    BY <1>2
<1>4. ASSUME NEW i \in fromSeq..n PROVE prevRow(entries[i]) = prev(i)
  <2>1. before(entries[i]) = {entries[j] : j \in fromSeq..(i - 1)}
      BY <1>2, <1>3
  <2>2. CASE i > fromSeq
    <3>1. entries[i - 1] \in before(entries[i])
          /\ \A p \in before(entries[i]) : p.chainSeq <= entries[i - 1].chainSeq
        BY <1>2, <2>1, <2>2
    <3>2. last(entries[i]) \in before(entries[i])
          /\ \A p \in before(entries[i]) : p.chainSeq <= last(entries[i]).chainSeq
        BY <3>1
    <3>3. last(entries[i]) = entries[i - 1]
      <4> HIDE DEF last
      <4>1. PICK j \in fromSeq..(i - 1) : last(entries[i]) = entries[j]
          BY <2>1, <3>2
      <4>2. entries[i - 1].chainSeq <= entries[j].chainSeq
          BY <3>1, <3>2, <4>1
      <4>3. i - 1 <= j
          BY <1>2, <2>2, <4>2
      <4>4. QED
          BY <4>1, <4>3
    <3>4. prevRow(entries[i]) = last(entries[i]).entryHash
        BY <3>1
    <3>5. prev(i) = entries[i - 1].entryHash
        BY <2>2
    <3> HIDE DEF prev, prevRow, last
    <3>6. QED
        BY <3>3, <3>4, <3>5
  <2>3. CASE i = fromSeq
    <3>1. before(entries[i]) = {}
        BY <2>1, <2>3
    <3>2. CASE fromSeq = 1
        BY <2>3, <3>1, <3>2
    <3>3. CASE fromSeq # 1
      <4>1. {p \in rows : p.chainSeq = fromSeq - 1} = {entries[fromSeq - 1]}
          BY <1>2, <3>3
      <4>2. first = {entries[fromSeq - 1].entryHash}
          BY <4>1
      <4>3. prevRow(entries[i]) = CHOOSE h \in first : TRUE
          BY <3>1, <3>3, <4>2
      <4>4. (CHOOSE h \in first : TRUE) \in first
          BY <4>2
      <4>5. prev(i) = entries[fromSeq - 1].entryHash
          BY <1>1, <2>3, <3>3
      <4> HIDE DEF prev, prevRow, first
      <4>6. QED
          BY <4>2, <4>3, <4>4, <4>5
    <3> HIDE DEF prev, prevRow
    <3>4. QED
        BY <3>2, <3>3
  <2> HIDE DEF prev, prevRow
  <2>4. QED
      BY <2>2, <2>3
<1>5. {r.chainSeq : r \in brokenRows} = broken
  <2> HIDE DEF prev, prevRow
  <2>1. \A i \in fromSeq..n : entries[i] \in brokenRows <=> i \in broken
      BY <1>1, <1>3, <1>4
  <2> HIDE DEF broken, walked
  <2>2. brokenRows = {entries[i] : i \in {j \in fromSeq..n : j \in broken}}
      BY <1>3, <2>1
  <2>3. broken \in SUBSET (fromSeq..n)
      BY <1>1 DEF broken
  <2>4. QED
    <3> HIDE DEF brokenRows
    <3>1. \A i \in fromSeq..n : entries[i].chainSeq = i
        BY <1>2
    <3>2. \A i \in broken : entries[i] \in brokenRows /\ entries[i].chainSeq = i
        BY <2>2, <2>3, <3>1
    <3>3. \A r \in brokenRows : r.chainSeq \in broken
        BY <2>2, <3>1
    <3>4. QED
        BY <3>2, <3>3
<1>6. walked # {} /\ Max({r.chainSeq : r \in walked}) = n
  <2>1. {r.chainSeq : r \in walked} \in SUBSET (1..n) /\ n \in {r.chainSeq : r \in walked}
      BY <1>2, <1>3
  <2>2. QED
      BY <2>1, GreatestIs
<1>7. broken # {} => Min(broken) \in 1..n
  <2>1. broken \in SUBSET Nat /\ broken \in SUBSET (1..n)
      BY <1>1
  <2>2. QED
      BY <2>1, LeastOf
<1>8. verifyArray(entries, fromSeq) =
        IF entries = <<>> THEN Valid(0)
        ELSE IF broken # {} THEN BrokenAt(entries[Min(broken)].chainSeq)
        ELSE Valid(entries[Len(entries)].chainSeq)
    BY DEF verifyArray
<1>9. verifyRows(rows, fromSeq) =
        IF walked = {} THEN Valid(0)
        ELSE IF brokenRows # {} THEN BrokenAt(Min({r.chainSeq : r \in brokenRows}))
        ELSE Valid(Max({r.chainSeq : r \in walked}))
    BY DEF verifyRows
<1>10. brokenRows = {} <=> broken = {}
    BY <1>5
<1> HIDE DEF broken, brokenRows, walked, rows
<1>11. broken # {} => entries[Min(broken)].chainSeq = Min(broken)
    BY <1>2, <1>7
<1>12. entries[Len(entries)].chainSeq = n
    BY <1>1, <1>2
<1>13. verifyArray(entries, fromSeq) = IF broken # {} THEN BrokenAt(Min(broken)) ELSE Valid(n)
    BY <1>1, <1>8, <1>11, <1>12
<1>14. verifyRows(rows, fromSeq) = IF broken # {} THEN BrokenAt(Min(broken)) ELSE Valid(n)
    BY <1>5, <1>6, <1>9, <1>10
<1>15. QED
    BY <1>13, <1>14 DEF rows

LEMMA PastTheEnd ==
    ASSUME NEW n \in Nat, IsLog(entries, n), NEW fromSeq \in Nat, fromSeq > n
    PROVE  /\ verifyArray(entries, fromSeq) = Valid(n)
           /\ verifyRows(Range(entries), fromSeq) = Valid(0)
<1> DEFINE rows == Range(entries)
           walked == {r \in rows : r.chainSeq >= fromSeq}
<1>1. Len(entries) = n /\ DOMAIN entries = 1..n
    BY LogIsSeq
<1>2. \A i \in 1..n : entries[i].chainSeq = i
    BY DEF IsLog, EntryAt
<1>3. fromSeq..Len(entries) = {}
    BY <1>1
<1>4. verifyArray(entries, fromSeq)
        = IF entries = <<>> THEN Valid(0) ELSE Valid(entries[Len(entries)].chainSeq)
    BY <1>3 DEF verifyArray
<1>5. entries = <<>> <=> n = 0
  <2>1. CASE n = 0
    <3>1. entries \in Seq({entries[i] : i \in 1..n})
        BY LogIsSeq
    <3>2. QED
        BY <1>1, <2>1, <3>1
  <2>2. CASE n # 0
      BY <1>1, <2>2
  <2>3. QED
      BY <2>1, <2>2
<1>6. n # 0 => entries[Len(entries)].chainSeq = n
    BY <1>1, <1>2
<1>7. walked = {}
    BY <1>1, <1>2 DEF Range
<1>8. verifyRows(rows, fromSeq) = Valid(0)
    BY <1>7 DEF verifyRows
<1>9. QED
    BY <1>4, <1>5, <1>6, <1>8

\* Whatever was edited, the two stores' verifyChain answer alike from every
\* place of the log, and past its end blame nothing.
THEOREM BothAgree == Spec => []VerifiersAgree
<1>1. LogInv => VerifiersAgree
  <2> SUFFICES ASSUME LogInv PROVE VerifiersAgree
      OBVIOUS
  <2>1. PICK n \in Nat : IsLog(entries, n)
      BY DEF LogInv
  <2>2. DOMAIN entries = 1..n /\ Len(entries) = n
      BY <2>1, LogIsSeq
  <2>3. \A i \in DOMAIN entries : verifyArray(entries, i) = verifyRows(Range(entries), i)
      BY <2>1, <2>2, WalksAgree
  <2>4. ASSUME NEW i \in {n + 1, n + 2}
        PROVE  verifyArray(entries, i) = Valid(n) /\ verifyRows(Range(entries), i) = Valid(0)
    <3>1. i \in Nat /\ i > n
        OBVIOUS
    <3>2. QED
        BY <2>1, <3>1, PastTheEnd
  <2>5. QED
      BY <2>2, <2>3, <2>4 DEF VerifiersAgree
<1>2. QED
    BY <1>1, Invariance, PTL
==============================================================================
