---------------------------- MODULE PgAuditProofs ----------------------------
(* Proofs about PgAudit, for all appends, tenants, pools and faults. *)
EXTENDS PgAudit, TLAPS

\* The entry of an append depends on its snapshot alone.
LEMMA EntryFields ==
    ASSUME NEW w \in Appends
    PROVE  /\ NewEntry(w).tenant = TenantOf[w]
           /\ NewEntry(w).chainSeq = snap[w].seq + 1
           /\ NewEntry(w).body = InputOf[w] /\ CallOf(NewEntry(w)) = w
           /\ NewEntry(w).prevHash = snap[w].hash
BY AuditAssumption DEF NewEntry, NextEntry, CallOf

LEMMA EntryStays ==
    ASSUME NEW w \in Appends, snap'[w] = snap[w]
    PROVE  NewEntry(w)' = NewEntry(w)
BY DEF NewEntry

LEMMA HeadFields ==
    ASSUME NEW w \in Appends
    PROVE  /\ HeadAfter(NewEntry(w)) = [seq |-> snap[w].seq + 1, hash |-> NewEntry(w).entryHash]
           /\ HeadAfter(NewEntry(w)).seq = snap[w].seq + 1
           /\ HeadAfter(NewEntry(w)).hash = NewEntry(w).entryHash
BY EntryFields DEF HeadAfter

LEMMA NoHeadFields == NoHead.seq = 0 /\ NoHead.hash = GENESIS_PREV_HASH
BY DEF NoHead

LEMMA InitInv == Init => IInv
<1> SUFFICES ASSUME Init
             PROVE  IInv
    OBVIOUS
<1> USE AuditAssumption, NoHeadFields DEF Init
<1>1. TypeOK
    BY DEF TypeOK, Calls
<1>2. \A w \in Appends : TxOf(w) /\ EntryOf(w) /\ HeadOf(w)
    BY DEF TxOf, EntryOf, HeadOf
<1>3. OneWriter
    BY DEF OneWriter
<1>4. ChainIntact
    BY DEF ChainIntact, RowsOf
<1>5. QED
    BY <1>1, <1>2, <1>3, <1>4 DEF IInv

\* A step that leaves entries, heads and snapshots alone keeps the chain and
\* the entries of every append.
LEMMA ChainStays ==
    ASSUME ChainIntact, UNCHANGED <<entries, heads>>
    PROVE  ChainIntact'
BY DEF ChainIntact, RowsOf, LinkedTo

LEMMA AppendCalledInv ==
    ASSUME IInv, NEW w \in Appends, AppendCalled(w)
    PROVE  IInv'
<1> USE AuditAssumption DEF IInv, AppendCalled, Goto
<1>1. \A v \in Appends : NewEntry(v)' = NewEntry(v)
    BY EntryStays
<1>2. TypeOK'
    BY <1>1 DEF TypeOK, Calls, Connected
<1>3. ASSUME NEW v \in Appends
      PROVE  TxOf(v)'
    BY DEF TypeOK, TxOf, Connected
<1>4. ASSUME NEW v \in Appends
      PROVE  EntryOf(v)'
    BY <1>1 DEF TypeOK, TxOf, EntryOf, Connected
<1>5. ASSUME NEW v \in Appends
      PROVE  HeadOf(v)'
  <2>1. HeadOf(v) /\ TxOf(v)
    OBVIOUS
  <2>2. call'[v] = "insert" => call[v] = "insert"
    BY DEF TypeOK
  <2>3. UNCHANGED <<snap, past, pend, heads, lock>> /\ (tx[v] = "open" => tx'[v] = "open")
    BY <2>1 DEF TypeOK, TxOf
  <2>4. QED
    BY <2>1, <2>2, <2>3 DEF HeadOf
<1>6. OneWriter'
    BY DEF TypeOK, OneWriter
<1>7. ChainIntact'
    BY ChainStays
<1>8. QED
    BY <1>2, <1>3, <1>4, <1>5, <1>6, <1>7

LEMMA ConnectsInv ==
    ASSUME IInv, NEW w \in Appends, Connects(w)
    PROVE  IInv'
<1> USE AuditAssumption DEF IInv, Connects, Goto
<1>1. \A v \in Appends : NewEntry(v)' = NewEntry(v)
    BY EntryStays
<1>2. TypeOK'
    BY <1>1 DEF TypeOK, Calls, Connected
<1>3. ASSUME NEW v \in Appends
      PROVE  TxOf(v)'
    BY DEF TypeOK, TxOf, Connected
<1>4. ASSUME NEW v \in Appends
      PROVE  EntryOf(v)'
    BY <1>1 DEF TypeOK, TxOf, EntryOf, Connected
<1>5. ASSUME NEW v \in Appends
      PROVE  HeadOf(v)'
  <2>1. HeadOf(v) /\ TxOf(v)
    OBVIOUS
  <2>2. call'[v] = "insert" => call[v] = "insert"
    BY DEF TypeOK
  <2>3. UNCHANGED <<snap, past, pend, heads, lock>> /\ (tx[v] = "open" => tx'[v] = "open")
    BY <2>1 DEF TypeOK, TxOf
  <2>4. QED
    BY <2>1, <2>2, <2>3 DEF HeadOf
<1>6. OneWriter'
    BY DEF TypeOK, OneWriter
<1>7. ChainIntact'
    BY ChainStays
<1>8. QED
    BY <1>2, <1>3, <1>4, <1>5, <1>6, <1>7

LEMMA GetsHeadInv ==
    ASSUME IInv, NEW w \in Appends, GetsHead(w)
    PROVE  IInv'
<1> USE AuditAssumption DEF IInv, GetsHead, Goto
<1>1. \A v \in Appends : NewEntry(v)' = NewEntry(v)
    BY EntryStays
<1>2. TypeOK'
  <2>1. lock' \in [Tenants -> Appends \cup {NoAppend}]
    BY DEF TypeOK
  <2>2. call' \in [Appends -> Calls]
    BY DEF TypeOK, Calls, Connected
  <2>3. QED
    BY <1>1, <2>1, <2>2 DEF TypeOK
<1>3. ASSUME NEW v \in Appends
      PROVE  TxOf(v)'
    BY DEF TypeOK, TxOf, Connected
<1>4. ASSUME NEW v \in Appends
      PROVE  EntryOf(v)'
    BY <1>1 DEF TypeOK, TxOf, EntryOf, Connected
<1>5. ASSUME NEW v \in Appends
      PROVE  HeadOf(v)'
  <2>1. HeadOf(v) /\ TxOf(v) /\ TxOf(w) /\ EntryOf(v) /\ EntryOf(w)
    OBVIOUS
  <2>2. UNCHANGED <<tx, snap, past, pend, heads>> /\ (v # w => call'[v] = call[v])
    BY DEF TypeOK
  <2>3. pend[w] = {} /\ tx[w] = "open" /\ call'[w] = "insert"
    BY <2>1 DEF EntryOf, TxOf, TypeOK
  <2>4. lock' \in [Tenants -> Appends \cup {NoAppend}]
    BY DEF TypeOK
  <2>5. CASE snap[w] = NoHead
    BY <2>1, <2>2, <2>3, <2>5 DEF HeadOf
  <2>6. CASE snap[w] # NoHead
    <3>1. /\ heads[TenantOf[w]] = snap[w]
          /\ lock[TenantOf[w]] = NoAppend
          /\ lock' = [lock EXCEPT ![TenantOf[w]] = w]
      BY <2>6
    <3>2. \A t \in Tenants : lock'[t] = v => lock[t] = v \/ (v = w /\ t = TenantOf[w])
      BY <3>1 DEF TypeOK
    <3>3. lock[TenantOf[v]] = v => lock'[TenantOf[v]] = v
      BY <3>1 DEF TypeOK
    <3>4. lock'[TenantOf[w]] = w
      BY <3>1 DEF TypeOK
    <3>5. CASE v = w
      BY <2>1, <2>2, <2>3, <2>6, <3>1, <3>2, <3>4, <3>5 DEF HeadOf
    <3>6. CASE v # w
      BY <2>1, <2>2, <3>2, <3>3, <3>6 DEF HeadOf
    <3>7. QED
      BY <3>5, <3>6
  <2>7. QED
    BY <2>5, <2>6
<1>6. OneWriter'
    BY DEF TypeOK, OneWriter
<1>7. ChainIntact'
    BY ChainStays
<1>8. QED
    BY <1>2, <1>3, <1>4, <1>5, <1>6, <1>7

LEMMA WritesHeadInv ==
    ASSUME IInv, NEW w \in Appends, WritesHead(w)
    PROVE  IInv'
<1> USE AuditAssumption DEF IInv, WritesHead, Goto
<1>1. \A v \in Appends : NewEntry(v)' = NewEntry(v)
    BY EntryStays
<1>2. TypeOK'
    BY <1>1 DEF TypeOK, Calls, Connected
<1>3. ASSUME NEW v \in Appends
      PROVE  TxOf(v)'
    BY DEF TypeOK, TxOf, Connected
<1>4. ASSUME NEW v \in Appends
      PROVE  EntryOf(v)'
    BY <1>1 DEF TypeOK, TxOf, EntryOf, Connected
<1>5. ASSUME NEW v \in Appends
      PROVE  HeadOf(v)'
  <2>1. HeadOf(v) /\ TxOf(v)
    OBVIOUS
  <2>2. call'[v] = "insert" => call[v] = "insert"
    BY DEF TypeOK
  <2>3. UNCHANGED <<snap, past, pend, heads, lock>> /\ (tx[v] = "open" => tx'[v] = "open")
    BY <2>1 DEF TypeOK, TxOf
  <2>4. QED
    BY <2>1, <2>2, <2>3 DEF HeadOf
<1>6. OneWriter'
    BY DEF TypeOK, OneWriter
<1>7. ChainIntact'
    BY ChainStays
<1>8. QED
    BY <1>2, <1>3, <1>4, <1>5, <1>6, <1>7

LEMMA AppendReturnsInv ==
    ASSUME IInv, NEW w \in Appends, AppendReturns(w)
    PROVE  IInv'
<1> USE AuditAssumption DEF IInv, AppendReturns, Goto
<1>1. \A v \in Appends : NewEntry(v)' = NewEntry(v)
    BY EntryStays
<1>2. TypeOK'
    BY <1>1 DEF TypeOK, Calls, Connected
<1>3. ASSUME NEW v \in Appends
      PROVE  TxOf(v)'
    BY DEF TypeOK, TxOf, Connected
<1>4. ASSUME NEW v \in Appends
      PROVE  EntryOf(v)'
    BY <1>1 DEF TypeOK, TxOf, EntryOf, Connected
<1>5. ASSUME NEW v \in Appends
      PROVE  HeadOf(v)'
  <2>1. HeadOf(v) /\ TxOf(v)
    OBVIOUS
  <2>2. call'[v] = "insert" => call[v] = "insert"
    BY DEF TypeOK
  <2>3. UNCHANGED <<snap, past, pend, heads, lock>> /\ (tx[v] = "open" => tx'[v] = "open")
    BY <2>1 DEF TypeOK, TxOf
  <2>4. QED
    BY <2>1, <2>2, <2>3 DEF HeadOf
<1>6. OneWriter'
    BY DEF TypeOK, OneWriter
<1>7. ChainIntact'
    BY ChainStays
<1>8. QED
    BY <1>2, <1>3, <1>4, <1>5, <1>6, <1>7

LEMMA RollsBackInv ==
    ASSUME IInv, NEW w \in Appends, RollsBack(w)
    PROVE  IInv'
<1> USE AuditAssumption DEF IInv, RollsBack, Goto
<1>1. \A v \in Appends : NewEntry(v)' = NewEntry(v)
    BY EntryStays
<1>2. TypeOK'
    BY <1>1 DEF TypeOK, Calls, Connected
<1>3. ASSUME NEW v \in Appends
      PROVE  TxOf(v)'
    BY DEF TypeOK, TxOf, Connected
<1>4. ASSUME NEW v \in Appends
      PROVE  EntryOf(v)'
    BY <1>1 DEF TypeOK, TxOf, EntryOf, Connected
<1>5. ASSUME NEW v \in Appends
      PROVE  HeadOf(v)'
  <2>1. HeadOf(v) /\ TxOf(v)
    OBVIOUS
  <2>2. call'[v] = "insert" => call[v] = "insert"
    BY DEF TypeOK
  <2>3. UNCHANGED <<snap, past, pend, heads, lock>> /\ (tx[v] = "open" => tx'[v] = "open")
    BY <2>1 DEF TypeOK, TxOf
  <2>4. QED
    BY <2>1, <2>2, <2>3 DEF HeadOf
<1>6. OneWriter'
    BY DEF TypeOK, OneWriter
<1>7. ChainIntact'
    BY ChainStays
<1>8. QED
    BY <1>2, <1>3, <1>4, <1>5, <1>6, <1>7

LEMMA ConnectionLostInv ==
    ASSUME IInv, NEW w \in Appends, ConnectionLost(w)
    PROVE  IInv'
<1> USE AuditAssumption DEF IInv, ConnectionLost, Goto
<1>1. \A v \in Appends : NewEntry(v)' = NewEntry(v)
    BY EntryStays
<1>2. TypeOK'
    BY <1>1 DEF TypeOK, Calls, Connected
<1>3. ASSUME NEW v \in Appends
      PROVE  TxOf(v)'
    BY DEF TypeOK, TxOf, Connected
<1>4. ASSUME NEW v \in Appends
      PROVE  EntryOf(v)'
    BY <1>1 DEF TypeOK, TxOf, EntryOf, Connected
<1>5. ASSUME NEW v \in Appends
      PROVE  HeadOf(v)'
  <2>1. HeadOf(v) /\ TxOf(v)
    OBVIOUS
  <2>2. call'[v] = "insert" => call[v] = "insert"
    BY DEF TypeOK
  <2>3. UNCHANGED <<snap, past, pend, heads, lock>> /\ (tx[v] = "open" => tx'[v] = "open")
    BY <2>1 DEF TypeOK, TxOf
  <2>4. QED
    BY <2>1, <2>2, <2>3 DEF HeadOf
<1>6. OneWriter'
    BY DEF TypeOK, OneWriter
<1>7. ChainIntact'
    BY ChainStays
<1>8. QED
    BY <1>2, <1>3, <1>4, <1>5, <1>6, <1>7

LEMMA HeadMovedInv ==
    ASSUME IInv, NEW w \in Appends, HeadMoved(w)
    PROVE  IInv'
<1> USE AuditAssumption DEF IInv, HeadMoved, Close, Goto, Fails
<1>1. \A v \in Appends : NewEntry(v)' = NewEntry(v)
    BY EntryStays
<1>2. TypeOK'
  <2>1. pend' = [v \in Appends |-> pend'[v]] /\ \A v \in Appends : pend'[v] \subseteq pend[v]
    BY DEF TypeOK
  <2>2. tx' \in [Appends -> {"none", "open", "committed", "aborted"}]
    BY DEF TypeOK
  <2>3. lock' \in [Tenants -> Appends \cup {NoAppend}]
    BY DEF TypeOK
  <2>4. call' \in [Appends -> Calls] /\ sent' \subseteq Appends /\ faults' \in 0..MaxFaults
    BY DEF TypeOK, Calls, Connected
  <2>5. \A v \in Appends : snap'[v].seq \in Nat /\ pend'[v] \subseteq {NewEntry(v)'}
    BY <1>1, <2>1 DEF TypeOK
  <2>6. entries' \subseteq {NewEntry(v)' : v \in Appends}
    BY <1>1 DEF TypeOK
  <2>7. QED
    BY <2>1, <2>2, <2>3, <2>4, <2>5, <2>6 DEF TypeOK
<1>3. ASSUME NEW v \in Appends
      PROVE  TxOf(v)'
    BY DEF TypeOK, TxOf, Connected
<1>4. ASSUME NEW v \in Appends
      PROVE  EntryOf(v)'
    BY <1>1 DEF TypeOK, TxOf, EntryOf, Connected
<1>5. ASSUME NEW v \in Appends
      PROVE  HeadOf(v)'
  <2>1. HeadOf(v) /\ call'[v] = "insert" => call[v] = "insert"
    BY DEF TypeOK
  <2>2. pend'[v] \subseteq pend[v] /\ (v # w => pend'[v] = pend[v] /\ tx'[v] = tx[v])
    BY DEF TypeOK
  <2>3. pend'[w] = {} /\ call'[w] # "insert" /\ \A t \in Tenants : lock'[t] # w
    BY DEF TypeOK
  <2>4. \A t \in Tenants : lock[t] # w => lock'[t] = lock[t]
    OBVIOUS
  <2>5. lock[TenantOf[v]] = v /\ v # w => lock'[TenantOf[v]] = v
    BY <2>4
  <2>6. CASE v = w
    BY <2>3, <2>6 DEF HeadOf
  <2>7. CASE v # w
    <3>1. call'[v] = call[v] /\ UNCHANGED <<heads, snap>>
      BY <2>7 DEF TypeOK
    <3>2. HeadOf(v)
      OBVIOUS
    <3>3. \A t \in Tenants : lock'[t] = v => lock[t] = v
      BY <2>7 DEF TypeOK
    <3>4. QED
      BY <2>2, <2>5, <2>7, <3>1, <3>2, <3>3 DEF HeadOf
  <2>8. QED
    BY <2>6, <2>7
<1>6. OneWriter'
    BY DEF TypeOK, OneWriter
<1>7. ChainIntact'
    BY ChainStays
<1>8. QED
    BY <1>2, <1>3, <1>4, <1>5, <1>6, <1>7

LEMMA InsertRefusedInv ==
    ASSUME IInv, NEW w \in Appends, InsertRefused(w)
    PROVE  IInv'
<1> USE AuditAssumption DEF IInv, InsertRefused, Close, Goto, Fails
<1>1. \A v \in Appends : NewEntry(v)' = NewEntry(v)
    BY EntryStays
<1>2. TypeOK'
  <2>1. pend' = [v \in Appends |-> pend'[v]] /\ \A v \in Appends : pend'[v] \subseteq pend[v]
    BY DEF TypeOK
  <2>2. tx' \in [Appends -> {"none", "open", "committed", "aborted"}]
    BY DEF TypeOK
  <2>3. lock' \in [Tenants -> Appends \cup {NoAppend}]
    BY DEF TypeOK
  <2>4. call' \in [Appends -> Calls] /\ sent' \subseteq Appends /\ faults' \in 0..MaxFaults
    BY DEF TypeOK, Calls, Connected
  <2>5. \A v \in Appends : snap'[v].seq \in Nat /\ pend'[v] \subseteq {NewEntry(v)'}
    BY <1>1, <2>1 DEF TypeOK
  <2>6. entries' \subseteq {NewEntry(v)' : v \in Appends}
    BY <1>1 DEF TypeOK
  <2>7. QED
    BY <2>1, <2>2, <2>3, <2>4, <2>5, <2>6 DEF TypeOK
<1>3. ASSUME NEW v \in Appends
      PROVE  TxOf(v)'
    BY DEF TypeOK, TxOf, Connected
<1>4. ASSUME NEW v \in Appends
      PROVE  EntryOf(v)'
    BY <1>1 DEF TypeOK, TxOf, EntryOf, Connected
<1>5. ASSUME NEW v \in Appends
      PROVE  HeadOf(v)'
  <2>1. HeadOf(v) /\ call'[v] = "insert" => call[v] = "insert"
    BY DEF TypeOK
  <2>2. pend'[v] \subseteq pend[v] /\ (v # w => pend'[v] = pend[v] /\ tx'[v] = tx[v])
    BY DEF TypeOK
  <2>3. pend'[w] = {} /\ call'[w] # "insert" /\ \A t \in Tenants : lock'[t] # w
    BY DEF TypeOK
  <2>4. \A t \in Tenants : lock[t] # w => lock'[t] = lock[t]
    OBVIOUS
  <2>5. lock[TenantOf[v]] = v /\ v # w => lock'[TenantOf[v]] = v
    BY <2>4
  <2>6. CASE v = w
    BY <2>3, <2>6 DEF HeadOf
  <2>7. CASE v # w
    <3>1. call'[v] = call[v] /\ UNCHANGED <<heads, snap>>
      BY <2>7 DEF TypeOK
    <3>2. HeadOf(v)
      OBVIOUS
    <3>3. \A t \in Tenants : lock'[t] = v => lock[t] = v
      BY <2>7 DEF TypeOK
    <3>4. QED
      BY <2>2, <2>5, <2>7, <3>1, <3>2, <3>3 DEF HeadOf
  <2>8. QED
    BY <2>6, <2>7
<1>6. OneWriter'
    BY DEF TypeOK, OneWriter
<1>7. ChainIntact'
    BY ChainStays
<1>8. QED
    BY <1>2, <1>3, <1>4, <1>5, <1>6, <1>7

LEMMA NotSerializableInv ==
    ASSUME IInv, NEW w \in Appends, NotSerializable(w)
    PROVE  IInv'
<1> USE AuditAssumption DEF IInv, NotSerializable, Close, Goto, Fails
<1>1. \A v \in Appends : NewEntry(v)' = NewEntry(v)
    BY EntryStays
<1>2. TypeOK'
  <2>1. pend' = [v \in Appends |-> pend'[v]] /\ \A v \in Appends : pend'[v] \subseteq pend[v]
    BY DEF TypeOK
  <2>2. tx' \in [Appends -> {"none", "open", "committed", "aborted"}]
    BY DEF TypeOK
  <2>3. lock' \in [Tenants -> Appends \cup {NoAppend}]
    BY DEF TypeOK
  <2>4. call' \in [Appends -> Calls] /\ sent' \subseteq Appends /\ faults' \in 0..MaxFaults
    BY DEF TypeOK, Calls, Connected
  <2>5. \A v \in Appends : snap'[v].seq \in Nat /\ pend'[v] \subseteq {NewEntry(v)'}
    BY <1>1, <2>1 DEF TypeOK
  <2>6. entries' \subseteq {NewEntry(v)' : v \in Appends}
    BY <1>1 DEF TypeOK
  <2>7. QED
    BY <2>1, <2>2, <2>3, <2>4, <2>5, <2>6 DEF TypeOK
<1>3. ASSUME NEW v \in Appends
      PROVE  TxOf(v)'
    BY DEF TypeOK, TxOf, Connected
<1>4. ASSUME NEW v \in Appends
      PROVE  EntryOf(v)'
    BY <1>1 DEF TypeOK, TxOf, EntryOf, Connected
<1>5. ASSUME NEW v \in Appends
      PROVE  HeadOf(v)'
  <2>1. HeadOf(v) /\ call'[v] = "insert" => call[v] = "insert"
    BY DEF TypeOK
  <2>2. pend'[v] \subseteq pend[v] /\ (v # w => pend'[v] = pend[v] /\ tx'[v] = tx[v])
    BY DEF TypeOK
  <2>3. pend'[w] = {} /\ call'[w] # "insert" /\ \A t \in Tenants : lock'[t] # w
    BY DEF TypeOK
  <2>4. \A t \in Tenants : lock[t] # w => lock'[t] = lock[t]
    OBVIOUS
  <2>5. lock[TenantOf[v]] = v /\ v # w => lock'[TenantOf[v]] = v
    BY <2>4
  <2>6. CASE v = w
    BY <2>3, <2>6 DEF HeadOf
  <2>7. CASE v # w
    <3>1. call'[v] = call[v] /\ UNCHANGED <<heads, snap>>
      BY <2>7 DEF TypeOK
    <3>2. HeadOf(v)
      OBVIOUS
    <3>3. \A t \in Tenants : lock'[t] = v => lock[t] = v
      BY <2>7 DEF TypeOK
    <3>4. QED
      BY <2>2, <2>5, <2>7, <3>1, <3>2, <3>3 DEF HeadOf
  <2>8. QED
    BY <2>6, <2>7
<1>6. OneWriter'
    BY DEF TypeOK, OneWriter
<1>7. ChainIntact'
    BY ChainStays
<1>8. QED
    BY <1>2, <1>3, <1>4, <1>5, <1>6, <1>7

LEMMA QueryFailsInv ==
    ASSUME IInv, NEW w \in Appends, QueryFails(w)
    PROVE  IInv'
<1> USE AuditAssumption DEF IInv, QueryFails, Close, Goto, Fails
<1>1. \A v \in Appends : NewEntry(v)' = NewEntry(v)
    BY EntryStays
<1>2. TypeOK'
  <2>1. pend' = [v \in Appends |-> pend'[v]] /\ \A v \in Appends : pend'[v] \subseteq pend[v]
    BY DEF TypeOK
  <2>2. tx' \in [Appends -> {"none", "open", "committed", "aborted"}]
    BY DEF TypeOK
  <2>3. lock' \in [Tenants -> Appends \cup {NoAppend}]
    BY DEF TypeOK
  <2>4. call' \in [Appends -> Calls] /\ sent' \subseteq Appends /\ faults' \in 0..MaxFaults
    BY DEF TypeOK, Calls, Connected
  <2>5. \A v \in Appends : snap'[v].seq \in Nat /\ pend'[v] \subseteq {NewEntry(v)'}
    BY <1>1, <2>1 DEF TypeOK
  <2>6. entries' \subseteq {NewEntry(v)' : v \in Appends}
    BY <1>1 DEF TypeOK
  <2>7. QED
    BY <2>1, <2>2, <2>3, <2>4, <2>5, <2>6 DEF TypeOK
<1>3. ASSUME NEW v \in Appends
      PROVE  TxOf(v)'
    BY DEF TypeOK, TxOf, Connected
<1>4. ASSUME NEW v \in Appends
      PROVE  EntryOf(v)'
    BY <1>1 DEF TypeOK, TxOf, EntryOf, Connected
<1>5. ASSUME NEW v \in Appends
      PROVE  HeadOf(v)'
  <2>1. HeadOf(v) /\ call'[v] = "insert" => call[v] = "insert"
    BY DEF TypeOK
  <2>2. pend'[v] \subseteq pend[v] /\ (v # w => pend'[v] = pend[v] /\ tx'[v] = tx[v])
    BY DEF TypeOK
  <2>3. pend'[w] = {} /\ call'[w] # "insert" /\ \A t \in Tenants : lock'[t] # w
    BY DEF TypeOK
  <2>4. \A t \in Tenants : lock[t] # w => lock'[t] = lock[t]
    OBVIOUS
  <2>5. lock[TenantOf[v]] = v /\ v # w => lock'[TenantOf[v]] = v
    BY <2>4
  <2>6. CASE v = w
    BY <2>3, <2>6 DEF HeadOf
  <2>7. CASE v # w
    <3>1. call'[v] = call[v] /\ UNCHANGED <<heads, snap>>
      BY <2>7 DEF TypeOK
    <3>2. HeadOf(v)
      OBVIOUS
    <3>3. \A t \in Tenants : lock'[t] = v => lock[t] = v
      BY <2>7 DEF TypeOK
    <3>4. QED
      BY <2>2, <2>5, <2>7, <3>1, <3>2, <3>3 DEF HeadOf
  <2>8. QED
    BY <2>6, <2>7
<1>6. OneWriter'
    BY DEF TypeOK, OneWriter
<1>7. ChainIntact'
    BY ChainStays
<1>8. QED
    BY <1>2, <1>3, <1>4, <1>5, <1>6, <1>7

LEMMA ServerNoticesInv ==
    ASSUME IInv, NEW w \in Appends, ServerNotices(w)
    PROVE  IInv'
<1> USE AuditAssumption DEF IInv, ServerNotices, Close
<1>1. \A v \in Appends : NewEntry(v)' = NewEntry(v)
    BY EntryStays
<1>2. TypeOK'
  <2>1. pend' = [v \in Appends |-> pend'[v]] /\ \A v \in Appends : pend'[v] \subseteq pend[v]
    BY DEF TypeOK
  <2>2. tx' \in [Appends -> {"none", "open", "committed", "aborted"}]
    BY DEF TypeOK
  <2>3. lock' \in [Tenants -> Appends \cup {NoAppend}]
    BY DEF TypeOK
  <2>4. call' \in [Appends -> Calls] /\ sent' \subseteq Appends /\ faults' \in 0..MaxFaults
    BY DEF TypeOK, Calls, Connected
  <2>5. \A v \in Appends : snap'[v].seq \in Nat /\ pend'[v] \subseteq {NewEntry(v)'}
    BY <1>1, <2>1 DEF TypeOK
  <2>6. entries' \subseteq {NewEntry(v)' : v \in Appends}
    BY <1>1 DEF TypeOK
  <2>7. QED
    BY <2>1, <2>2, <2>3, <2>4, <2>5, <2>6 DEF TypeOK
<1>3. ASSUME NEW v \in Appends
      PROVE  TxOf(v)'
    BY DEF TypeOK, TxOf, Connected
<1>4. ASSUME NEW v \in Appends
      PROVE  EntryOf(v)'
    BY <1>1 DEF TypeOK, TxOf, EntryOf, Connected
<1>5. ASSUME NEW v \in Appends
      PROVE  HeadOf(v)'
  <2>1. HeadOf(v) /\ call'[v] = "insert" => call[v] = "insert"
    BY DEF TypeOK
  <2>2. pend'[v] \subseteq pend[v] /\ (v # w => pend'[v] = pend[v] /\ tx'[v] = tx[v])
    BY DEF TypeOK
  <2>3. pend'[w] = {} /\ call'[w] # "insert" /\ \A t \in Tenants : lock'[t] # w
    BY DEF TypeOK
  <2>4. \A t \in Tenants : lock[t] # w => lock'[t] = lock[t]
    OBVIOUS
  <2>5. lock[TenantOf[v]] = v /\ v # w => lock'[TenantOf[v]] = v
    BY <2>4
  <2>6. CASE v = w
    BY <2>3, <2>6 DEF HeadOf
  <2>7. CASE v # w
    <3>1. call'[v] = call[v] /\ UNCHANGED <<heads, snap>>
      BY <2>7 DEF TypeOK
    <3>2. HeadOf(v)
      OBVIOUS
    <3>3. \A t \in Tenants : lock'[t] = v => lock[t] = v
      BY <2>7 DEF TypeOK
    <3>4. QED
      BY <2>2, <2>5, <2>7, <3>1, <3>2, <3>3 DEF HeadOf
  <2>8. QED
    BY <2>6, <2>7
<1>6. OneWriter'
    BY DEF TypeOK, OneWriter
<1>7. ChainIntact'
    BY ChainStays
<1>8. QED
    BY <1>2, <1>3, <1>4, <1>5, <1>6, <1>7

\* No entry is that of an append that has not committed.
LEMMA NoEntryYet ==
    ASSUME IInv, NEW w \in Appends, tx[w] # "committed"
    PROVE  \A e \in entries : CallOf(e) # w
<1>1. EntryOf(w) /\ entries \subseteq {NewEntry(v) : v \in Appends}
    BY DEF IInv, TypeOK
<1>2. NewEntry(w) \notin entries
    BY <1>1 DEF EntryOf
<1>3. QED
    BY <1>1, <1>2, EntryFields

LEMMA TakesSnapshotInv ==
    ASSUME IInv, NEW w \in Appends, TakesSnapshot(w)
    PROVE  IInv'
<1> USE AuditAssumption
<1>1. /\ call[w] = "begin"
      /\ snap' = [snap EXCEPT ![w] = heads[TenantOf[w]]]
      /\ past' = [past EXCEPT ![w] = {v \in Appends : tx[v] = "committed"}]
      /\ call' = [call EXCEPT ![w] = "lock"]
      /\ UNCHANGED <<tx, pend, entries, heads, lock, sent, faults>>
    BY DEF TakesSnapshot, Goto
<1>2. tx[w] = "open" /\ pend[w] = {} /\ w \notin sent
    BY <1>1 DEF IInv, TxOf, EntryOf
<1>3. \A v \in Appends \ {w} : snap'[v] = snap[v] /\ NewEntry(v)' = NewEntry(v)
  <2>1. \A v \in Appends \ {w} : snap'[v] = snap[v]
    BY <1>1 DEF IInv, TypeOK
  <2>2. QED
    BY <2>1, EntryStays
<1>4. NewEntry(w) \notin entries /\ NewEntry(w)' \notin entries
  <2>1. CallOf(NewEntry(w)) = w /\ CallOf(NewEntry(w)') = w
    BY AuditAssumption DEF NewEntry, NextEntry, CallOf
  <2>2. QED
    BY <1>2, <2>1, NoEntryYet
<1>5. TypeOK'
  <2>1. snap' = [v \in Appends |-> snap'[v]]
    BY <1>1 DEF IInv, TypeOK
  <2>2. /\ \A v \in Appends : snap'[v].seq \in Nat
        /\ past' \in [Appends -> SUBSET Appends]
    BY <1>1 DEF IInv, TypeOK
  <2>3. \A v \in Appends : pend'[v] \subseteq {NewEntry(v)'}
    BY <1>1, <1>2, <1>3 DEF IInv, TypeOK
  <2>4. entries' \subseteq {NewEntry(v)' : v \in Appends}
    BY <1>1, <1>3, <1>4 DEF IInv, TypeOK
  <2>5. call' \in [Appends -> Calls]
    BY <1>1 DEF IInv, TypeOK, Calls, Connected
  <2>6. QED
    BY <1>1, <2>1, <2>2, <2>3, <2>4, <2>5 DEF IInv, TypeOK
<1>6. \A v \in Appends : TxOf(v)'
    BY <1>1, <1>2 DEF IInv, TypeOK, TxOf
<1>7. \A v \in Appends : EntryOf(v)'
    BY <1>1, <1>2, <1>3, <1>4 DEF IInv, TypeOK, EntryOf
<1>8. ASSUME NEW v \in Appends
      PROVE  HeadOf(v)'
  <2>1. HeadOf(v) /\ (call'[v] = "insert" => call[v] = "insert")
    BY <1>1 DEF IInv, TypeOK
  <2>2. CASE v = w
    <3>1. snap'[w] = heads[TenantOf[w]] /\ call'[w] = "lock" /\ pend'[w] = {}
      BY <1>1, <1>2 DEF IInv, TypeOK
    <3>2. QED
      BY <1>1, <2>1, <2>2, <3>1 DEF HeadOf
  <2>3. CASE v # w
    BY <1>1, <1>3, <2>1, <2>3 DEF HeadOf
  <2>4. QED
    BY <2>2, <2>3
<1>9. OneWriter' /\ ChainIntact'
    BY <1>1, ChainStays DEF IInv, OneWriter
<1>10. QED
    BY <1>5, <1>6, <1>7, <1>8, <1>9 DEF IInv

\* An append whose snapshot has no head row inserts only while there is none.
LEMMA FirstPlace ==
    ASSUME IInv, NEW w \in Appends, snap[w] = NoHead, ~PlaceTaken(w)
    PROVE  heads[TenantOf[w]] = NoHead
<1> DEFINE t == TenantOf[w]
<1> SUFFICES ASSUME heads[t] # NoHead
             PROVE  FALSE
    OBVIOUS
<1>1. t \in Tenants
    BY AuditAssumption
<1>2. heads[t].seq \in Nat /\ {e.chainSeq : e \in RowsOf(t)} = 1..heads[t].seq
    BY <1>1 DEF IInv, TypeOK, ChainIntact
<1>3. PICK f \in RowsOf(t) : f.chainSeq = heads[t].seq
    BY <1>1 DEF IInv, ChainIntact, LinkedTo
<1>4. 1 \in {e.chainSeq : e \in RowsOf(t)}
    BY <1>2, <1>3
<1>5. PICK e \in RowsOf(t) : e.chainSeq = 1
    BY <1>4
<1>6. NewEntry(w).tenant = t /\ NewEntry(w).chainSeq = 1
    BY EntryFields, NoHeadFields
<1>7. QED
    BY <1>5, <1>6 DEF PlaceTaken, SamePlace, RowsOf

LEMMA InsertsInv ==
    ASSUME IInv, NEW w \in Appends, Inserts(w)
    PROVE  IInv'
<1> USE AuditAssumption
<1>1. /\ call[w] = "insert"
      /\ ~PlaceTaken(w)
      /\ ~PlaceAwaited(w)
      /\ pend' = [pend EXCEPT ![w] = {NewEntry(w)}]
      /\ call' = [call EXCEPT ![w] = "head"]
      /\ UNCHANGED <<tx, snap, past, entries, heads, lock, sent, faults>>
    BY DEF Inserts, Goto
<1>2. \A v \in Appends : NewEntry(v)' = NewEntry(v)
    BY <1>1, EntryStays
<1>3. heads[TenantOf[w]] = snap[w] /\ (snap[w] # NoHead => lock[TenantOf[w]] = w)
  <2>1. CASE snap[w] = NoHead
    BY <1>1, <2>1, FirstPlace
  <2>2. CASE snap[w] # NoHead
    BY <1>1, <2>2 DEF IInv, HeadOf
  <2>3. QED
    BY <2>1, <2>2
<1>4. ASSUME NEW v \in Appends \ {w}, TenantOf[v] = TenantOf[w]
      PROVE  pend[v] = {}
  <2> SUFFICES ASSUME pend[v] # {}
               PROVE  FALSE
    OBVIOUS
  <2>1. HeadOf(v) /\ pend[v] \subseteq {NewEntry(v)}
    BY DEF IInv, TypeOK
  <2>2. snap[v] = snap[w]
    BY <1>3, <1>4, <2>1 DEF HeadOf
  <2>3. NewEntry(v) \in pend[v]
    BY <2>1
  <2>4. SamePlace(NewEntry(v), NewEntry(w))
    BY <1>4, <2>2, EntryFields DEF SamePlace
  <2>5. QED
    BY <1>1, <2>3, <2>4 DEF PlaceAwaited
<1>5. TypeOK'
  <2>1. pend' = [v \in Appends |-> pend'[v]] /\ \A v \in Appends : pend'[v] \subseteq {NewEntry(v)'}
    BY <1>1, <1>2 DEF IInv, TypeOK
  <2>2. call' \in [Appends -> Calls]
    BY <1>1 DEF IInv, TypeOK, Calls, Connected
  <2>3. entries' \subseteq {NewEntry(v)' : v \in Appends}
    BY <1>1, <1>2 DEF IInv, TypeOK
  <2>4. QED
    BY <1>1, <2>1, <2>2, <2>3 DEF IInv, TypeOK
<1>6. \A v \in Appends : TxOf(v)'
    BY <1>1 DEF IInv, TypeOK, TxOf
<1>7. tx[w] = "open"
    BY <1>1 DEF IInv, TxOf
<1>8. \A v \in Appends : EntryOf(v)'
    BY <1>1, <1>2, <1>7 DEF IInv, TypeOK, EntryOf
<1>9. ASSUME NEW v \in Appends
      PROVE  HeadOf(v)'
  <2>1. HeadOf(v) /\ (call'[v] = "insert" => call[v] = "insert")
    BY <1>1 DEF IInv, TypeOK
  <2>2. CASE v = w
    BY <1>1, <1>3, <2>1, <2>2 DEF HeadOf
  <2>3. CASE v # w
    <3>1. pend'[v] = pend[v]
      BY <1>1, <2>3 DEF IInv, TypeOK
    <3>2. QED
      BY <1>1, <2>1, <3>1 DEF HeadOf
  <2>4. QED
    BY <2>2, <2>3
<1>10. OneWriter'
  <2>1. \A v \in Appends \ {w} : pend'[v] = pend[v]
    BY <1>1 DEF IInv, TypeOK
  <2>2. QED
    BY <1>4, <2>1 DEF IInv, OneWriter
<1>11. ChainIntact'
    BY <1>1, ChainStays DEF IInv
<1>12. QED
    BY <1>5, <1>6, <1>8, <1>9, <1>10, <1>11 DEF IInv

\* A commit adds one entry right after the head it was derived from.
LEMMA CommitsFacts ==
    ASSUME IInv, NEW w \in Appends, Commits(w)
    PROVE  /\ pend[w] = {NewEntry(w)}
           /\ heads[TenantOf[w]] = snap[w]
           /\ entries' = entries \cup {NewEntry(w)}
           /\ heads' = [heads EXCEPT ![TenantOf[w]] = HeadAfter(NewEntry(w))]
           /\ \A v \in Appends : NewEntry(v)' = NewEntry(v)
<1>1. w \in sent /\ tx[w] = "open" /\ UNCHANGED snap
    BY DEF Commits
<1>2. pend[w] # {} /\ pend[w] \subseteq {NewEntry(w)}
    BY <1>1 DEF IInv, TypeOK, EntryOf
<1>3. pend[w] = {NewEntry(w)}
    BY <1>2
<1>4. heads[TenantOf[w]] = snap[w]
    BY <1>2 DEF IInv, HeadOf
<1>5. \A v \in Appends : NewEntry(v)' = NewEntry(v)
    BY <1>1, EntryStays
<1>6. QED
    BY <1>3, <1>4, <1>5 DEF Commits

LEMMA CommitsChain ==
    ASSUME IInv, NEW w \in Appends, Commits(w)
    PROVE  ChainIntact'
<1> DEFINE T == TenantOf[w]
           n == NewEntry(w)
<1>1. T \in Tenants /\ n.tenant = T /\ n.chainSeq = heads[T].seq + 1 /\ n.prevHash = heads[T].hash
    BY AuditAssumption, EntryFields, CommitsFacts
<1>2. entries' = entries \cup {n} /\ heads' = [heads EXCEPT ![T] = HeadAfter(n)]
    BY CommitsFacts
<1>3. heads[T].seq \in Nat /\ heads = [t \in Tenants |-> heads[t]] /\ ChainIntact
    BY <1>1 DEF IInv, TypeOK
<1>4. heads'[T].seq = heads[T].seq + 1 /\ heads'[T].hash = n.entryHash
    BY <1>1, <1>2, <1>3 DEF HeadAfter
<1>5. RowsOf(T)' = RowsOf(T) \cup {n}
    BY <1>1, <1>2 DEF RowsOf
<1>6. ASSUME NEW t \in Tenants \ {T}
      PROVE  heads'[t] = heads[t] /\ RowsOf(t)' = RowsOf(t)
    BY <1>1, <1>2, <1>3 DEF RowsOf
<1>7. ASSUME NEW t \in Tenants \ {T}
      PROVE  /\ {e.chainSeq : e \in RowsOf(t)'} = 1..heads'[t].seq
             /\ \A e, f \in RowsOf(t)' : e.chainSeq = f.chainSeq => e = f
             /\ heads'[t] # NoHead => \E e \in RowsOf(t)' : LinkedTo(e, heads'[t])
             /\ \A e \in RowsOf(t)' :
                  \/ e.chainSeq = 1 /\ e.prevHash = GENESIS_PREV_HASH
                  \/ \E f \in RowsOf(t)' : LinkedTo(f, [seq |-> e.chainSeq - 1, hash |-> e.prevHash])
    BY <1>3, <1>6 DEF ChainIntact
<1>8. {e.chainSeq : e \in RowsOf(T)} = 1..heads[T].seq
    BY <1>1, <1>3 DEF ChainIntact
<1>9. {e.chainSeq : e \in RowsOf(T)'} = 1..heads'[T].seq
  <2>1. {e.chainSeq : e \in RowsOf(T)'} = {e.chainSeq : e \in RowsOf(T)} \cup {n.chainSeq}
    BY <1>5
  <2>2. 1..(heads[T].seq + 1) = (1..heads[T].seq) \cup {heads[T].seq + 1}
    BY <1>3
  <2>3. QED
    BY <1>1, <1>4, <1>8, <2>1, <2>2
<1>10. \A e, f \in RowsOf(T)' : e.chainSeq = f.chainSeq => e = f
  <2>1. \A e \in RowsOf(T) : e.chainSeq \in 1..heads[T].seq
    BY <1>8
  <2>2. \A e \in RowsOf(T) : e.chainSeq # n.chainSeq
    BY <1>1, <1>3, <2>1
  <2>3. \A e, f \in RowsOf(T) : e.chainSeq = f.chainSeq => e = f
    BY <1>1, <1>3 DEF ChainIntact
  <2>4. QED
    BY <1>5, <2>2, <2>3
<1>11. \E e \in RowsOf(T)' : LinkedTo(e, heads'[T])
    BY <1>1, <1>4, <1>5 DEF LinkedTo
<1>12. ASSUME NEW e \in RowsOf(T)'
       PROVE  \/ e.chainSeq = 1 /\ e.prevHash = GENESIS_PREV_HASH
              \/ \E f \in RowsOf(T)' : LinkedTo(f, [seq |-> e.chainSeq - 1, hash |-> e.prevHash])
  <2>1. CASE e \in RowsOf(T)
    BY <1>1, <1>3, <1>5, <2>1 DEF ChainIntact
  <2>2. CASE e = n /\ heads[T] = NoHead
    BY <1>1, <2>2, NoHeadFields
  <2>3. CASE e = n /\ heads[T] # NoHead
    <3>1. PICK f \in RowsOf(T) : LinkedTo(f, heads[T])
      BY <1>1, <1>3, <2>3 DEF ChainIntact
    <3>2. n.chainSeq - 1 = heads[T].seq
      BY <1>1, <1>3
    <3>3. LinkedTo(f, [seq |-> n.chainSeq - 1, hash |-> n.prevHash])
      BY <1>1, <3>1, <3>2 DEF LinkedTo
    <3>4. QED
      BY <1>5, <2>3, <3>1, <3>3
  <2>4. QED
    BY <1>5, <2>1, <2>2, <2>3
<1>13. ASSUME NEW t \in Tenants
       PROVE  /\ {e.chainSeq : e \in RowsOf(t)'} = 1..heads'[t].seq
              /\ \A e, f \in RowsOf(t)' : e.chainSeq = f.chainSeq => e = f
              /\ heads'[t] # NoHead => \E e \in RowsOf(t)' : LinkedTo(e, heads'[t])
              /\ \A e \in RowsOf(t)' :
                   \/ e.chainSeq = 1 /\ e.prevHash = GENESIS_PREV_HASH
                   \/ \E f \in RowsOf(t)' : LinkedTo(f, [seq |-> e.chainSeq - 1, hash |-> e.prevHash])
  <2>1. CASE t = T
    BY <1>9, <1>10, <1>11, <1>12, <2>1
  <2>2. CASE t # T
    BY <1>7, <2>2
  <2>3. QED
    BY <2>1, <2>2
<1> HIDE DEF T, n
<1>14. QED
    BY <1>13 DEF ChainIntact, LinkedTo

LEMMA CommitsInv ==
    ASSUME IInv, NEW w \in Appends, Commits(w)
    PROVE  IInv'
<1> USE AuditAssumption
<1>1. /\ w \in sent /\ tx[w] = "open" /\ call[w] \in {"commit", "threw"}
      /\ tx' = [tx EXCEPT ![w] = "committed"]
      /\ pend' = [pend EXCEPT ![w] = {}]
      /\ lock' = [t \in Tenants |-> IF lock[t] = w THEN NoAppend ELSE lock[t]]
      /\ call' = [call EXCEPT ![w] = IF @ = "commit" THEN "committed" ELSE @]
      /\ UNCHANGED <<snap, past, sent, faults>>
    BY DEF Commits, Close
<1>2. /\ pend[w] = {NewEntry(w)}
      /\ heads[TenantOf[w]] = snap[w]
      /\ entries' = entries \cup {NewEntry(w)}
      /\ heads' = [heads EXCEPT ![TenantOf[w]] = HeadAfter(NewEntry(w))]
      /\ \A v \in Appends : NewEntry(v)' = NewEntry(v)
    BY CommitsFacts
<1>3. TypeOK'
  <2>1. heads' = [t \in Tenants |-> heads'[t]] /\ \A t \in Tenants : heads'[t].seq \in Nat
    <3>1. HeadAfter(NewEntry(w)).seq \in Nat
      BY HeadFields DEF IInv, TypeOK
    <3>2. QED
      BY <1>2, <3>1 DEF IInv, TypeOK
  <2>2. pend' = [v \in Appends |-> pend'[v]] /\ \A v \in Appends : pend'[v] \subseteq {NewEntry(v)'}
    BY <1>1, <1>2 DEF IInv, TypeOK
  <2>3. entries' \subseteq {NewEntry(v)' : v \in Appends}
    BY <1>2 DEF IInv, TypeOK
  <2>4. call' \in [Appends -> Calls] /\ tx' \in [Appends -> {"none", "open", "committed", "aborted"}]
    BY <1>1 DEF IInv, TypeOK, Calls, Connected
  <2>5. lock' \in [Tenants -> Appends \cup {NoAppend}]
    BY <1>1 DEF IInv, TypeOK
  <2>6. /\ snap' = [v \in Appends |-> snap'[v]] /\ \A v \in Appends : snap'[v].seq \in Nat
        /\ past' \in [Appends -> SUBSET Appends]
    BY <1>1 DEF IInv, TypeOK
  <2>7. sent' \subseteq Appends /\ faults' \in 0..MaxFaults
    BY <1>1 DEF IInv, TypeOK
  <2>8. QED
    BY <2>1, <2>2, <2>3, <2>4, <2>5, <2>6, <2>7 DEF TypeOK
<1>4. \A v \in Appends : TxOf(v)'
    BY <1>1 DEF IInv, TypeOK, TxOf
<1>5. ASSUME NEW v \in Appends
      PROVE  EntryOf(v)'
  <2>1. EntryOf(v)
    BY DEF IInv
  <2>2. CASE v = w
    <3>1. tx'[w] = "committed" /\ pend'[w] = {} /\ call'[w] \in {"committed", "threw"}
      BY <1>1 DEF IInv, TypeOK
    <3>2. QED
      BY <1>2, <2>2, <3>1 DEF EntryOf
  <2>3. CASE v # w
    <3>1. tx'[v] = tx[v] /\ pend'[v] = pend[v] /\ call'[v] = call[v]
      BY <1>1, <2>3 DEF IInv, TypeOK
    <3>2. NewEntry(v) \in entries' <=> NewEntry(v) \in entries
      BY <1>2, <2>3, EntryFields
    <3>3. QED
      BY <1>1, <1>2, <2>1, <3>1, <3>2 DEF EntryOf
  <2>4. QED
    BY <2>2, <2>3
<1>6. ASSUME NEW v \in Appends
      PROVE  HeadOf(v)'
  <2>1. CASE v = w
    <3>1. pend'[w] = {} /\ call'[w] # "insert" /\ \A t \in Tenants : lock'[t] # w
      BY <1>1 DEF IInv, TypeOK
    <3>2. QED
      BY <2>1, <3>1 DEF HeadOf
  <2>2. CASE v # w
    <3>1. HeadOf(v) /\ HeadOf(w) /\ TenantOf[v] \in Tenants /\ TenantOf[w] \in Tenants
      BY DEF IInv
    <3>2. tx'[v] = tx[v] /\ pend'[v] = pend[v] /\ call'[v] = call[v]
      BY <1>1, <2>2 DEF IInv, TypeOK
    <3>3. \A t \in Tenants : lock'[t] = v <=> lock[t] = v
      BY <1>1, <2>2
    <3>4. \A t \in Tenants \ {TenantOf[w]} : heads'[t] = heads[t]
      BY <1>2 DEF IInv, TypeOK
    <3>5. pend[v] # {} => TenantOf[v] # TenantOf[w]
      BY <1>2, <2>2 DEF IInv, OneWriter
    <3>6. lock[TenantOf[w]] # v
      BY <1>2, <2>2, <3>1 DEF HeadOf
    <3>7. QED
      BY <1>1, <3>1, <3>2, <3>3, <3>4, <3>5, <3>6 DEF HeadOf
  <2>3. QED
    BY <2>1, <2>2
<1>7. OneWriter'
  <2>1. \A v \in Appends : pend'[v] # {} => pend[v] # {}
    BY <1>1 DEF IInv, TypeOK
  <2>2. QED
    BY <2>1 DEF IInv, OneWriter
<1>8. QED
    BY <1>3, <1>4, <1>5, <1>6, <1>7, CommitsChain DEF IInv

LEMMA NextInv == IInv /\ [Next]_vars => IInv'
<1> SUFFICES ASSUME IInv, [Next]_vars
             PROVE  IInv'
    OBVIOUS
<1>1. CASE UNCHANGED vars
    BY <1>1 DEF vars, IInv, TypeOK, TxOf, EntryOf, HeadOf, OneWriter, ChainIntact,
                NewEntry, RowsOf, LinkedTo
<1>2. CASE Next
    BY <1>2, AppendCalledInv, ConnectsInv, TakesSnapshotInv, GetsHeadInv, HeadMovedInv,
       InsertsInv, InsertRefusedInv, WritesHeadInv, CommitsInv, AppendReturnsInv,
       RollsBackInv, ConnectionLostInv, NotSerializableInv, QueryFailsInv, ServerNoticesInv
       DEF Next, AppendStep
<1>3. QED
    BY <1>1, <1>2

THEOREM Invariance == Spec => []IInv
BY InitInv, NextInv, PTL DEF Spec

\* Whatever appends race and whatever fails, each tenant's rows are one chain
\* from the genesis hash to the head row (append() in pg-store.ts).
THEOREM ChainStaysIntact == Spec => []ChainIntact
<1>1. IInv => ChainIntact
    BY DEF IInv
<1>2. QED
    BY <1>1, Invariance, PTL

\* Every variable of the store keeps its type.
THEOREM TypeCorrect == Spec => []TypeOK
<1>1. IInv => TypeOK
    BY DEF IInv
<1>2. QED
    BY <1>1, Invariance, PTL

----------------------------------------------------------------------------
\* An unbroken chain is accepted.
Chained(rows, n) ==
    /\ \A e \in rows : e.chainSeq \in 1..n /\ e.entryHash = computeEntryHash(e)
    /\ \A i \in 1..n : \E e \in rows : e.chainSeq = i
    /\ \A e, f \in rows : e.chainSeq = f.chainSeq => e = f
    /\ \A e \in rows : \/ e.chainSeq = 1 /\ e.prevHash = GENESIS_PREV_HASH
                       \/ \E f \in rows : f.chainSeq = e.chainSeq - 1 /\ f.entryHash = e.prevHash

LEMMA HeadIsLast ==
    ASSUME NEW n \in Nat, NEW S \in SUBSET (1..n), n \in S
    PROVE  Max(S) = n
<1>1. \A x \in S : (\A y \in S : x >= y) => x = n
    OBVIOUS
<1>2. \A y \in S : n >= y
    OBVIOUS
<1> DEFINE m == CHOOSE x \in S : \A y \in S : x >= y
<1>3. m \in S /\ \A y \in S : m >= y
    BY <1>2
<1>4. m = n
    BY <1>1, <1>3
<1>5. QED
    BY <1>4 DEF Max

LEMMA ChainIsAccepted ==
    ASSUME NEW rows, NEW n \in Nat, NEW fromSeq \in 1..n, Chained(rows, n)
    PROVE  verifyRows(rows, fromSeq) = Valid(n)
<1> DEFINE walked == {r \in rows : r.chainSeq >= fromSeq}
           before(r) == {q \in walked : q.chainSeq < r.chainSeq}
           first == {q.entryHash : q \in {p \in rows : p.chainSeq = fromSeq - 1}}
           last(r) == CHOOSE q \in before(r) : \A p \in before(r) : p.chainSeq <= q.chainSeq
           prev(r) == IF before(r) # {} THEN last(r).entryHash
                      ELSE IF fromSeq = 1 \/ first = {} THEN GENESIS_PREV_HASH
                                                        ELSE CHOOSE h \in first : TRUE
           broken == {r \in walked : r.prevHash # prev(r) \/ r.entryHash # computeEntryHash(r)}
<1>1. \A r \in rows : r.chainSeq \in 1..n /\ r.entryHash = computeEntryHash(r)
    BY DEF Chained
<1>2. ASSUME NEW r \in walked PROVE r.prevHash = prev(r)
  <2>1. r \in rows /\ r.chainSeq \in fromSeq..n
      BY <1>1
  <2>2. CASE r.chainSeq > fromSeq
    <3>1. PICK f \in rows : f.chainSeq = r.chainSeq - 1 /\ f.entryHash = r.prevHash
        BY <2>1, <2>2 DEF Chained
    <3>2. f \in before(r)
        BY <2>1, <2>2, <3>1
    <3>3. \A p \in before(r) : p.chainSeq <= f.chainSeq
        BY <1>1, <2>1, <3>1
    <3>4. last(r) \in before(r) /\ \A p \in before(r) : p.chainSeq <= last(r).chainSeq
        BY <3>2, <3>3
    <3>5. last(r) = f
      <4> HIDE DEF last
      <4>1. last(r) \in rows /\ last(r).chainSeq < r.chainSeq /\ f.chainSeq <= last(r).chainSeq
          BY <3>2, <3>4
      <4>2. last(r).chainSeq = f.chainSeq
          BY <1>1, <2>1, <3>1, <4>1
      <4>3. QED
          BY <4>1, <4>2 DEF Chained
    <3>6. prev(r) = last(r).entryHash
        BY <3>2
    <3>7. QED
        BY <3>1, <3>5, <3>6
  <2>3. CASE r.chainSeq = fromSeq
    <3>1. before(r) = {}
        BY <1>1, <2>3
    <3>2. CASE fromSeq = 1
      <4>1. r.prevHash = GENESIS_PREV_HASH
          BY <1>1, <2>1, <2>3, <3>2 DEF Chained
      <4>2. QED
          BY <3>1, <3>2, <4>1
    <3>3. CASE fromSeq # 1
      <4>1. PICK f \in rows : f.chainSeq = fromSeq - 1 /\ f.entryHash = r.prevHash
          BY <2>1, <2>3, <3>3 DEF Chained
      <4>2. \A p \in rows : p.chainSeq = fromSeq - 1 => p = f
          BY <4>1 DEF Chained
      <4>3. first = {f.entryHash}
          BY <4>1, <4>2
      <4>4. prev(r) = CHOOSE h \in first : TRUE
          BY <3>1, <3>3, <4>3
      <4>5. (CHOOSE h \in first : TRUE) \in first
          BY <4>3
      <4>6. QED
          BY <4>1, <4>3, <4>4, <4>5
    <3>4. QED
        BY <3>2, <3>3
  <2> HIDE DEF prev
  <2>4. QED
      BY <2>1, <2>2, <2>3
<1>3. broken = {}
  <2> HIDE DEF prev
  <2>1. QED
      BY <1>1, <1>2
<1>4. walked # {} /\ Max({r.chainSeq : r \in walked}) = n
  <2>1. {r.chainSeq : r \in walked} \in SUBSET (1..n)
      BY <1>1
  <2>2. PICK r \in rows : r.chainSeq = n
      BY DEF Chained
  <2>3. r \in walked
      BY <2>2
  <2>4. n \in {q.chainSeq : q \in walked}
      BY <2>2, <2>3
  <2>5. QED
      BY <2>1, <2>3, <2>4, HeadIsLast
<1>5. verifyRows(rows, fromSeq) =
        IF walked = {} THEN Valid(0)
        ELSE IF broken # {} THEN BrokenAt(Min({r.chainSeq : r \in broken}))
        ELSE Valid(Max({r.chainSeq : r \in walked}))
    BY DEF verifyRows
<1> HIDE DEF broken, walked
<1>6. QED
    BY <1>3, <1>4, <1>5

\* verifyChain, called between any two steps of any append and from any place,
\* finds the chain of every tenant valid up to its head.
THEOREM VerificationAccepts == Spec => []VerifyAccepts
<1>1. IInv => VerifyAccepts
  <2> SUFFICES ASSUME IInv, NEW t \in Tenants, NEW fromSeq \in 1..heads[t].seq
               PROVE  verifyRows(RowsOf(t), fromSeq) = Valid(heads[t].seq)
      BY DEF VerifyAccepts
  <2> DEFINE n == heads[t].seq
  <2>1. n \in Nat
      BY DEF IInv, TypeOK
  <2>2. \A e \in RowsOf(t) : e.entryHash = computeEntryHash(e)
    <3>1. \A w \in Appends : NewEntry(w).entryHash = computeEntryHash(NewEntry(w))
        BY DEF NewEntry, NextEntry, computeEntryHash, canonicalSerialization, LinesBefore, LinesAfter
    <3>2. \A e \in RowsOf(t) : \E w \in Appends : e = NewEntry(w)
        BY DEF IInv, TypeOK, RowsOf
    <3>3. QED
        BY <3>1, <3>2
  <2>3. /\ {e.chainSeq : e \in RowsOf(t)} = 1..n
        /\ \A e, f \in RowsOf(t) : e.chainSeq = f.chainSeq => e = f
        /\ \A e \in RowsOf(t) :
             \/ e.chainSeq = 1 /\ e.prevHash = GENESIS_PREV_HASH
             \/ \E f \in RowsOf(t) : LinkedTo(f, [seq |-> e.chainSeq - 1, hash |-> e.prevHash])
      BY DEF IInv, ChainIntact
  <2>4. /\ \A e \in RowsOf(t) : e.chainSeq \in 1..n
        /\ \A i \in 1..n : \E e \in RowsOf(t) : e.chainSeq = i
      BY <2>3
  <2>5. Chained(RowsOf(t), n)
      BY <2>2, <2>3, <2>4 DEF Chained, LinkedTo
  <2>6. QED
      BY <2>1, <2>5, ChainIsAccepted
<1>2. QED
    BY <1>1, Invariance, PTL

----------------------------------------------------------------------------
\* Why an append is refused: a head that is not that of a snapshot was moved
\* by an append that committed since, and while nothing fails the caller of an
\* append that committed is told so.
MovedByOvertaker(w) ==
    /\ past[w] \subseteq {v \in Appends : tx[v] = "committed"}
    /\ /\ call[w] \in {"lock", "insert", "head", "commit"}
       /\ heads[TenantOf[w]] # snap[w]
       => Overtakers(w) # {}

CommitIsTold(w) == faults = 0 =>
    /\ call[w] = "threw" => tx[w] = "aborted"
    /\ call[w] \in {"rollback", "threw"} => Overtakers(w) # {}

RefusalInv == IInv /\ \A w \in Appends : MovedByOvertaker(w) /\ CommitIsTold(w)

\* The steps that take no snapshot and commit nothing.
LEMMA SnapsStay ==
    ASSUME NEW w \in Appends,
           \/ AppendStep(w) \/ AppendCalled(w) \/ NotSerializable(w)
           \/ QueryFails(w) \/ ConnectionLost(w),
           ~TakesSnapshot(w), ~Commits(w)
    PROVE  UNCHANGED <<snap, past, entries, heads>>
BY DEF AppendStep, AppendCalled, NotSerializable, QueryFails, ConnectionLost, Connects, GetsHead,
       HeadMoved, Inserts, InsertRefused, WritesHead, AppendReturns, RollsBack, ServerNotices

\* What was committed stays committed, so whoever was overtaken stays so.
LEMMA CommittedStays ==
    ASSUME IInv, [Next]_vars, NEW v \in Appends, tx[v] = "committed"
    PROVE  tx'[v] = "committed"
<1>1. tx \in [Appends -> {"none", "open", "committed", "aborted"}] /\ TxOf(v)
    BY DEF IInv, TypeOK
<1>2. \A w \in Appends : tx[w] = "open" \/ tx[w] = "none" => w # v
    BY <1>1
<1>3. QED
    BY <1>1 DEF Next, vars, AppendStep, AppendCalled, NotSerializable, QueryFails, ConnectionLost,
                Connects, TakesSnapshot, GetsHead, HeadMoved, Inserts, InsertRefused, WritesHead,
                Commits, AppendReturns, RollsBack, ServerNotices, Fails, Close, Goto, TxOf

LEMMA StaysOvertaken ==
    ASSUME IInv, [Next]_vars, NEW w \in Appends, past'[w] = past[w], Overtakers(w) # {}
    PROVE  Overtakers(w)' # {}
<1>1. PICK v \in Appends : tx[v] = "committed" /\ v \notin past[w]
    BY DEF Overtakers
<1>2. tx'[v] = "committed"
    BY <1>1, CommittedStays
<1>3. QED
    BY <1>1, <1>2 DEF Overtakers

\* A head moves by the commit of an append that was not in the snapshot.
LEMMA MovesByOvertaker ==
    ASSUME RefusalInv, [Next]_vars, NEW v \in Appends
    PROVE  MovedByOvertaker(v)'
<1>1. /\ call \in [Appends -> Calls] /\ tx \in [Appends -> {"none", "open", "committed", "aborted"}]
      /\ snap = [w \in Appends |-> snap[w]] /\ past \in [Appends -> SUBSET Appends]
      /\ heads = [t \in Tenants |-> heads[t]] /\ TenantOf[v] \in Tenants
    BY AuditAssumption DEF RefusalInv, IInv, TypeOK
<1>2. IInv /\ MovedByOvertaker(v)
    BY DEF RefusalInv
<1>3. ASSUME UNCHANGED <<snap, past, heads>>,
             call'[v] \in {"lock", "insert", "head", "commit"}
                => call[v] \in {"lock", "insert", "head", "commit"}
      PROVE  MovedByOvertaker(v)'
  <2>1. past'[v] \subseteq {w \in Appends : tx'[w] = "committed"}
      BY <1>2, <1>3, CommittedStays DEF MovedByOvertaker
  <2>2. Overtakers(v) # {} => Overtakers(v)' # {}
      BY <1>2, <1>3, StaysOvertaken
  <2>3. QED
      BY <1>2, <1>3, <2>1, <2>2 DEF MovedByOvertaker
<1>4. CASE UNCHANGED vars
    BY <1>3, <1>4 DEF vars
<1>5. ASSUME NEW w \in Appends, TakesSnapshot(w) PROVE MovedByOvertaker(v)'
  <2>1. UNCHANGED <<tx, heads>> /\ call' = [call EXCEPT ![w] = "lock"]
      BY <1>5 DEF TakesSnapshot, Goto
  <2>2. CASE v = w
    <3>1. /\ snap'[v] = heads[TenantOf[v]]
          /\ past'[v] = {u \in Appends : tx[u] = "committed"}
        BY <1>1, <1>5, <2>2 DEF TakesSnapshot
    <3>2. QED
        BY <2>1, <3>1 DEF MovedByOvertaker
  <2>3. CASE v # w
    <3>1. snap'[v] = snap[v] /\ past'[v] = past[v] /\ call'[v] = call[v]
        BY <1>1, <1>5, <2>1, <2>3 DEF TakesSnapshot
    <3>2. Overtakers(v)' = Overtakers(v)
        BY <2>1, <3>1 DEF Overtakers
    <3>3. QED
        BY <1>2, <2>1, <3>1, <3>2 DEF MovedByOvertaker
  <2>4. QED
      BY <2>2, <2>3
<1>6. ASSUME NEW w \in Appends, Commits(w) PROVE MovedByOvertaker(v)'
  <2>1. past' = past /\ tx[w] = "open" /\ tx'[w] = "committed"
      BY <1>1, <1>6 DEF Commits, Close
  <2>2. past'[v] \subseteq {u \in Appends : tx'[u] = "committed"}
      BY <1>2, <2>1, CommittedStays DEF MovedByOvertaker
  <2>3. w \in Overtakers(v)'
      BY <1>2, <2>1 DEF MovedByOvertaker, Overtakers
  <2>4. QED
      BY <2>2, <2>3 DEF MovedByOvertaker
<1>7. ASSUME NEW w \in Appends,
             \/ AppendStep(w) \/ AppendCalled(w) \/ NotSerializable(w)
             \/ QueryFails(w) \/ ConnectionLost(w),
             ~TakesSnapshot(w), ~Commits(w)
      PROVE  MovedByOvertaker(v)'
  <2>1. call'[v] \in {"lock", "insert", "head", "commit"}
          => call[v] \in {"lock", "insert", "head", "commit"}
      BY <1>1, <1>7
         DEF AppendStep, AppendCalled, NotSerializable, QueryFails, ConnectionLost, Connects,
             GetsHead, HeadMoved, Inserts, InsertRefused, WritesHead, AppendReturns, RollsBack,
             ServerNotices, Fails, Goto
  <2>2. QED
      BY <1>3, <1>7, <2>1, SnapsStay
<1>8. QED
    BY <1>4, <1>5, <1>6, <1>7 DEF Next

\* A place is taken only of a head that is not that of the snapshot.
LEMMA TakenIsMoved ==
    ASSUME IInv, NEW w \in Appends, PlaceTaken(w)
    PROVE  heads[TenantOf[w]] # snap[w]
<1>1. PICK e \in RowsOf(TenantOf[w]) : e.chainSeq = snap[w].seq + 1
    BY EntryFields DEF PlaceTaken, SamePlace, RowsOf
<1>2. e.chainSeq \in 1..heads[TenantOf[w]].seq
    BY <1>1, AuditAssumption DEF IInv, ChainIntact
<1>3. snap[w].seq \in Nat
    BY DEF IInv, TypeOK
<1>4. QED
    BY <1>1, <1>2, <1>3

LEMMA RefusalsAreTold ==
    ASSUME RefusalInv, [Next]_vars, NEW v \in Appends
    PROVE  CommitIsTold(v)'
<1>1. /\ call \in [Appends -> Calls] /\ tx \in [Appends -> {"none", "open", "committed", "aborted"}]
      /\ faults \in Nat /\ past \in [Appends -> SUBSET Appends]
    BY AuditAssumption DEF RefusalInv, IInv, TypeOK
<1>2. IInv /\ TxOf(v) /\ MovedByOvertaker(v) /\ CommitIsTold(v)
    BY DEF RefusalInv, IInv
<1>3. CASE UNCHANGED vars
    BY <1>2, <1>3 DEF vars, CommitIsTold, Overtakers
<1>4. ASSUME faults' = 0, NEW w \in Appends,
             \/ AppendStep(w) \/ AppendCalled(w) \/ NotSerializable(w)
             \/ QueryFails(w) \/ ConnectionLost(w)
      PROVE  /\ call'[v] = "threw" => tx'[v] = "aborted"
             /\ call'[v] \in {"rollback", "threw"} => Overtakers(v)' # {}
  <2>1. ~QueryFails(w) /\ ~ConnectionLost(w)
      BY <1>1, <1>4 DEF QueryFails, ConnectionLost
  <2>2. faults = 0
      BY <1>4, <2>1
         DEF AppendStep, AppendCalled, NotSerializable, Connects, TakesSnapshot, GetsHead,
             HeadMoved, Inserts, InsertRefused, WritesHead, Commits, AppendReturns, RollsBack,
             ServerNotices
  <2>3. ASSUME call'[v] = "threw" PROVE tx'[v] = "aborted"
    <3>1. tx[v] = "aborted"
        BY <1>1, <1>2, <1>4, <2>1, <2>2, <2>3
           DEF AppendStep, AppendCalled, NotSerializable, Connects, TakesSnapshot, GetsHead,
               HeadMoved, Inserts, InsertRefused, WritesHead, Commits, AppendReturns, RollsBack,
               ServerNotices, Fails, Goto, CommitIsTold, TxOf
    <3>2. call[v] \in {"rollback", "threw"}
        BY <1>1, <1>4, <2>1, <2>3
           DEF AppendStep, AppendCalled, NotSerializable, Connects, TakesSnapshot, GetsHead,
               HeadMoved, Inserts, InsertRefused, WritesHead, Commits, AppendReturns, RollsBack,
               ServerNotices, Fails, Goto
    <3>3. QED
        BY <1>1, <1>4, <2>1, <3>1, <3>2
           DEF AppendStep, AppendCalled, NotSerializable, Connects, TakesSnapshot, GetsHead,
               HeadMoved, Inserts, InsertRefused, WritesHead, Commits, AppendReturns, RollsBack,
               ServerNotices, Fails, Close
  <2>4. ASSUME call'[v] \in {"rollback", "threw"} PROVE Overtakers(v)' # {}
    <3>1. past'[v] = past[v]
      <4>1. CASE TakesSnapshot(w)
        <5>1. v # w
            BY <1>1, <2>4, <4>1 DEF TakesSnapshot, Goto
        <5>2. QED
            BY <1>1, <4>1, <5>1 DEF TakesSnapshot
      <4>2. CASE Commits(w)
          BY <4>2 DEF Commits
      <4>3. QED
          BY <1>4, <4>1, <4>2, SnapsStay
    <3>2. Overtakers(v) # {}
      <4>1. CASE call[v] \in {"rollback", "threw"}
          BY <1>2, <2>2, <4>1 DEF CommitIsTold
      <4>2. CASE call[v] \notin {"rollback", "threw"}
        <5>1. v = w /\ (HeadMoved(w) \/ InsertRefused(w) \/ NotSerializable(w))
            BY <1>1, <1>4, <2>1, <2>4, <4>2
               DEF AppendStep, AppendCalled, Connects, TakesSnapshot, GetsHead, Inserts,
                   WritesHead, Commits, AppendReturns, RollsBack, ServerNotices, HeadMoved,
                   InsertRefused, NotSerializable, Fails, Goto
        <5>2. CASE HeadMoved(w)
            BY <1>2, <5>1, <5>2 DEF HeadMoved, MovedByOvertaker
        <5>3. CASE InsertRefused(w)
            BY <1>2, <5>1, <5>3, TakenIsMoved DEF InsertRefused, MovedByOvertaker
        <5>4. CASE NotSerializable(w)
            BY <5>1, <5>4 DEF NotSerializable
        <5>5. QED
            BY <5>1, <5>2, <5>3, <5>4
      <4>3. QED
          BY <4>1, <4>2
    <3>3. QED
        BY <1>2, <3>1, <3>2, StaysOvertaken
  <2>5. QED
      BY <2>3, <2>4
<1>5. QED
    BY <1>3, <1>4 DEF Next, CommitIsTold

\* While nothing fails, an append is refused only if another, of any tenant,
\* committed while it ran and tells its caller so: racing appends never all
\* lose, and two transactions never abort each other.
THEOREM RefusalHasAWinner == Spec => []RefusedByAWinner
<1>1. Init => RefusalInv
  <2> SUFFICES ASSUME Init, NEW w \in Appends PROVE MovedByOvertaker(w) /\ CommitIsTold(w)
      BY InitInv DEF RefusalInv
  <2>1. QED
      BY DEF Init, MovedByOvertaker, CommitIsTold
<1>2. RefusalInv /\ [Next]_vars => RefusalInv'
  <2> SUFFICES ASSUME RefusalInv, [Next]_vars PROVE RefusalInv'
      OBVIOUS
  <2>1. IInv'
      BY NextInv DEF RefusalInv
  <2>2. \A w \in Appends : MovedByOvertaker(w)' /\ CommitIsTold(w)'
      BY MovesByOvertaker, RefusalsAreTold
  <2>3. QED
      BY <2>1, <2>2 DEF RefusalInv
<1>3. RefusalInv => RefusedByAWinner
  <2> SUFFICES ASSUME RefusalInv, faults = 0,
                      NEW w \in Appends, call[w] \in {"rollback", "threw"}
               PROVE  \E v \in Overtakers(w) : call[v] \in {"committed", "returned"}
      BY DEF RefusedByAWinner
  <2>1. PICK v \in Appends : v \in Overtakers(w) /\ tx[v] = "committed"
      BY DEF RefusalInv, CommitIsTold, Overtakers
  <2>2. call[v] \in Calls /\ TxOf(v) /\ CommitIsTold(v)
      BY DEF RefusalInv, IInv, TypeOK
  <2>3. call[v] \in {"committed", "returned"}
      BY <2>1, <2>2 DEF TxOf, CommitIsTold, Calls, Connected
  <2>4. QED
      BY <2>1, <2>3
<1>4. QED
    BY <1>1, <1>2, <1>3, PTL DEF Spec

----------------------------------------------------------------------------
\* What an append has said is what the log's replies record.
LEMMA CommitsMaps ==
    ASSUME IInv, NEW w \in Appends, Commits(w)
    PROVE  Log!Extend(w)
<1> DEFINE T == TenantOf[w]
           placed == {[tenant |-> e.tenant, seq |-> e.chainSeq, call |-> CallOf(e)] : e \in entries}
           length == [t \in Tenants |-> heads[t].seq]
<1>1. T \in Tenants /\ w \in sent /\ tx[w] = "open" /\ call[w] \in {"commit", "threw"}
    BY AuditAssumption DEF Commits
<1>2. \A e \in placed : e.call # w
    BY <1>1, NoEntryYet
<1>3. Told(w) \in {Log!Silent, Log!Threw}
    BY <1>1 DEF Told, Log!Silent, Log!Threw
<1>4. length' = [length EXCEPT ![T] = @ + 1]
  <2>1. heads' = [heads EXCEPT ![T] = HeadAfter(NewEntry(w))] /\ HeadAfter(NewEntry(w)).seq = heads[T].seq + 1
    BY CommitsFacts, HeadFields
  <2>2. \A t \in Tenants : heads'[t].seq = IF t = T THEN heads[T].seq + 1 ELSE heads[t].seq
    BY <1>1, <2>1 DEF IInv, TypeOK
  <2>3. QED
    BY <1>1, <2>2
<1>5. placed' = placed \cup {Log!Place(w, length[T] + 1)}
  <2>1. entries' = entries \cup {NewEntry(w)} /\ heads[T] = snap[w]
    BY CommitsFacts
  <2>2. placed' = placed \cup {[tenant |-> NewEntry(w).tenant, seq |-> NewEntry(w).chainSeq, call |-> CallOf(NewEntry(w))]}
    BY <2>1
  <2>3. [tenant |-> NewEntry(w).tenant, seq |-> NewEntry(w).chainSeq, call |-> CallOf(NewEntry(w))]
           = Log!Place(w, length[T] + 1)
    BY <1>1, <2>1, EntryFields DEF Log!Place
  <2>4. QED
    BY <2>2, <2>3
<1>6. [v \in Appends |-> Told(v)]' = [v \in Appends |-> Told(v)]
  <2>1. \A v \in Appends : NewEntry(v)' = NewEntry(v)
    BY CommitsFacts
  <2>2. call' = [call EXCEPT ![w] = IF @ = "commit" THEN "committed" ELSE @] /\ call \in [Appends -> Calls]
    BY DEF Commits, IInv, TypeOK
  <2>3. \A v \in Appends : Told(v)' = Told(v)
    BY <1>1, <2>1, <2>2 DEF Told
  <2>4. QED
    BY <2>3
<1>7. QED
    BY <1>2, <1>3, <1>4, <1>5, <1>6 DEF Log!Extend

\* A step of append w that leaves rows, heads and snapshots alone, and moves
\* its call only among the calls that have said nothing.
LEMMA SilentStep ==
    ASSUME IInv, NEW w \in Appends,
           UNCHANGED <<snap, past, entries, heads>>,
           \A v \in Appends \ {w} : call'[v] = call[v],
           \/ call'[w] = call[w]
           \/ call[w] \notin {"threw", "returned"} /\ call'[w] \notin {"threw", "returned"}
    PROVE  UNCHANGED Log!logVars
<1>1. \A v \in Appends : NewEntry(v)' = NewEntry(v)
    BY EntryStays
<1>2. \A v \in Appends : Told(v)' = Told(v)
    BY <1>1 DEF Told
<1>3. QED
    BY <1>2 DEF Log!logVars

LEMMA AppendReturnsMaps ==
    ASSUME IInv, NEW w \in Appends, AppendReturns(w)
    PROVE  Log!Return(w)
<1> DEFINE placed == {[tenant |-> e.tenant, seq |-> e.chainSeq, call |-> CallOf(e)] : e \in entries}
           reply == [v \in Appends |-> Told(v)]
<1>1. /\ call[w] = "committed" /\ call' = [call EXCEPT ![w] = "returned"] /\ call \in [Appends -> Calls]
      /\ UNCHANGED <<snap, past, entries, heads>>
    BY DEF AppendReturns, Goto, IInv, TypeOK
<1>2. \A v \in Appends : NewEntry(v)' = NewEntry(v)
    BY <1>1, EntryStays
<1>3. NewEntry(w) \in entries
    BY <1>1 DEF IInv, TxOf, EntryOf
<1>4. Told(w) = Log!Silent
    BY <1>1 DEF Told, Log!Silent
<1>5. Told(w)' = Log!Returned(NewEntry(w).chainSeq)
    BY <1>1, <1>2 DEF Told, Log!Returned
<1>6. \A v \in Appends \ {w} : Told(v)' = Told(v)
    BY <1>1, <1>2 DEF Told
<1>7. reply' = [reply EXCEPT ![w] = Log!Returned(NewEntry(w).chainSeq)]
    BY <1>5, <1>6
<1>8. \E e \in placed : e.call = w /\ e.seq = NewEntry(w).chainSeq
  <2> DEFINE p == [tenant |-> NewEntry(w).tenant, seq |-> NewEntry(w).chainSeq, call |-> CallOf(NewEntry(w))]
  <2>1. p \in placed
    BY <1>3
  <2>2. p.call = w /\ p.seq = NewEntry(w).chainSeq
    BY EntryFields
  <2>3. QED
    BY <2>1, <2>2
<1>9. QED
    BY <1>1, <1>4, <1>7, <1>8 DEF Log!Return

LEMMA ThrowMaps ==
    ASSUME IInv, NEW w \in Appends, RollsBack(w) \/ ConnectionLost(w)
    PROVE  Log!Throw(w)
<1> DEFINE reply == [v \in Appends |-> Told(v)]
<1>1. /\ call[w] \notin {"threw", "returned"} /\ call' = [call EXCEPT ![w] = "threw"]
      /\ call \in [Appends -> Calls]
      /\ UNCHANGED <<snap, past, entries, heads>>
    BY DEF RollsBack, ConnectionLost, Goto, Connected, IInv, TypeOK
<1>2. \A v \in Appends : NewEntry(v)' = NewEntry(v)
    BY <1>1, EntryStays
<1>3. Told(w) = Log!Silent /\ Told(w)' = Log!Threw
    BY <1>1 DEF Told, Log!Silent, Log!Threw
<1>4. \A v \in Appends \ {w} : Told(v)' = Told(v)
    BY <1>1, <1>2 DEF Told
<1>5. reply' = [reply EXCEPT ![w] = Log!Threw]
    BY <1>3, <1>4
<1>6. QED
    BY <1>1, <1>3, <1>5 DEF Log!Throw

LEMMA TakesSnapshotMaps ==
    ASSUME IInv, NEW w \in Appends, TakesSnapshot(w)
    PROVE  UNCHANGED Log!logVars
<1>1. /\ call[w] = "begin" /\ call' = [call EXCEPT ![w] = "lock"]
      /\ snap' = [snap EXCEPT ![w] = heads[TenantOf[w]]]
      /\ call \in [Appends -> Calls] /\ snap = [v \in Appends |-> snap[v]]
      /\ UNCHANGED <<entries, heads>>
    BY DEF TakesSnapshot, Goto, IInv, TypeOK
<1>2. \A v \in Appends \ {w} : NewEntry(v)' = NewEntry(v) /\ call'[v] = call[v]
  <2>1. \A v \in Appends \ {w} : snap'[v] = snap[v]
    BY <1>1
  <2>2. QED
    BY <1>1, <2>1, EntryStays
<1>3. Told(w)' = Told(w)
    BY <1>1 DEF Told
<1>4. \A v \in Appends : Told(v)' = Told(v)
    BY <1>2, <1>3 DEF Told
<1>5. QED
    BY <1>1, <1>4 DEF Log!logVars

LEMMA StepMaps ==
    ASSUME IInv, [Next]_vars
    PROVE  Log!LogNext \/ UNCHANGED Log!logVars
<1>1. ASSUME NEW w \in Appends,
             AppendCalled(w) \/ Connects(w) \/ GetsHead(w) \/ Inserts(w) \/ WritesHead(w)
      PROVE  UNCHANGED Log!logVars
  <2>1. call \in [Appends -> Calls]
    BY DEF IInv, TypeOK
  <2>2. /\ UNCHANGED <<snap, past, entries, heads>>
        /\ \A v \in Appends \ {w} : call'[v] = call[v]
        /\ call[w] \notin {"threw", "returned"} /\ call'[w] \notin {"threw", "returned"}
    BY <1>1, <2>1 DEF AppendCalled, Connects, GetsHead, Inserts, WritesHead, Goto
  <2>3. QED
    BY <2>2, SilentStep
<1>2. ASSUME NEW w \in Appends, HeadMoved(w) \/ InsertRefused(w) \/ NotSerializable(w) \/ QueryFails(w)
      PROVE  UNCHANGED Log!logVars
  <2>1. call \in [Appends -> Calls]
    BY DEF IInv, TypeOK
  <2>2. /\ UNCHANGED <<snap, past, entries, heads>>
        /\ \A v \in Appends \ {w} : call'[v] = call[v]
        /\ call[w] \notin {"threw", "returned"} /\ call'[w] \notin {"threw", "returned"}
    BY <1>2, <2>1 DEF HeadMoved, InsertRefused, NotSerializable, QueryFails, Fails, Goto
  <2>3. QED
    BY <2>2, SilentStep
<1>3. ASSUME NEW w \in Appends, ServerNotices(w)
      PROVE  UNCHANGED Log!logVars
    BY <1>3, SilentStep DEF ServerNotices
<1>4. CASE UNCHANGED vars
  <2>1. \A v \in Appends : NewEntry(v)' = NewEntry(v)
    BY <1>4, EntryStays DEF vars
  <2>2. \A v \in Appends : Told(v)' = Told(v)
    BY <1>4, <2>1 DEF Told, vars
  <2>3. QED
    BY <1>4, <2>2 DEF Log!logVars, vars
<1>5. CASE Next
    BY <1>1, <1>2, <1>3, <1>5, CommitsMaps, AppendReturnsMaps, ThrowMaps, TakesSnapshotMaps
       DEF Next, AppendStep, Log!LogNext
<1>6. QED
    BY <1>4, <1>5

\* The store implements the append-only log: append() adds one entry at the
\* end of its tenant's chain or none, and answers with the place it got.
THEOREM Refinement == Spec => AppendOnly
<1>1. Init => Log!LogInit
    BY NoHeadFields DEF Init, Log!LogInit, Log!Silent, Told
<1>2. IInv /\ [Next]_vars => [Log!LogNext]_(Log!logVars)
    BY StepMaps
<1>3. QED
    BY <1>1, <1>2, Invariance, PTL DEF Spec, AppendOnly, Log!LogSpec

==============================================================================
