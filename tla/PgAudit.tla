------------------------------ MODULE PgAudit ------------------------------
(***************************************************************************)
(* The Postgres audit store: append() of packages/audit/src/pg-store.ts    *)
(* over the tables of packages/audit/migrations/0001_init.sql.             *)
(*                                                                         *)
(* An append is one SERIALIZABLE transaction on a pooled connection: lock  *)
(* and read the tenant's head row, insert the entry, write the head,       *)
(* commit.  call[w] is the client's side, tx[w] the server's: a client     *)
(* that lost its connection (or whose process stopped) leaves behind a     *)
(* transaction that keeps its locks until the server notices, and a COMMIT *)
(* already sent may still land.                                            *)
(***************************************************************************)
EXTENDS HashChain

CONSTANTS
    Appends,     \* append() calls
    Tenants,
    TenantOf,    \* TenantOf[w]: the tenant of the entry
    InputOf,     \* InputOf[w]: its body; the entryId is of the append's own
    PoolSize,    \* connections in the pool
    NoAppend,
    MaxFaults    \* bound on failed queries and lost connections

ASSUME AuditAssumption ==
    /\ TenantOf \in [Appends -> Tenants]
    /\ PoolSize \in Nat \ {0}
    /\ MaxFaults \in Nat
    /\ NoAppend \notin Appends
    /\ \A w \in Appends : InputOf[w]["entryId"].text = w

VARIABLES
    call,      \* the query append w awaits, or how it ended
    tx,        \* the server's side of its transaction
    snap,      \* the head in the transaction's snapshot
    past,      \* past[w]: the appends whose commits w's snapshot holds
    pend,      \* the entries it inserted and has not committed
    entries,   \* committed rows of audit_entries
    heads,     \* committed row of audit_chain_heads, NoHead if none
    lock,      \* lock[t]: the append whose transaction locks t's head row
    sent,      \* appends whose COMMIT was sent
    faults

vars == <<call, tx, snap, past, pend, entries, heads, lock, sent, faults>>

\* "begin", "lock", "insert", "head", "commit", "rollback": that query was
\* sent; "committed": COMMIT was executed, its answer is on its way.
Connected == {"begin", "lock", "insert", "head", "commit", "committed", "rollback"}
Calls == Connected \cup {"idle", "connect", "returned", "threw"}

NewEntry(w) == NextEntry(TenantOf[w], snap[w], InputOf[w])
CallOf(e) == e.body["entryId"].text

RowsOf(t) == {e \in entries : e.tenant = t}

\* Hashes have no type of their own: what an entry may be is said by NewEntry.
TypeOK ==
    /\ call \in [Appends -> Calls]
    /\ tx \in [Appends -> {"none", "open", "committed", "aborted"}]
    /\ snap = [w \in Appends |-> snap[w]]
    /\ past \in [Appends -> SUBSET Appends]
    /\ heads = [t \in Tenants |-> heads[t]]
    /\ pend = [w \in Appends |-> pend[w]]
    /\ \A w \in Appends : snap[w].seq \in Nat /\ pend[w] \subseteq {NewEntry(w)}
    /\ \A t \in Tenants : heads[t].seq \in Nat
    /\ entries \subseteq {NewEntry(w) : w \in Appends}
    /\ lock \in [Tenants -> Appends \cup {NoAppend}]
    /\ sent \subseteq Appends
    /\ faults \in 0..MaxFaults

Init ==
    /\ call = [w \in Appends |-> "idle"]
    /\ tx = [w \in Appends |-> "none"]
    /\ snap = [w \in Appends |-> NoHead]
    /\ past = [w \in Appends |-> {}]
    /\ pend = [w \in Appends |-> {}]
    /\ entries = {}
    /\ heads = [t \in Tenants |-> NoHead]
    /\ lock = [t \in Tenants |-> NoAppend]
    /\ sent = {}
    /\ faults = 0

----------------------------------------------------------------------------
Goto(w, query) == call' = [call EXCEPT ![w] = query]

\* The end of a transaction on the server: its locks and its uncommitted rows
\* are gone.
Close(w, end) ==
    /\ tx' = [tx EXCEPT ![w] = end]
    /\ pend' = [pend EXCEPT ![w] = {}]
    /\ lock' = [t \in Tenants |-> IF lock[t] = w THEN NoAppend ELSE lock[t]]

AppendCalled(w) ==
    /\ call[w] = "idle"
    /\ Goto(w, "connect")
    /\ UNCHANGED <<tx, snap, past, pend, entries, heads, lock, sent, faults>>

\* Defect (for AppendsSettle): no `finally` gives the connection back.
ConnectsNoRelease(w) ==
    /\ call[w] = "connect"
    /\ Cardinality({v \in Appends : tx[v] # "none"}) < PoolSize
    /\ Goto(w, "begin")
    /\ tx' = [tx EXCEPT ![w] = "open"]
    /\ UNCHANGED <<snap, past, pend, entries, heads, lock, sent, faults>>

\* pool.connect() waits for a free connection; `finally` gives it back.
Connects(w) ==
    /\ call[w] = "connect"
    /\ Cardinality({v \in Appends : call[v] \in Connected}) < PoolSize
    /\ Goto(w, "begin")
    /\ tx' = [tx EXCEPT ![w] = "open"]
    /\ UNCHANGED <<snap, past, pend, entries, heads, lock, sent, faults>>

\* SELECT ... FOR UPDATE takes the transaction's snapshot.
TakesSnapshot(w) ==
    /\ call[w] = "begin"
    /\ snap' = [snap EXCEPT ![w] = heads[TenantOf[w]]]
    /\ past' = [past EXCEPT ![w] = {v \in Appends : tx[v] = "committed"}]
    /\ Goto(w, "lock")
    /\ UNCHANGED <<tx, pend, entries, heads, lock, sent, faults>>

\* It returns no row and locks nothing when the snapshot has no head row; it
\* waits while another transaction holds the row, and gets it unchanged.
GetsHead(w) ==
    /\ call[w] = "lock"
    /\ \/ snap[w] = NoHead /\ UNCHANGED lock
       \/ /\ snap[w] # NoHead
          /\ heads[TenantOf[w]] = snap[w]
          /\ lock[TenantOf[w]] = NoAppend
          /\ lock' = [lock EXCEPT ![TenantOf[w]] = w]
    /\ Goto(w, "insert")
    /\ UNCHANGED <<tx, snap, past, pend, entries, heads, sent, faults>>

\* A query fails: the server aborts the transaction, the catch block is next.
Fails(w) == Close(w, "aborted") /\ Goto(w, "rollback")

\* Defect (for RefusedByAWinner): FOR UPDATE NOWAIT.
HeadMovedOrLocked(w) ==
    /\ call[w] = "lock"
    /\ snap[w] # NoHead
    /\ heads[TenantOf[w]] # snap[w] \/ lock[TenantOf[w]] # NoAppend
    /\ Fails(w)
    /\ UNCHANGED <<snap, past, entries, heads, sent, faults>>

\* The row changed since the snapshot: could not serialize access (40001).
HeadMoved(w) ==
    /\ call[w] = "lock"
    /\ snap[w] # NoHead
    /\ heads[TenantOf[w]] # snap[w]
    /\ Fails(w)
    /\ UNCHANGED <<snap, past, entries, heads, sent, faults>>

\* UNIQUE (tenant_id, chain_seq): the INSERT waits for an open transaction
\* that inserted the same place, and fails once the place is taken.
SamePlace(e, f) == e.tenant = f.tenant /\ e.chainSeq = f.chainSeq
PlaceTaken(w) == \E e \in entries : SamePlace(e, NewEntry(w))
PlaceAwaited(w) == \E v \in Appends \ {w} : \E e \in pend[v] : SamePlace(e, NewEntry(w))

\* Defect (for TypeOK): the place is read again when the entry is inserted.
InsertsAtLiveHead(w) ==
    /\ call[w] = "insert"
    /\ pend' = [pend EXCEPT ![w] = {NextEntry(TenantOf[w], heads[TenantOf[w]], InputOf[w])}]
    /\ Goto(w, "head")
    /\ UNCHANGED <<tx, snap, past, entries, heads, lock, sent, faults>>

\* Defect (for AppendOnly): the INSERT commits on its own.
InsertsAutocommit(w) ==
    /\ call[w] = "insert"
    /\ ~PlaceTaken(w) /\ ~PlaceAwaited(w)
    /\ entries' = entries \cup {NewEntry(w)}
    /\ Goto(w, "head")
    /\ UNCHANGED <<tx, snap, past, pend, heads, lock, sent, faults>>

Inserts(w) ==
    /\ call[w] = "insert"
    /\ ~PlaceTaken(w) /\ ~PlaceAwaited(w)
    /\ pend' = [pend EXCEPT ![w] = {NewEntry(w)}]
    /\ Goto(w, "head")
    /\ UNCHANGED <<tx, snap, past, entries, heads, lock, sent, faults>>

InsertRefused(w) ==
    /\ call[w] = "insert"
    /\ PlaceTaken(w)
    /\ Fails(w)
    /\ UNCHANGED <<snap, past, entries, heads, sent, faults>>

\* INSERT or UPDATE of the head row, whichever the SELECT called for; the new
\* value is visible to others once committed.
WritesHead(w) ==
    /\ call[w] = "head"
    /\ snap[w] = NoHead => heads[TenantOf[w]] = NoHead
    /\ Goto(w, "commit")
    /\ sent' = sent \cup {w}
    /\ UNCHANGED <<tx, snap, past, pend, entries, heads, lock, faults>>

\* The server executes a COMMIT, even when its client is gone.
Commits(w) ==
    /\ w \in sent
    /\ tx[w] = "open"
    /\ call[w] \in {"commit", "threw"}
    /\ entries' = entries \cup pend[w]
    /\ heads' = [heads EXCEPT ![TenantOf[w]] = HeadAfter(NewEntry(w))]
    /\ Close(w, "committed")
    /\ call' = [call EXCEPT ![w] = IF @ = "commit" THEN "committed" ELSE @]
    /\ UNCHANGED <<snap, past, sent, faults>>

AppendReturns(w) ==
    /\ call[w] = "committed"
    /\ Goto(w, "returned")
    /\ UNCHANGED <<tx, snap, past, pend, entries, heads, lock, sent, faults>>

\* Two transactions are concurrent with w when each took its snapshot before the
\* other committed; these are the ones that did commit.
Overtakers(w) == {v \in Appends : tx[v] = "committed" /\ v \notin past[w]}

\* SERIALIZABLE: from its first read on, the database may abort a transaction
\* that some concurrent one overtook (40001).  What it locks of its reads may be
\* a page of an index, or a table, so they may be of different tenants.
NotSerializable(w) ==
    /\ call[w] \in {"lock", "insert", "head", "commit"}
    /\ Overtakers(w) # {}
    /\ Fails(w)
    /\ UNCHANGED <<snap, past, entries, heads, sent, faults>>

\* The server refuses a query though no transaction is in its way.
QueryFails(w) ==
    /\ call[w] \in {"begin", "lock", "insert", "head", "commit"}
    /\ faults < MaxFaults
    /\ faults' = faults + 1
    /\ Fails(w)
    /\ UNCHANGED <<snap, past, entries, heads, sent>>

\* The catch block sends ROLLBACK and rethrows; nothing is retried.
RollsBack(w) ==
    /\ call[w] = "rollback"
    /\ Goto(w, "threw")
    /\ UNCHANGED <<tx, snap, past, pend, entries, heads, lock, sent, faults>>

\* There is no connection, or it breaks, or the process stops: the query
\* rejects, and so does the ROLLBACK; the server knows nothing yet.
ConnectionLost(w) ==
    /\ call[w] \in Connected \cup {"connect"}
    /\ faults < MaxFaults
    /\ faults' = faults + 1
    /\ Goto(w, "threw")
    /\ UNCHANGED <<tx, snap, past, pend, entries, heads, lock, sent>>

ServerNotices(w) ==
    /\ call[w] = "threw"
    /\ tx[w] = "open"
    /\ Close(w, "aborted")
    /\ UNCHANGED <<call, snap, past, entries, heads, sent, faults>>

----------------------------------------------------------------------------
AppendStep(w) ==
    \/ Connects(w) \/ TakesSnapshot(w) \/ GetsHead(w) \/ HeadMoved(w)
    \/ Inserts(w) \/ InsertRefused(w) \/ WritesHead(w) \/ Commits(w)
    \/ AppendReturns(w) \/ RollsBack(w) \/ ServerNotices(w)

Next == \E w \in Appends : AppendStep(w) \/ AppendCalled(w) \/ NotSerializable(w)
                             \/ QueryFails(w) \/ ConnectionLost(w)

Spec == Init /\ [][Next]_vars

\* The server executes queries and notices lost clients, and the pool hands out
\* connections: while some append can go on, one does.
FairSpec == Spec /\ WF_vars(\E w \in Appends : AppendStep(w))

----------------------------------------------------------------------------
\* Properties.

\* Each tenant's committed rows are one unbroken chain that ends at its head
\* row: numbered 1..n without a gap or a fork, each holding the hash of the one
\* before (the lock, the unique constraint and the derivation in append()).
LinkedTo(e, head) == e.chainSeq = head.seq /\ e.entryHash = head.hash

ChainIntact ==
    \A t \in Tenants :
        /\ {e.chainSeq : e \in RowsOf(t)} = 1..heads[t].seq
        /\ \A e, f \in RowsOf(t) : e.chainSeq = f.chainSeq => e = f
        /\ heads[t] # NoHead => \E e \in RowsOf(t) : LinkedTo(e, heads[t])
        /\ \A e \in RowsOf(t) :
             \/ e.chainSeq = 1 /\ e.prevHash = GENESIS_PREV_HASH
             \/ \E f \in RowsOf(t) : LinkedTo(f, [seq |-> e.chainSeq - 1, hash |-> e.prevHash])

\* verifyChain, which may run between any two steps of any append, accepts the
\* chain from wherever it starts, up to the head.
VerifyAccepts ==
    \A t \in Tenants : \A fromSeq \in 1..heads[t].seq :
        verifyRows(RowsOf(t), fromSeq) = Valid(heads[t].seq)

\* The store keeps the promise of AppendOnlyLog: entries are added at the end
\* and stay, and an append that returned is where it says.
Told(w) ==
    CASE call[w] = "threw" -> [said |-> "threw", seq |-> 0]
      [] call[w] = "returned" -> [said |-> "returned", seq |-> NewEntry(w).chainSeq]
      [] OTHER -> [said |-> "nothing", seq |-> 0]

Log == INSTANCE AppendOnlyLog
    WITH length <- [t \in Tenants |-> heads[t].seq],
         placed <- {[tenant |-> e.tenant, seq |-> e.chainSeq, call |-> CallOf(e)] : e \in entries},
         reply <- [w \in Appends |-> Told(w)]

AppendOnly == Log!LogSpec

\* While no query fails of itself and no connection is lost, an append is
\* refused only if another one, of its tenant or not, committed while it ran and
\* says so to its caller: racing appends never all lose (append() in pg-store.ts
\* does not retry).
RefusedByAWinner ==
    faults = 0 =>
        \A w \in Appends : call[w] \in {"rollback", "threw"} =>
            \E v \in Overtakers(w) : call[v] \in {"committed", "returned"}

\* Every append settles, so that again and again none is under way: no two
\* transactions wait for each other, and no lock or connection is kept for ever.
AppendsSettle == []<>(\A w \in Appends : call[w] \in {"idle", "returned", "threw"})

\* The append protocol as documented (000-docs/blueprint/05-TECHNICAL-SPEC.md,
\* 8.2): concurrent appends serialize on the head row, so while nothing fails
\* they wait for their turn and none is refused.
AppendsWaitTheirTurn == faults = 0 => \A w \in Appends : call[w] # "threw"

----------------------------------------------------------------------------
\* The inductive invariant behind the safety properties and the refinement.

\* Client and server agree as far as the client can know.
TxOf(w) ==
    /\ call[w] \in {"idle", "connect"} => tx[w] = "none"
    /\ call[w] \in {"begin", "lock", "insert", "head", "commit"} => tx[w] = "open"
    /\ call[w] \in {"committed", "returned"} => tx[w] = "committed"
    /\ call[w] = "rollback" => tx[w] = "aborted"
    /\ call[w] \in {"idle", "connect", "begin", "lock", "insert", "head"} => w \notin sent

\* An append has its entry in the table once its transaction committed, and
\* before that only among its own uncommitted rows.
EntryOf(w) ==
    /\ tx[w] = "committed" <=> NewEntry(w) \in entries
    /\ pend[w] # {} => tx[w] = "open"
    /\ call[w] \in {"begin", "lock", "insert"} => pend[w] = {}
    /\ call[w] \in {"head", "commit"} => pend[w] # {}
    /\ w \in sent /\ tx[w] = "open" => pend[w] # {}

\* The head row does not move under a transaction that locked it or that
\* inserted the entry after it.
HeadOf(w) ==
    /\ pend[w] # {} => heads[TenantOf[w]] = snap[w]
    /\ pend[w] # {} /\ snap[w] # NoHead => lock[TenantOf[w]] = w
    /\ call[w] = "insert" /\ snap[w] # NoHead => lock[TenantOf[w]] = w
    /\ \A t \in Tenants : lock[t] = w =>
         TenantOf[w] = t /\ tx[w] = "open" /\ heads[t] = snap[w] /\ snap[w] # NoHead

OneWriter ==
    \A v, w \in Appends : pend[v] # {} /\ pend[w] # {} /\ TenantOf[v] = TenantOf[w] => v = w

IInv ==
    /\ TypeOK
    /\ \A w \in Appends : TxOf(w) /\ EntryOf(w) /\ HeadOf(w)
    /\ OneWriter
    /\ ChainIntact
==============================================================================
