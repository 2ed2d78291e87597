----------------------------- MODULE AuditChain -----------------------------
(***************************************************************************)
(* The stored audit trail (cloudledger-server: audit.rs, the transactions  *)
(* of storage/postgres.rs, and the triggers of migration 0004): one chain  *)
(* of signed events per organization and one for the platform, extended by *)
(* database transactions that run side by side: the save of a ledger       *)
(* snapshot, security events, and the import of the old audit table by     *)
(* every process that starts (serve, migrate, audit verify).               *)
(*                                                                         *)
(* PostgreSQL is external: READ COMMITTED, advisory locks held to the end  *)
(* of the transaction, unique indexes, and the trigger before the insert.  *)
(* HMAC-SHA256 is taken as injective; there is one key and no rotation.    *)
(***************************************************************************)
EXTENDS Integers, Sequences, FiniteSets, SequencesExt

CONSTANTS
    Scopes,         \* "platform" and the organizations
    Platform,
    LegacyRows,     \* audit_logs_legacy in the order of its times
    DomainEvents,   \* audit events that calls of the ledger service may write
    SecurityEvents, \* events that logins and administration may write
    Starters,       \* processes that connect to the database
    Server,         \* the one that serves
    Writers,        \* transactions of the server that may be open at once
    Micro,          \* clock ticks in the microsecond PostgreSQL stores
    None

LegacyEvents == {LegacyRows[i] : i \in DOMAIN LegacyRows}

\* An import is named after the process that makes it.
Names == {e.name : e \in LegacyEvents \cup DomainEvents \cup SecurityEvents} \cup Starters

AuditEvent ==
    [source : {"legacy", "domain", "security", "cutover"}, name : Names, scope : Scopes, at : Nat]

ASSUME ChainConstants ==
    /\ Platform \in Scopes /\ IsFiniteSet(Scopes)
    /\ Server \in Starters
    /\ Starters \cap Writers = {}
    /\ Micro \in Nat \ {0}
    /\ DomainEvents \subseteq {e \in AuditEvent : e.source = "domain"}
    /\ SecurityEvents \subseteq {e \in AuditEvent : e.source = "security"}
    /\ LegacyRows \in Seq({e \in AuditEvent : e.source = "legacy"})
    /\ None \notin Starters \cup Writers /\ None \notin Seq(AuditEvent)

VARIABLES
    chain,    \* the committed events of each scope, by sequence
    locks,    \* who holds the advisory lock of each scope
    txn,      \* the open transactions
    started,  \* processes that have finished their start
    logs,     \* the audit logs of the ledger service in memory
    refused   \* transactions an index or the trigger has refused

vars == <<chain, locks, txn, started, logs, refused>>

Sessions == Starters \cup Writers

\* initialize_legacy ends the import of a scope with this event.
Cutover(x, s) == [source |-> "cutover", name |-> x, scope |-> s, at |-> 0]

\* work: the events still to be appended; snapshot: the audit logs that a save
\* of the ledger carries, None in other transactions.
Idle == [step |-> "idle", work |-> <<>>, head |-> None,
         rows |-> [s \in Scopes |-> <<>>], snapshot |-> None]

Init ==
    /\ chain = [s \in Scopes |-> <<>>]
    /\ locks = [s \in Scopes |-> None]
    /\ txn = [x \in Sessions |-> Idle]
    /\ started = {}
    /\ logs = <<>>
    /\ refused = {}

-----------------------------------------------------------------------------
(* Events and rows.                                                        *)

\* The primary key of an event.
Id(event) == <<event.source, event.name, event.scope>>

\* Mutant: the signature covers a finer time than the column keeps.
SignedToTheTick(sequence, previous_hash, event) ==
    <<sequence, previous_hash, Id(event), event.at>>

\* The canonical form of an event, with its time in microseconds.
sign(sequence, previous_hash, event) ==
    <<sequence, previous_hash, Id(event), event.at \div Micro>>

\* The table keeps microseconds.
Stored(event) == [event EXCEPT !.at = (@ \div Micro) * Micro]

\* The row of an event after this head.
RowAfter(head, event) ==
    [sequence |-> head.sequence + 1, previous_hash |-> head.hash,
     event_hash |-> sign(head.sequence + 1, head.hash, event), event |-> Stored(event)]

NoHead == [sequence |-> 0, hash |-> <<>>]

HeadOf(rows) ==
    IF rows = <<>> THEN NoHead
    ELSE [sequence |-> rows[Len(rows)].sequence, hash |-> rows[Len(rows)].event_hash]

Ids(rows) == {Id(rows[i].event) : i \in DOMAIN rows}

\* What a statement of transaction x sees: the committed rows and its own.
Seen(x, s) == chain[s] \o txn[x].rows[s]

SeenIds(x) == UNION {Ids(Seen(x, s)) : s \in Scopes}

-----------------------------------------------------------------------------
(* The beginning of a transaction.                                         *)

Begin(x, work, snapshot) ==
    txn' = [txn EXCEPT ![x] = [Idle EXCEPT !.step = "next", !.work = work,
                                           !.snapshot = snapshot]]

\* initialize_legacy imports the old rows and marks the end of each chain; a
\* table without rows still gets its mark on the platform's chain.
LegacyScopes ==
    IF LegacyEvents = {} THEN {Platform} ELSE {e.scope : e \in LegacyEvents}

\* Mutant: the marks are written before the rows.
CutoverThenLegacy(x) == SetToSeq({Cutover(x, s) : s \in LegacyScopes}) \o LegacyRows

LegacyWork(x) == LegacyRows \o SetToSeq({Cutover(x, s) : s \in LegacyScopes})

\* The stored events that belong to a ledger.
LedgerEvents ==
    {e \in UNION {{chain[s][i].event : i \in DOMAIN chain[s]} : s \in Scopes} :
        e.source \in {"domain", "legacy"}}

\* They are read in the order of their times, and then of their ids, which are
\* not modelled: in any order that respects the times.
load_ledger ==
    {q \in SetToSeqs(LedgerEvents) : \A i, j \in DOMAIN q : i < j => q[i].at <= q[j].at}

\* SELECT COUNT(*), before the transaction that imports.
NothingStored == \A s \in Scopes : chain[s] = <<>>

initialize_legacy(x) ==
    /\ x \notin started /\ txn[x] = Idle
    /\ NothingStored
    /\ Begin(x, LegacyWork(x), None)
    /\ UNCHANGED <<chain, locks, started, logs, refused>>

\* The import was done before; the server loads its state.
start(x) ==
    /\ x \notin started /\ txn[x] = Idle
    /\ ~NothingStored
    /\ started' = started \cup {x}
    /\ logs' \in IF x = Server THEN load_ledger ELSE {logs}
    /\ UNCHANGED <<chain, locks, txn, refused>>

\* Uuid::new_v4 draws an id that is not in use.
Fresh(e) ==
    /\ \A s \in Scopes : Id(e) \notin Ids(chain[s])
    /\ \A y \in Sessions : txn[y] # Idle =>
          Id(e) \notin SeenIds(y) /\ \A i \in DOMAIN txn[y].work : Id(e) # Id(txn[y].work[i])

append_security_event(x, e) ==
    /\ Server \in started /\ txn[x] = Idle
    /\ Fresh(e)
    /\ Begin(x, <<e>>, None)
    /\ UNCHANGED <<chain, locks, started, logs, refused>>

\* save_ledger and save_all, one at a time behind the write gate: the snapshot
\* holds all audit logs, the last of them new.
GateOpen == \A x \in Sessions : txn[x].snapshot = None

save_ledger(x, e) ==
    /\ Server \in started /\ txn[x] = Idle /\ GateOpen
    /\ Fresh(e)
    /\ Begin(x, Append(logs, e), Append(logs, e))
    /\ UNCHANGED <<chain, locks, started, logs, refused>>

-----------------------------------------------------------------------------
(* append, statement by statement.                                         *)

\* append_domain_logs asks for each event whether it is stored.
AlreadyThere(x, e) == txn[x].snapshot # None /\ Id(e) \in SeenIds(x)

skip(x) ==
    /\ txn[x].step = "next" /\ txn[x].work # <<>>
    /\ AlreadyThere(x, txn[x].work[1])
    /\ txn' = [txn EXCEPT ![x].work = Tail(@)]
    /\ UNCHANGED <<chain, locks, started, logs, refused>>

\* Mutant: the chain's lock is not waited for.
NoLock(x, s) == TRUE

\* pg_advisory_xact_lock.
LockFree(x, s) == locks[s] \in {None, x}

lock(x) ==
    /\ txn[x].step = "next" /\ txn[x].work # <<>>
    /\ ~AlreadyThere(x, txn[x].work[1])
    /\ LockFree(x, txn[x].work[1].scope)
    /\ locks' = [locks EXCEPT ![txn[x].work[1].scope] = x]
    /\ txn' = [txn EXCEPT ![x].step = "locked"]
    /\ UNCHANGED <<chain, started, logs, refused>>

read_head(x) ==
    /\ txn[x].step = "locked"
    /\ txn' = [txn EXCEPT ![x].step = "insert", ![x].head = HeadOf(Seen(x, txn[x].work[1].scope))]
    /\ UNCHANGED <<chain, locks, started, logs, refused>>

\* cloudledger_validate_audit_append and the primary key.
Insertable(x, e) ==
    /\ txn[x].head = HeadOf(Seen(x, e.scope))
    /\ Id(e) \notin SeenIds(x)

insert(x) ==
    LET t == txn[x]
        e == t.work[1]
    IN  /\ t.step = "insert" /\ Insertable(x, e)
        /\ txn' = [txn EXCEPT ![x] = [t EXCEPT
                     !.step = "next", !.head = None, !.work = Tail(t.work),
                     !.rows[e.scope] = Append(t.rows[e.scope], RowAfter(t.head, e))]]
        /\ UNCHANGED <<chain, locks, started, logs, refused>>

-----------------------------------------------------------------------------
(* The end of a transaction.                                               *)

Released(x) == [s \in Scopes |-> IF locks[s] = x THEN None ELSE locks[s]]

\* An insert the table refuses ends the transaction with an error.
insert_refused(x) ==
    /\ txn[x].step = "insert" /\ ~Insertable(x, txn[x].work[1])
    /\ refused' = refused \cup {x}
    /\ locks' = Released(x)
    /\ txn' = [txn EXCEPT ![x] = Idle]
    /\ UNCHANGED <<chain, started, logs>>

\* The snapshot is published unless the answer to the commit is lost.
commit(x) ==
    /\ txn[x].step = "next" /\ txn[x].work = <<>>
    /\ chain' = [s \in Scopes |-> Seen(x, s)]
    /\ locks' = Released(x)
    /\ txn' = [txn EXCEPT ![x] = Idle]
    /\ logs' \in IF txn[x].snapshot = None THEN {logs} ELSE {logs, txn[x].snapshot}
    /\ UNCHANGED <<started, refused>>

\* An error, or the end of the connection.
rollback(x) ==
    /\ txn[x] # Idle
    /\ locks' = Released(x)
    /\ txn' = [txn EXCEPT ![x] = Idle]
    /\ UNCHANGED <<chain, started, logs, refused>>

\* The server ends, with its transactions; it may start again.
crash ==
    /\ Server \in started
    /\ started' = started \ {Server}
    /\ logs' = <<>>
    /\ locks' = [s \in Scopes |-> IF locks[s] \in Writers THEN None ELSE locks[s]]
    /\ txn' = [x \in Sessions |-> IF x \in Writers THEN Idle ELSE txn[x]]
    /\ UNCHANGED <<chain, refused>>

Step(x) ==
    \/ skip(x) \/ lock(x) \/ read_head(x) \/ insert(x)
    \/ insert_refused(x) \/ commit(x) \/ rollback(x)

Next ==
    \/ \E x \in Starters : initialize_legacy(x) \/ start(x)
    \/ \E x \in Writers :
          \/ \E e \in SecurityEvents : append_security_event(x, e)
          \/ \E e \in DomainEvents : save_ledger(x, e)
    \/ \E x \in Sessions : Step(x)
    \/ crash

Spec == Init /\ [][Next]_vars

-----------------------------------------------------------------------------
(* Properties.                                                             *)

\* AuditSigner::verify on one chain.
verify(rows) ==
    \A i \in DOMAIN rows :
        LET before == IF i = 1 THEN NoHead ELSE HeadOf(SubSeq(rows, 1, i - 1))
        IN  /\ rows[i].sequence = before.sequence + 1
            /\ rows[i].previous_hash = before.hash
            /\ rows[i].event_hash = sign(rows[i].sequence, rows[i].previous_hash, rows[i].event)

(***************************************************************************)
(* audit verify succeeds whenever it is run: the chain of every scope is   *)
(* numbered without gaps, each event carries the hash of the one before    *)
(* and is signed as it is stored, whichever transactions ran side by side, *)
(* failed or were cut off, and no event is in the chains twice.            *)
(***************************************************************************)
ChainsVerify ==
    /\ \A s \in Scopes : verify(chain[s])
    /\ \A s \in Scopes : \A i, j \in DOMAIN chain[s] :
          i # j => Id(chain[s][i].event) # Id(chain[s][j].event)

(***************************************************************************)
(* No operation fails because of the trail it has to write: the trigger    *)
(* and the indexes refuse nothing but the import of a process that started *)
(* together with another one.                                              *)
(***************************************************************************)
AppendsAccepted == refused \cap Writers = {}

\* The old rows of a scope, and the row that was made of one.
OldRows(s) == {j \in DOMAIN LegacyRows : LegacyRows[j].scope = s}
MadeOf(row, e) == Id(row.event) = Id(e)

\* All old rows of the scope in their order, the mark, and then no other mark.
LegacyFirst(rows, s) ==
    OldRows(s) # {} =>
        \E mark \in DOMAIN rows :
           /\ \A i \in DOMAIN rows : rows[i].event.source = "cutover" <=> i = mark
           /\ \A i \in DOMAIN rows : i < mark => \E j \in OldRows(s) : MadeOf(rows[i], LegacyRows[j])
           /\ \A j \in OldRows(s) : \E i \in DOMAIN rows : i < mark /\ MadeOf(rows[i], LegacyRows[j])
           /\ \A h, i \in DOMAIN rows : \A j, k \in OldRows(s) :
                 MadeOf(rows[h], LegacyRows[j]) /\ MadeOf(rows[i], LegacyRows[k])
                    => (h < i <=> j < k)

(***************************************************************************)
(* "Legacy business audit rows are imported in timestamp/ID order,         *)
(* followed by legacy_cutover" (security-hardening.md): a chain with old   *)
(* rows begins with all of them in their order and the mark, in front of   *)
(* everything else, however processes start and fail.                      *)
(***************************************************************************)
LegacyComesFirst ==
    \A s \in Scopes : chain[s] # <<>> => LegacyFirst(chain[s], s)

-----------------------------------------------------------------------------
(* The inductive invariants behind these properties.                       *)

\* A sequence, whatever it is made of; one of rows.
Listed(q) == q \in Seq({q[i] : i \in DOMAIN q})
RowList(q) == Listed(q) /\ \A i \in DOMAIN q : q[i].event \in AuditEvent

IsTransaction(t) ==
    /\ t = [step |-> t.step, work |-> t.work, head |-> t.head, rows |-> t.rows,
            snapshot |-> t.snapshot]
    /\ t.step \in {"idle", "next", "locked", "insert"}
    /\ t.work \in Seq(AuditEvent)
    /\ t.rows = [s \in Scopes |-> t.rows[s]] /\ \A s \in Scopes : RowList(t.rows[s])
    /\ t.snapshot \in Seq(AuditEvent) \cup {None}

TypeOK ==
    /\ chain = [s \in Scopes |-> chain[s]] /\ \A s \in Scopes : RowList(chain[s])
    /\ locks \in [Scopes -> Sessions \cup {None}]
    /\ txn = [x \in Sessions |-> txn[x]] /\ \A x \in Sessions : IsTransaction(txn[x])
    /\ started \subseteq Starters
    /\ logs \in Seq(AuditEvent)
    /\ refused \subseteq Sessions

Sound(rows) ==
    /\ verify(rows)
    /\ \A i, j \in DOMAIN rows : i # j => Id(rows[i].event) # Id(rows[j].event)

Extending(x) == txn[x].step \in {"locked", "insert"}

\* Only who holds the lock of a chain has rows for it or is about to, and the
\* head it has read is the last of what it sees.
Exclusive(x) ==
    /\ \A s \in Scopes : txn[x].rows[s] # <<>> => locks[s] = x
    /\ Extending(x) => txn[x].work # <<>> /\ locks[txn[x].work[1].scope] = x
    /\ txn[x].step = "insert" => txn[x].head = HeadOf(Seen(x, txn[x].work[1].scope))

(***************************************************************************)
(* Every chain is sound, and so it is with the rows of an open             *)
(* transaction behind it, whichever of them commits.                       *)
(***************************************************************************)
ChainsSound ==
    /\ TypeOK
    /\ \A x \in Sessions : Exclusive(x)
    /\ \A s \in Scopes : Sound(chain[s]) /\ \A x \in Sessions : Sound(Seen(x, s))

Committed == UNION {Ids(chain[s]) : s \in Scopes}
OwnIds(x) == UNION {Ids(txn[x].rows[s]) : s \in Scopes}
WorkIds(x) == {Id(txn[x].work[i]) : i \in DOMAIN txn[x].work}

\* Nobody else has stored this event or is about to.
NewFor(x, id) ==
    /\ id \notin Committed
    /\ \A y \in Sessions : id \notin OwnIds(y) /\ (y # x => id \notin WorkIds(y))

\* A writer appends one event, the last of its work; the rest is stored.
Appending(x) ==
    /\ txn[x] # Idle => Server \in started
    /\ \A i \in DOMAIN txn[x].work :
          \/ txn[x].snapshot # None /\ Id(txn[x].work[i]) \in Committed
          \/ i = Len(txn[x].work) /\ NewFor(x, Id(txn[x].work[i]))
    /\ Extending(x) => Len(txn[x].work) = 1 /\ NewFor(x, Id(txn[x].work[1]))

\* What a save carries is stored once its work is done.
Carried(x) ==
    txn[x].snapshot # None =>
        \A i \in DOMAIN txn[x].snapshot :
            Id(txn[x].snapshot[i]) \in Committed \cup OwnIds(x) \cup WorkIds(x)

(***************************************************************************)
(* The audit logs in memory are stored, and every writer appends one event *)
(* that nobody else appends: so nothing refuses it.  Inductive together    *)
(* with ChainsSound.                                                       *)
(***************************************************************************)
NothingTwice ==
    /\ Server \in started => ~NothingStored
    /\ \A i \in DOMAIN logs : Id(logs[i]) \in Committed
    /\ \A x \in Writers : Appending(x)
    /\ \A x \in Sessions : Carried(x)
    /\ AppendsAccepted

Unmarked(events) == \A i \in DOMAIN events : events[i].source # "cutover"
UnmarkedRows(rows) == \A i \in DOMAIN rows : rows[i].event.source # "cutover"

\* Writers neither append a mark nor carry one.
WritesNoMark(t) ==
    /\ Unmarked(t.work) /\ (t.snapshot # None => Unmarked(t.snapshot))
    /\ \A s \in Scopes : UnmarkedRows(t.rows[s])

\* The rows of scope s when n events of an import are appended.
ImportedTo(x, n, rows, s) ==
    LET W == LegacyWork(x)
        done == {j \in 1 .. n : W[j].scope = s}
    IN  /\ \A i \in DOMAIN rows : \E j \in done : MadeOf(rows[i], W[j])
        /\ \A j \in done : \E i \in DOMAIN rows : MadeOf(rows[i], W[j])
        /\ \A h, i \in DOMAIN rows : \A j, k \in done :
              MadeOf(rows[h], W[j]) /\ MadeOf(rows[i], W[k]) => (h < i <=> j < k)

\* An import appends its events in their order.
Imports(x, t) ==
    /\ t.snapshot = None
    /\ t.step = "idle" => t = Idle
    /\ t.step # "idle" =>
          \E n \in 0 .. Len(LegacyWork(x)) :
             /\ Len(t.work) = Len(LegacyWork(x)) - n
             /\ \A i \in 1 .. Len(t.work) : t.work[i] = LegacyWork(x)[n + i]
             /\ \A s \in Scopes : ImportedTo(x, n, t.rows[s], s)

HasRows(t) == \E s \in Scopes : t.rows[s] # <<>>

(***************************************************************************)
(* Where there are old rows, the first import to commit is the only one:   *)
(* an import has rows only while nothing is stored.  Inductive together    *)
(* with ChainsSound and NothingTwice.                                      *)
(***************************************************************************)
ImportedOnce ==
    /\ Unmarked(logs)
    /\ \A x \in Writers : WritesNoMark(txn[x])
    /\ \A x \in Starters : Imports(x, txn[x])
    /\ LegacyRows # <<>> =>
          /\ \A x \in Starters : HasRows(txn[x]) => NothingStored
          /\ ~NothingStored => \A s \in Scopes : LegacyFirst(chain[s], s)
=============================================================================
