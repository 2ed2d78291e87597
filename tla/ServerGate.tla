----------------------------- MODULE ServerGate -----------------------------
(***************************************************************************)
(* How the server applies a write request (cloudledger-server: app_api.rs, *)
(* admin.rs, auth_routes.rs, storage/persistence.rs, storage/postgres.rs). *)
(*                                                                         *)
(* Every mutating handler waits for the write gate, clones the published   *)
(* services, runs its call on the clone, saves a full snapshot of the      *)
(* parts it touched, publishes the clone and, for administration and       *)
(* sessions, appends a security event before it answers.  The storage may  *)
(* fail, may apply a write and still report an error, the caller may       *)
(* disconnect (the handler is dropped at its next await), and the process  *)
(* may crash and reload what is stored.                                    *)
(*                                                                         *)
(* The services' states are abstracted to the set of operations they       *)
(* contain.  An operation that is sent again finds itself in the state and *)
(* changes nothing: a creation by its mutation id, a decision because the  *)
(* transaction has moved on.                                               *)
(***************************************************************************)
EXTENDS Naturals, Sequences, FiniteSets

CONSTANTS
    Requests,    \* slots for concurrent requests
    LedgerOps,   \* operations that change the ledger service
    AuthOps,     \* operations that change the auth service
    LoggedOps,   \* operations that leave an entry in the service's audit log;
                 \* all on transactions do, create_category and update_me do not
    AuditedOps,  \* operations whose handler appends a security event
    MaxCrashes,  \* bound on crashes of the process
    None

Ops == LedgerOps \cup AuthOps

ASSUME GateConstants ==
    /\ LoggedOps \subseteq LedgerOps
    /\ AuditedOps \subseteq Ops
    /\ MaxCrashes \in Nat
    /\ None \notin Requests \cup Ops

VARIABLES
    backend,          \* the storage this server was configured with
    memory,           \* the published services
    durable,          \* what is stored
    audit_events,     \* the stored audit trail of ledger operations
    security_events,  \* the stored security events
    queue,            \* requests waiting for the gate, in order of arrival
    holder,           \* the request that holds the gate, or None
    pc,               \* where the handler of each request is
    want,             \* the operation each request asks for, or None
    staged,           \* the clone each request works on
    acked,            \* operations some caller was told have succeeded
    up,               \* the process is running
    crashes           \* how often it has crashed

stores == <<durable, audit_events, security_events>>
vars == <<backend, memory, durable, audit_events, security_events, queue, holder,
          pc, want, staged, acked, up, crashes>>

Parts == {"ledger", "auth"}

Touches(op, part) == op \in (IF part = "ledger" THEN LedgerOps ELSE AuthOps)

Nothing == [p \in Parts |-> {}]

\* Handlers in these places hold the gate.
Holding == {"staged", "ledger_written", "saved", "published", "audited"}

Finished == {"answered", "failed", "abandoned"}

StateOK ==
    /\ backend \in {"Postgres", "Json"}
    /\ memory \in [Parts -> SUBSET Ops]
    /\ durable \in [Parts -> SUBSET Ops]
    /\ audit_events \subseteq Ops
    /\ security_events \subseteq AuditedOps
    /\ holder \in Requests \cup {None}
    /\ pc \in [Requests -> {"idle", "queued"} \cup Holding \cup Finished]
    /\ want \in [Requests -> Ops \cup {None}]
    /\ staged \in [Requests -> [Parts -> SUBSET Ops]]
    /\ acked \subseteq Ops
    /\ up \in BOOLEAN
    /\ crashes \in 0 .. MaxCrashes

TypeOK == StateOK /\ queue \in Seq(Requests)

Init ==
    /\ backend \in {"Postgres", "Json"}
    /\ memory = Nothing
    /\ durable = Nothing
    /\ audit_events = {}
    /\ security_events = {}
    /\ queue = <<>>
    /\ holder = None
    /\ pc = [r \in Requests |-> "idle"]
    /\ want = [r \in Requests |-> None]
    /\ staged = [r \in Requests |-> Nothing]
    /\ acked = {}
    /\ up = TRUE
    /\ crashes = 0

-----------------------------------------------------------------------------
(* The path of one request.                                                *)

\* A request arrives and waits for the gate; tokio's mutex is first come,
\* first served.  A caller whose request has ended may send another one, or
\* the same one again.
Receive(r, op) ==
    /\ up /\ pc[r] \in {"idle"} \cup Finished
    /\ pc' = [pc EXCEPT ![r] = "queued"]
    /\ want' = [want EXCEPT ![r] = op]
    /\ queue' = Append(queue, r)
    /\ UNCHANGED <<memory, stores, holder, staged, acked, up, crashes>>

\* The gate opens for the first request in the queue.  Mutant: it opens for
\* the first request although another one is at work.
GateIgnored(r) == queue # <<>> /\ r = Head(queue)

GateOpens(r) == queue # <<>> /\ r = Head(queue) /\ holder = None

\* The clone of the published state with the operation applied to it.
Applied(op) == [p \in Parts |-> memory[p] \cup {x \in {op} : Touches(x, p)}]

\* Authenticate, clone, run the call.
Stage(r) ==
    /\ pc[r] = "queued" /\ GateOpens(r)
    /\ queue' = Tail(queue)
    /\ holder' = r
    /\ staged' = [staged EXCEPT ![r] = Applied(want[r])]
    /\ pc' = [pc EXCEPT ![r] = "staged"]
    /\ UNCHANGED <<memory, stores, want, acked, up, crashes>>

\* Mutant: a handler that fails keeps the gate.
LeaveHoldingGate(r, how) ==
    /\ pc' = [pc EXCEPT ![r] = how]
    /\ want' = [want EXCEPT ![r] = None]
    /\ staged' = [staged EXCEPT ![r] = Nothing]
    /\ holder' = IF holder = r /\ how # "failed" THEN None ELSE holder
    /\ UNCHANGED <<memory, stores, up, crashes>>

\* The handler ends, lets go of the gate and drops its clone.
Leave(r, how) ==
    /\ pc' = [pc EXCEPT ![r] = how]
    /\ want' = [want EXCEPT ![r] = None]
    /\ staged' = [staged EXCEPT ![r] = Nothing]
    /\ holder' = IF holder = r THEN None ELSE holder
    /\ UNCHANGED <<memory, stores, up, crashes>>

\* Authentication or the call fails.
Refuse(r) ==
    /\ pc[r] = "queued" /\ GateOpens(r)
    /\ queue' = Tail(queue)
    /\ Leave(r, "failed")
    /\ UNCHANGED acked

\* replace_ledger: the staged rows stand in for the stored ones.
ReplacedLedger(r) ==
    IF Touches(want[r], "ledger") THEN staged[r]["ledger"] ELSE durable["ledger"]

\* replace_auth: rows are inserted, or updated when they are newer, and no
\* account and no unexpired session is deleted.  What only the database knows
\* of is kept unless the operation rewrites the same rows.
MergedAuth(r) ==
    IF Touches(want[r], "auth")
    THEN {staged[r]["auth"] \cup kept : kept \in SUBSET durable["auth"]}
    ELSE {durable["auth"]}

\* append_domain_logs: events are only ever added, and only missing ones.
TrailOf(r) ==
    IF Touches(want[r], "ledger")
    THEN audit_events \cup (staged[r]["ledger"] \cap LoggedOps)
    ELSE audit_events

\* save_ledger, save_auth and save_all of PostgresStore: one transaction.
CommitSnapshot(r) ==
    /\ backend = "Postgres" /\ pc[r] = "staged"
    /\ \E auth \in MergedAuth(r) :
          durable' = [p \in Parts |-> IF p = "ledger" THEN ReplacedLedger(r) ELSE auth]
    /\ audit_events' = TrailOf(r)
    /\ pc' = [pc EXCEPT ![r] = "saved"]
    /\ UNCHANGED <<memory, security_events, queue, holder, want, staged, acked, up, crashes>>

\* JsonStore writes one file after the other; the audit log is in the ledger
\* file.
WriteLedgerFile(r) ==
    /\ backend = "Json" /\ pc[r] = "staged" /\ Touches(want[r], "ledger")
    /\ durable' = [durable EXCEPT !["ledger"] = staged[r]["ledger"]]
    /\ audit_events' = staged[r]["ledger"] \cap LoggedOps
    /\ pc' = [pc EXCEPT ![r] = IF Touches(want[r], "auth") THEN "ledger_written" ELSE "saved"]
    /\ UNCHANGED <<memory, security_events, queue, holder, want, staged, acked, up, crashes>>

WriteAuthFile(r) ==
    /\ backend = "Json"
    /\ \/ pc[r] = "ledger_written"
       \/ pc[r] = "staged" /\ ~Touches(want[r], "ledger")
    /\ durable' = [durable EXCEPT !["auth"] = staged[r]["auth"]]
    /\ pc' = [pc EXCEPT ![r] = "saved"]
    /\ UNCHANGED <<memory, audit_events, security_events, queue, holder, want, staged,
                   acked, up, crashes>>

Fail(r) == Leave(r, "failed") /\ UNCHANGED <<queue, acked>>

\* Nothing more is written: the transaction rolls back, or the file cannot be
\* written (with Json the ledger file may already have been).
StorageError(r) == pc[r] \in {"staged", "ledger_written"} /\ Fail(r)

\* The write took effect and is reported as failed: the answer to COMMIT is
\* lost, or the copy to the .bak file fails after the rename.
AnswerLost(r) ==
    /\ pc[r] = "saved"
    /\ backend = "Postgres" \/ ~Touches(want[r], "auth")
    /\ Fail(r)

\* Mutant: the clone is published before it is saved.
PublishableEarly(r) == pc[r] \in {"staged", "saved"}

Publishable(r) == pc[r] = "saved"

Publish(r) ==
    /\ Publishable(r)
    /\ memory' = [p \in Parts |-> IF Touches(want[r], p) THEN staged[r][p] ELSE memory[p]]
    /\ pc' = [pc EXCEPT ![r] = "published"]
    /\ UNCHANGED <<stores, queue, holder, want, staged, acked, up, crashes>>

\* The security event is a transaction of its own; Json keeps none.
AppendSecurityEvent(r) ==
    /\ pc[r] = "published" /\ want[r] \in AuditedOps
    /\ security_events' = IF backend = "Postgres"
                          THEN security_events \cup {want[r]} ELSE security_events
    /\ pc' = [pc EXCEPT ![r] = "audited"]
    /\ UNCHANGED <<memory, durable, audit_events, queue, holder, want, staged, acked,
                   up, crashes>>

\* The operation stands although its caller is told of an error.
AppendError(r) ==
    /\ backend = "Postgres"
    /\ pc[r] = "published" /\ want[r] \in AuditedOps
    /\ Fail(r)

\* Mutant: the answer does not wait for the security event.
AnswerableAtOnce(r) == pc[r] \in {"published", "audited"}

Answerable(r) == pc[r] = (IF want[r] \in AuditedOps THEN "audited" ELSE "published")

Respond(r) ==
    /\ Answerable(r)
    /\ acked' = acked \cup {want[r]}
    /\ Leave(r, "answered")
    /\ UNCHANGED queue

-----------------------------------------------------------------------------
(* What can go wrong around it.                                            *)

\* The caller disconnects and the handler is dropped where it awaits: at the
\* gate, in the transaction before or after it took effect, or while the
\* security event is written.  Json saves do not await.
Abandon(r) ==
    /\ \/ pc[r] = "queued"
       \/ backend = "Postgres" /\ pc[r] \in {"staged", "saved"}
       \/ backend = "Postgres" /\ pc[r] \in {"published", "audited"} /\ want[r] \in AuditedOps
    /\ queue' = SelectSeq(queue, LAMBDA q : q # r)
    /\ Leave(r, "abandoned")
    /\ UNCHANGED acked

\* The published state is lost with the process; readers last saw it.
Crash ==
    /\ up /\ crashes < MaxCrashes
    /\ up' = FALSE
    /\ crashes' = crashes + 1
    /\ queue' = <<>>
    /\ holder' = None
    /\ pc' = [r \in Requests |-> IF pc[r] \in {"queued"} \cup Holding
                                 THEN "abandoned" ELSE pc[r]]
    /\ want' = [r \in Requests |-> None]
    /\ staged' = [r \in Requests |-> Nothing]
    /\ UNCHANGED <<memory, stores, acked>>

\* ServerState::load_from_config and load: start from what is stored.
Restart ==
    /\ ~up
    /\ up' = TRUE
    /\ memory' = durable
    /\ UNCHANGED <<stores, queue, holder, pc, want, staged, acked, crashes>>

-----------------------------------------------------------------------------

\* The server's own steps on behalf of a request.
Progress(r) ==
    \/ Stage(r) \/ Refuse(r)
    \/ CommitSnapshot(r) \/ WriteLedgerFile(r) \/ WriteAuthFile(r)
    \/ StorageError(r) \/ AnswerLost(r)
    \/ Publish(r) \/ AppendSecurityEvent(r) \/ AppendError(r) \/ Respond(r)

Next ==
    /\ \/ \E r \in Requests : \/ \E op \in Ops : Receive(r, op)
                              \/ Progress(r)
                              \/ Abandon(r)
       \/ Crash
       \/ Restart
    /\ UNCHANGED backend

Spec == Init /\ [][Next]_vars

(***************************************************************************)
(* The executor keeps running the handler at the gate and the storage      *)
(* answers, with a result or an error; a supervisor restarts the process.  *)
(* Callers need not come back, and nothing need ever fail.                 *)
(***************************************************************************)
FairSpec ==
    /\ Spec
    /\ \A r \in Requests : WF_vars(Progress(r) /\ UNCHANGED backend)
    /\ WF_vars(Restart /\ UNCHANGED backend)

-----------------------------------------------------------------------------
(* Properties.                                                             *)

(***************************************************************************)
(* What a caller was told has succeeded is stored in every part it         *)
(* touched, and published, whatever failed, was dropped or crashed since:  *)
(* a full-snapshot save never overwrites an acknowledged operation.        *)
(***************************************************************************)
AckedSurvives ==
    \A op \in acked, p \in Parts : Touches(op, p) => op \in memory[p] /\ op \in durable[p]

(***************************************************************************)
(* Readers are never shown what a crash could take back: the published     *)
(* state is always stored.                                                 *)
(***************************************************************************)
PublishedIsStored == \A p \in Parts : memory[p] \subseteq durable[p]

(***************************************************************************)
(* What readers have seen never disappears again, not even over a crash.   *)
(***************************************************************************)
ReadsNeverRegress == [][\A p \in Parts : memory[p] \subseteq memory'[p]]_vars

(***************************************************************************)
(* "Organization administration changes domain and authentication rows in  *)
(* one PostgreSQL transaction" (docs/backend-data-model.md, Invariants):   *)
(* in the database the two parts never disagree on whether an operation    *)
(* took place.  The commit is one transaction, but after an uncertain one  *)
(* the next save takes its snapshot from services that do not know of it,  *)
(* and replaces one part only.  (The two JSON files are two writes.)       *)
(***************************************************************************)
NothingHalfStored ==
    backend = "Postgres" =>
        \A op \in LedgerOps \cap AuthOps : op \in durable["ledger"] <=> op \in durable["auth"]

(***************************************************************************)
(* The audit trail is complete: every stored operation on a transaction    *)
(* has its audit event and every acknowledged administration or session    *)
(* operation its security event.  create_category and update_me leave      *)
(* neither.                                                                *)
(***************************************************************************)
TrailComplete ==
    /\ durable["ledger"] \cap LoggedOps \subseteq audit_events
    /\ backend = "Postgres" => acked \cap AuditedOps \subseteq security_events

(***************************************************************************)
(* The inductive invariant: only the holder of the gate is at work, its    *)
(* clone is the published state with its operation applied, and what it    *)
(* has written so far is that clone.                                       *)
(***************************************************************************)
HolderConsistent(r) ==
    /\ pc[r] \in Holding <=> holder = r
    /\ pc[r] \in {"queued"} \cup Holding => up /\ want[r] \in Ops
    /\ pc[r] \in {"staged", "ledger_written", "saved"} => staged[r] = Applied(want[r])
    /\ pc[r] = "ledger_written" => durable["ledger"] = staged[r]["ledger"]
    /\ pc[r] = "saved" =>
          \A p \in Parts : Touches(want[r], p) => staged[r][p] \subseteq durable[p]
    /\ pc[r] \in {"published", "audited"} =>
          \A p \in Parts : Touches(want[r], p) => want[r] \in memory[p]
    /\ pc[r] = "audited" /\ backend = "Postgres" => want[r] \in security_events

GateInvariant ==
    /\ StateOK
    /\ \A r \in Requests : HolderConsistent(r)
    /\ PublishedIsStored
    /\ AckedSurvives
    /\ TrailComplete

(***************************************************************************)
(* Every request that waits for the gate is answered, refused or dropped   *)
(* by its caller, although the gate is shared and its holders may fail.    *)
(***************************************************************************)
EveryRequestEnds == \A r \in Requests : pc[r] = "queued" ~> pc[r] \in Finished
=============================================================================
