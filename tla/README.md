# A TLA+ model of CloudLedger

CloudLedger is a ledger for small teams: people record income and expenses on
personal ledgers and on the public ledger of their organization, where an
expense is applied for, approved by a second person, paid out, confirmed by the
applicant, and possibly voided. One server keeps the state in memory, saves
full snapshots of it to PostgreSQL (or to two JSON files in development) and
serves a Tauri app, a web client and an admin backend.

This directory holds modules that model the server and the client's offline
queue, the TLC
configurations that check them on small instances, and proofs, checked by
TLAPS, that the main results hold for every instance. `PROJECT.json` lists the
components, runs, mutants (one deliberately wrong variant of the model for each
property, which the property must catch), hazards, findings and theorems, and
maps each definition to the source lines it stands for.

## Inventory

| Component | Source | State it keeps | Operations that change it | Interaction | What is hard |
|---|---|---|---|---|---|
| Permission table | `cloudledger-core/src/permissions.rs` | none | - | asked by the accounting service before every call | technical administrators must stay out of the books |
| Accounting service | `cloudledger-service/src/app.rs`, `cloudledger-core/src/types.rs` | users, organizations, memberships, ledgers, accounts, categories, transactions, audit logs | create/ensure identities and organizations, member administration, `create_category`, `create_transaction`, `decide_approval`, `mark_transaction_paid`, `confirm_transaction_receipt`, `void_transaction` | called by the handlers on a clone; read by the overview and the analyses | roles change between the steps of a transaction; retries; two state fields plus five actors plus a log that must agree |
| Server write path | `cloudledger-server/src/{app_api,admin,auth_routes,state}.rs`, `storage/` | the published services, the write gate, what is stored | every handler that writes | gate, clone, call, save, publish, security event, answer | concurrent handlers, uncertain commits, dropped handlers, crash and restart |
| Accounts and sessions | `auth.rs`, `auth_routes.rs`, `admin.rs` | accounts, installation bindings, sessions with token families | logins, refresh, logouts, password changes and resets, pruning | authentication of every request; saved with the ledger | rotation, replay, sessions that outlive a password, a logout that waits |
| Login protection | `login_protection.rs`, `lib.rs` | failure windows and lockouts per login and per address | check, record failure/success | before and after the password check, outside one transaction | concurrent attempts, a full table, restart |
| Audit chain | `audit.rs` | numbered, HMAC-linked events per scope | append, verify | appended inside the snapshot's transaction | order, gaps, what a restart loads back |
| JSON files | `app.rs`, `auth.rs` (`save_to_path`) | two files with `.tmp` and `.bak` neighbours | save, load | development backend | a crash between any two file operations |
| Schema and migrations | `storage/migrations.rs`, `migrations/*.sql` | schema version, constraints | startup migrations | constraints reject snapshots | a state that cannot be saved blocks every later save |
| Platform sessions | `platform_auth.rs` | tokens in memory | login, logout, expiry | platform routes of the admin backend | - |
| Double-entry book service | `cloudledger-service/src/service.rs`, `cloudledger-core`, `cloudledger-db` | journal entries, approvals | `submit_entry`, `decide_approval` | not used by the server yet | read, decide and write without a lock |
| Offline outbox | `frontend/src/main.ts`, `offlineStore.ts`, `src-tauri/src/offline_store.rs` | queued creations, cached overview | enqueue, `syncOutbox`, clear | repeats `create_transaction` with a mutation id | lost answers, sessions that end during the replay |
| Filters | `request_security.rs`, `version.rs`, `turnstile.rs` | none | - | in front of the handlers | - |
| Configuration, startup | `config.rs`, `main.rs` | one private file | written once | - | - |
| Shell, frontend, deployment | `src-tauri/src/lib.rs`, `frontend/`, `deploy/` | - | - | - | - |

What makes each of them correct: the *accounting service* must never let the
record of a transaction, its audit log and the balance tell different stories,
never let one person do both halves of a decision, and never reach a state the
database rejects. The *write path* must never lose what it acknowledged or
showed, and must not stop. *Sessions* must end when they are said to end and
stay ended. *Login protection* must bound the guesses a caller gets, in both
stores alike and however many logins are under way. The *audit chain* must
verify at all times and never stand in the way of the operation it records. The
*book service* must not post on fewer than the required approvals, and the
*outbox* must not lose what it told its user it keeps.

## Modules

### Permissions, LedgerWorkflow, LedgerProperties, TransactionLifecycle

`Permissions` is the role table as sets of actions.

`LedgerWorkflow` is the accounting service. Its variables are the collections
of `AppLedgerService`; one action is one call, because the server runs a call
on a clone and throws the clone away when the call returns `Err`. The guard of
an action is therefore the conjunction of the early returns. A repeated
`create_transaction` with a known mutation id returns the recorded transaction
and changes nothing, so it appears as a guard (`AlreadyRecorded`).

Data is abstracted to what the properties tell apart: descriptions, notes,
names and timestamps are left out (an actor field and its timestamp are always
assigned together), as is the currency (a mismatch is one more early return).
Personal ledgers are identified with their owner and public ledgers with their
organization, since the service creates exactly one of each. `audit_logs` is
kept per transaction. `create_category` writes no audit event, in the code as in
the model (nor does `update_me`, which writes a new name to the ledger's copy of
the person). Only the roles the admin backend hands out are assigned; the table
covers all eight.

`LedgerProperties` states the properties, the inductive invariant and the
refinement of `TransactionLifecycle`, the abstract promise: a transaction moves
through a few stages and is booked once, when an expense is paid or an income
approved, and unbooked only by voiding. The refinement maps approval and payment
state to a stage and `transaction_affects_balance` to the set of booked
transactions.

### LedgerAnalysis

`LedgerWorkflow` with a clock and the four time stamps of a transaction, started
from documents of older schemas that `migrate_to_current_schema` brings up to
date. The read-only side of the service is a set of operators on that state:
the overview with its queues, the pages of months and days, the audit periods,
the financial analysis and the details of a month and of a member. Instants are
numbers in UTC; a day and a month are intervals in Beijing time, which is ahead
of UTC, as in `day_key` and `month_key`. Months have one length. Left out are
`largest_expenses`, the order of lists, and accounts' kinds and opening
balances. Amounts are positive; the code, which does not forbid negative
ones, would count them differently in different reports.

Two things the reports do that a reader may not expect, and which the properties
leave room for: a removed member still appears in the analysis of the months in
which they spent, while the detail page of that member is refused; and a voided
transaction keeps its payment state, so the overview goes on listing it when it
was voided while waiting for a payment or a receipt.

### ServerGate

The path every writing handler takes: wait for `write_gate` (first come, first
served), clone the services, run the call, save a full snapshot of what it
touched (`save_ledger`, `save_auth` or `save_all`), publish the clone, append a
security event where the handler has one, answer. State is a set of operations
per part (ledger, authentication), in memory and stored, so that an overwritten
operation is visible as a missing element. With PostgreSQL a save is one step;
with JSON files the two files are two steps. Operations are of three kinds: on
transactions, which leave an audit event (`LoggedOps`), those whose handler
appends a security event (`AuditedOps`), and the rest, which leave neither
(`create_category` and `update_me`); `TrailComplete` is about the first two.

Around it: a storage error, a save that took effect and is reported as failed
(a lost answer to COMMIT, a failed `.bak` copy), a failed security event, a
handler that is dropped at one of its awaits because its caller went away, and a
crash with a restart from what is stored.

### AuthSessions

Accounts, installation bindings and sessions of `AuthService` as the routes use
it, and the rows of PostgreSQL they are saved to (`auth_users`,
`auth_installations`, `auth_sessions`). Sessions carry their family, their
rotated and revoked marks and an age (access token valid, access token expired,
all expired). `tauri_logout` is two actions, because it authenticates before it
waits for the gate; all other routes authenticate behind it and are one action.
`refresh_replayed` models what the route does with the service's error, namely
nothing.

`Save` is a save that is published, or one that takes effect without the server
learning of it: the answer to COMMIT is lost, or the caller leaves while it is
awaited. Then the rows are ahead of memory, and do not fall back, because
`replace_auth` merges: it keeps sessions that memory does not know of, never
takes a mark back, and writes a user's row only where memory's is later, which
is the user the present call has changed. `Restart` loads the rows (`load_auth`),
not what memory held. Where memory does not know of a row, later calls can fail
on it: an account cannot be created again because its email has a row
(`Unknown`), and the ledger cannot be saved while `auth_users` has an
administrator whose organization it does not know (`LedgerSaved`).

Two variables are history. `handed` are the sessions whose tokens a client was
given: after an uncertain save the rows hold sessions whose random tokens nobody
has ever seen, and a restart brings them to life, two of a family or one of a
family that memory had ended. They are of no use to anybody, so the properties are
about the sessions that clients have. `changed` says how many sessions had been
issued when an account was last changed, by a call that was published: what a
change ends is what was issued before it, and a change nobody was told of promises
nothing. With that, `ChangeEndsSessions`, `OneLiveSessionPerFamily` and
`EndedStaysEnded` hold through uncertain saves and restarts, and are proved. A
plainer statement does not hold, namely that a live session was opened with the
account's present password (finding 4).

The JSON file is not modelled here. It is replaced as a whole by each save, so
that what an uncertain save left is gone with the next one.

### LoginLimits, LoginProtection

`LoginProtection` is the path of a login: the check against the lock of the
login and of the address, the challenge (Turnstile is external: it is passed or
not), the wait for the gate, the verification, and the record of the outcome,
each a step of its own. Both stores are modelled, the maps of the process with
their pruning and eviction, and the upserts of PostgreSQL; so are the limits on
other requests. `LoginLimits` is the promise behind both: a count per key and
window, a lock at the limit, and nothing forgotten early except by the memory store,
at a restart, when it is full, or with the end of a lock. `guesses`, `unsolved` and `served` are history
variables, for one window.

The stores are not the same in every detail, and `LoginLimits` allows what they
do: in memory a window starts with the check that found the old one over, in
PostgreSQL with the first failure. `ServerConfig::validate` asks only that window
and lockout are positive, and so does the model. With a lockout shorter than the
window the stores differ further: the memory store forgets the failures of a key
with its lock, while the table goes on counting until the window ends, and locks
the key again with the next failure (`At` in `LoginLimits`, `Worth` in
`LoginProtection`). A key may then be locked `LocksInWindow` times in an interval
of the length of a window, and the bounds grow with that number; in the defaults
it is 1. An error other than
wrong credentials is recorded as a success, as in the code. For other requests
the memory store blocks with the request that reaches the limit and the table
with the next one.

### JournalApproval

`LedgerService` over a repository. A call is a sequence of repository calls, and
other callers take theirs in between; it may fail at each. `grounds` remembers
the decisions an entry was posted on, and a decision the lines it was made on.
The service has no transaction and no version check, so the properties say what
survives that: every copy of a request is sound, and an entry is posted only on
enough approvals. That the entry and its request agree is stated for calls that
do not overlap or die between their saves. Submitting an id again replaces the
entry and its request in two steps, and a decision may fall between them; the
properties exempt such ids.

### AuditChain

The transactions that append to `audit_events`, statement by statement: advisory
lock, head, signature, insert with the trigger's check, commit. They come from
saves of the ledger (one at a time, behind the gate), from security events and
from processes that start and import `audit_logs_legacy`. Time has ticks finer
than the microsecond the column keeps. HMAC-SHA256 is taken as injective, and
there is one key. Two processes that start together on a database without old
rows both write a `legacy_cutover` to the platform's chain; with old rows the
second import is refused, which `AppendsAccepted` allows for starters only. What
`load_ledger` reads back is kept as a set: a later save asks only whether an
event is stored already.

### OfflineOutbox

The client's queue of creations: `state.outbox`, the document per user in the
native store and its mirror in IndexedDB, the start of the app, login, refresh
(version check, session, hydration, synchronisation, application), the
submission of the form, logout and the end of the app. A step is the code
between two awaits. Native commands are taken as first in, first out, and a
document as written when its save is called.

### MC modules

The MC modules add symmetry sets and the values that are too large for a
configuration: documents, drafts, a book, events. The symmetric sets are never
inspected by value; `gate`, which checks a liveness property, uses no symmetry.
`MCLedgerAnalysis` takes states as one that differ only in who decided, paid or
voided, which no guard and no report reads. `MCLoginProtection` looks at logins and at
other requests separately, since they share nothing but the clock.

## Runs

| Run | Instance | Properties |
|---|---|---|
| `workflow` | 3 people, 1 organization, 2 transactions, 1 mutation id | `AuditLogTellsState`, `AuditLogFollowsWorkflow`, `BalanceFollowsLog`, `MutationRecordedOnce`, `ImplementsLifecycle` |
| `team` | 4 people, 2 organizations, 1 transaction, 1 category created at most | `TypeOK`, `RecordsAndLogsAgree`, `DutiesSeparated`, `OwnersKept`, `AdministratorsNeverAct`, `AuditShownWithTransaction`, `HistoryOnlyGrows` |
| `analysis` | 3 people, an imported and a new transaction, two documents of older schemas, a change of month | `RowsFitSchema`, `ReportsAgree`, `CashFlowIsBalance`, `ClosedMonthsFixed`, `QueuesComplete`, `PagesComplete` |
| `gate` | 2 requests, 3 operations, 1 crash, PostgreSQL and JSON files | `AckedSurvives`, `PublishedIsStored`, `TrailComplete`, `GateInvariant`, `ReadsNeverRegress`, `EveryRequestEnds` |
| `gate_halves` | 2 requests, PostgreSQL | violated: `NothingHalfStored` |
| `sessions` | 2 people, 1 installation, 3 sessions, Tauri, Web and administration, 2 uncertain saves | `ChangeEndsSessions`, `OneLiveSessionPerFamily`, `AuthInvariant`, `EndedStaysEnded` |
| `sessions_replay` | 3 sessions | violated: `ReplayRevokesFamily` |
| `sessions_installation` | 3 people, 4 sessions | violated: `OneIdentityPerInstallation` |
| `login` | 2 logins at a time, 2 login keys, 1 address, a window of 3 ticks and a lockout of 2, both stores | `TypeOK`, `GuessesBounded`, `ChallengedInTime`, `RequestsBounded`, `ImplementsLimits` |
| `journal` | 3 people, 2 callers, 1 entry id used twice, 6 drafts | `RequestsSound`, `PostedWithGrounds`, `PostedBalanced`, `UndisturbedAgree` |
| `audit` | 3 chains, 3 old rows, 4 new events, 2 starting processes, 2 writers | `ChainsVerify`, `AppendsAccepted`, `LegacyComesFirst` |
| `outbox` | 1 user, 2 creations, 2 refreshes at a time | violated: `QueuedIsKept` |

`workflow` shows that whatever owners, applicants and administrators do in
whatever order, the record of a public transaction can be rebuilt from its audit
log alone, the log is a path of the workflow, the balance is the sum of what the
log says was earned or paid and not voided, and a repeated request is recorded
once. `team` lets people change roles, leave and join another organization
between the steps: nobody decides their own application, an organization never
loses its technical Owner, an Owner has never acted in business, the two filters
of the overview agree, and no step rewrites history. `analysis` shows that every
state reached from an imported ledger satisfies the foreign keys and checks of
the schema (since every save rewrites the full snapshot, one bad row would make
all later saves fail), that the reports add up to each other and to the balance,
that a month that is over changes only by voiding, and that nothing falls out of
the queues or between two pages.

`gate` shows that an acknowledged operation and a published state survive every
interleaving, error, dropped handler and crash, that the audit trail is
complete, and that no request waits for the gate forever. `sessions` shows that a
published change of an account ends every session a client has of it, that a
family that ended stays ended, and that clients never have two live sessions of a
family: through uncertain saves and restarts from the rows, also when a refresh
was saved without an answer, its token was refreshed again and the server loads
rows that hold both successors.

`login` shows that both stores implement `LoginLimits`, and how many wrong
passwords are answered within the length of a window although several logins may
be between their check and their record; the bounds are derived in the comments of
`GuessesBounded` and `ChallengedInTime`, and `LoginProofs` has the argument.
`journal` shows that overlapping and failing calls of the book
service cannot post on fewer approvals than required or on somebody's own, and
that what is posted balances.
`audit` shows that the chains verify after every commit, that the trigger and
the indexes never refuse an operation of the server, and that the old rows come
first in their order.

### Bounds, and why they are enough

- *People.* Separation of duties needs an applicant, a decider and a technical
  Owner (3); moving between organizations needs a second Owner (4, `team`).
- *Transactions.* Two are needed for the mutation id and to have a balance
  with two entries; every other property is about one.
- *Categories.* Two names, so that a category of the wrong direction or ledger
  could be chosen; where one is created, it is one (`FewCategories`).
- *Amounts.* One value; sums of the two sets of transactions differ as soon as
  the sets do.
- *Requests and operations.* A request that has ended may be sent again, so two
  are a holder and a waiter for as long as one likes; three add a second waiter.
  The operations are one that changes the ledger only, one the
  accounts only, and one both.
- `MaxCrashes` = 1: after a restart the server is in a state in which it could
  have started, with requests that may be sent again.
- `MaxSessions` = 3: a login of each kind, or a login and two refreshes of the
  same token, the first of them uncertain; 4 in `sessions_installation`.
  `MaxPasswords` = 2: one change per account. `MaxLeaving` = 1: one logout that
  waits. `MaxUncertain` = 2: two saves that took effect without the server
  learning of it, before or after one another. The counterexamples
  `sessions_replay` and `sessions_installation` need no uncertain save and have
  none. `MCAuthSessions` leaves `replayed` out of
  the states `sessions` compares, which only `ReplayRevokesFamily` reads.
- *Reports.* Two instants around a change of month, one of them in a different
  month in UTC than in Beijing; one imported and one new transaction; one
  document of schema 1 (no payments) and one of schema 2 (no categories).
- *Logins.* Limits of 3 for a login and for its address (which counts the failures
  of both logins), a window of 3 ticks, a lockout of 2 and 4 instants in all: a
  lock that begins with its window ends before it, and the key is locked again
  within the window; one that begins later outlasts the window. The bounds count
  two locks in an interval of the length of a window (`LocksInWindow`).
  `MaxTracked` = 2, so that the maps are full and evict. Two logins, so that one
  passes the check while the other locks. Longer and shorter windows and lockouts,
  among them the equal ones of the defaults, are a matter of the proofs.
- *Book service.* `MaxSubmissions` = 2: an id that is used again. Two approvals
  are required, and one person may become an approver of their own entry.
- *Chains.* Two old rows in one scope and one in another; two new events in one
  scope, so that a writer finds the head moved.
- *Outbox.* `StoreErrors` = FALSE and `MaxKills` = 0 keep the counterexample to
  the ordinary case: no failing store, no killed app, no second user.

The proofs do not use these bounds: they hold for all sets of people, requests,
operations, transactions, entries, callers, events and logins, any valid limits,
windows, lockouts and clock, and any `MaxSessions`, `MaxPasswords`, `MaxLeaving`,
`MaxUncertain`, `MaxCrashes` and `MaxSubmissions`.

### Fairness

Only `EveryRequestEnds` assumes fairness: weak fairness of each request's next
server step, and of the restart. The executor polls the future that holds the
gate until it ends, and tokio's mutex is first come, first served, so the head
of the queue gets it; the connection to the storage answers or fails; the
service manager or container runtime restarts the process. Nothing is assumed of callers, and no
failure is assumed to happen or not to happen.

## What is proved

The seven `*Proofs` modules prove, for all values of the constants that satisfy
the named assumptions, the following properties of the specifications: every
invariant, action property and refinement that a passing run checks. `Sums` holds
what three of them need to know of sums.

| Module | Properties, for every instance | Inductive invariant |
|---|---|---|
| `LedgerProofs` | `TypeOK`, `AuditLogTellsState`, `AuditLogFollowsWorkflow`, `DutiesSeparated`, `BalanceFollowsLog`, `OwnersKept`, `AdministratorsNeverAct`, `RowsFitSchema`, `MutationRecordedOnce`, `AuditShownWithTransaction`, `HistoryOnlyGrows`, `ImplementsLifecycle` | `RecordsAndLogsAgree`, `TeamsFit`, `RecordsFit` |
| `ServerGateProofs` | `AckedSurvives`, `PublishedIsStored`, `TrailComplete`, `ReadsNeverRegress` | `GateInvariant` |
| `AuthSessionsProofs` | `ChangeEndsSessions`, `OneLiveSessionPerFamily`, `EndedStaysEnded` | `AuthInvariant` |
| `JournalProofs` | `RequestsSound`, `PostedWithGrounds`, `PostedBalanced`, `UndisturbedAgree` | `CopiesSound`, `OneStory` |
| `AuditChainProofs` | `ChainsVerify`, `AppendsAccepted`, `LegacyComesFirst` | `ChainsSound`, `NothingTwice`, `ImportedOnce` |
| `LoginProofs` | `TypeOK`, `ImplementsLimits`, `GuessesBounded`, `ChallengedInTime`, `RequestsBounded` | `LoginInvariant`, `GuessesFit`, `UnsolvedFits`, `ServedFits` |
| `AnalysisProofs` | `RowsFitSchema`, `QueuesComplete`, `PagesComplete`, `ReportsAgree`, `CashFlowIsBalance`, `ClosedMonthsFixed`, from imported documents | `ImportFits`, `BooksFit` |

The properties are seldom inductive themselves. What has to be added, and why:

- *Records and logs.* That paying is legal follows from the approval state, and
  that the log may be extended by `paid` from its last event; so the invariant
  ties the last event to the two state fields, the record's actors to the
  events, and excludes logs without a record.
- *Teams.* An organization keeps its Owner because the person removed or demoted
  is never the only one: an organization has one Owner, who hands the role over
  in one call. `AdministratorsNeverAct` needs more than the permission table: an
  Owner must have no past in the books, so the invariant says that whoever is
  made an administrator is a new identity without transactions, and that no
  membership change makes an Owner of an old one. `RowsFitSchema` follows
  from `TypeOK`, the membership rows and, for every record, that the person, the
  ledger, the category and the actors it names exist; nothing the service
  removes is named by a record.
- *Refinement of the lifecycle.* Initial states map to initial states, every call
  maps to one abstract step of its transaction or to a stutter. The step uses
  `RecordsAndLogsAgree`: voiding unbooks exactly what was booked.
- *Gate.* Only the holder of the gate is at work, its clone is the *present*
  published state with its operation applied, and what it has written is that
  clone. Both backends are covered.
- *Sessions.* The invariant ties memory to the rows: a user's row is memory's or
  later and of the same kind, and a session's row has its marks and perhaps more.
  So what a restart loads is what memory had, with more marks, and sessions whose
  tokens nobody has. Every step either only lets the sessions clients have fade
  (mark, age or drop them), or hands out one session whose predecessor it has
  rotated, or opens a family with a number never used before, which is above
  every `changed`.
- *Book service.* Calls overlap, so the invariant speaks of every copy of a
  request, the stored ones and those in the hands of callers (`CopiesSound`),
  and, for ids submitted once and disturbed by nobody, says that the stored
  copy, the caller's copy and the entry are consecutive points of one story
  (`OneStory`).
- *Audit chains.* Writers of one scope exclude each other by the advisory lock,
  and every chain a transaction sees while it holds the lock is sound; so
  whichever transaction commits, the stored chain is. `NothingTwice` says that
  a writer appends one new event and all else it saves is stored already, which
  is why the unique indexes never refuse.
- *Login protection.* The two stores represent the end of a lock differently: the
  upsert leaves an expired bucket in place and memory removes it. The refinement
  compares what a bucket is worth at the time (`Worth`), in which what `prune` and
  `cleanup_expired` drop counts for nothing. So `LoginInvariant` adds little to
  the types: a bucket was opened before it was last used, and an empty one holds
  no lock. It does not matter whether the lock or the window ends first.
- *Counts of guesses.* For each key the history of the last window is cut at the
  beginning of its bucket's window and at the beginning of the bucket's lock.
  `WindowFits` bounds what lies in the window by the failures of the bucket, and
  what lies before it, at any distance, by `Refilled`: what is left of an earlier
  window, and the fill of a lock for each lockout time that fits in the distance,
  since two locks begin at least a lockout apart. `LockFits` bounds what came
  before the lock in the same way, and what came since it by the logins that had
  passed the check by then; none of them is counted twice, because a login under
  way is either before its record or after it. When a window or a lock ends, what
  it held becomes what lies before the next one. The three bounds are one argument
  with three sets of figures (`Caps`): all guesses, those without a challenge, and
  other requests, where nothing is under way between check and record. Where the
  memory store forgets a bucket that could still count, at a restart or when it is
  full, the history of its key is forgotten with it; the properties speak of what
  the store still knows.
- *Balance of an entry.* `validate` compares two totals, each a fold over the
  lines of one side; `Balanced` folds the signed amounts. Both are sums over the
  lines, so the lines of a valid draft cancel out, and `CopiesSound` says that an
  entry's lines stay those of a valid draft.
- *Old rows.* `ImportedOnce` follows an import through its work: after n events
  each chain of its transaction has just those of the n that belong to it, in
  their order, and the transaction has rows only while nothing is committed. Two
  imports exclude each other by the lock of the first old row's scope, an import
  that begins after another was committed finds its first row stored, and what the
  server appends afterwards has no mark and no old row, since no event is stored
  twice. This needs old rows: without them two processes may both leave a mark.

- *Reports.* Records of an imported document need not agree with their audit logs
  as those of the present version do, so `ImportFits` asks less of them: what a
  row refers to, which payment state goes with which approval state and ledger,
  that a person belongs to one organization, and that no step of a transaction
  lies in the future or after its last audit event. The first three give the
  queues, the last one the pages. For the sums `BooksFit` adds that a
  transaction is booked on an account of its ledger and has a date: then every
  transaction that counts for the balance lies in exactly one month, one category
  and, as an expense, with one member, and a sum over the parts is the sum over
  the whole. A month that is over gets no new transaction and none of its dates
  changes, since a step is dated by the clock.

Each of these invariants was checked by TLC on the instance of its run before it
was proved. Where an inductive invariant is not itself a property of a run, its
theorem is listed in `PROJECT.json` without one.

The assumptions are named `ASSUME`s in the modules that declare the constants,
and TLC evaluates them on every run: `LedgerConstants` (people and organizations
are distinct, `None` is neither, amounts are integers), `NoTransaction`,
`NoDocument` and `NoBucket` (`None` is not a record), `ChainConstants` (finitely
many scopes, typed events, each from the source its name says),
`JournalConstants` (drafts are sequences of lines), `AnalysisConstants` (finitely
many people, kinds of accounts and transactions; times are numbers),
`ProtectionConstants` (natural numbers, positive limits, window and lockout, the
challenge before the lock of a login and that before the lock of an address, as
`ServerConfig::validate` requires) and the like. `LegacyWellFormed` says what an
older document looks like: `load_from_path` takes what it reads for something
the service has saved, checks nothing, and migrates it, so the theorems of
`AnalysisProofs` hold for documents with known members and actors, one
organization per person, accounts of their own ledger, nothing waiting on a
personal ledger, and dates that are there and in order.

`RowsFitSchema` is proved twice: of the service that starts empty (`Spec`), from
full agreement of records and logs, and of the one that starts from an imported
document (`AnalysisSpec`), as the run `analysis` checks it.

Sums are the folds of the community modules, whose induction theorems take an
operator as a parameter, which the provers cannot instantiate. `Sums` goes
another way: it proves by induction over the subsets of a finite set, a theorem
that takes a set, that the sum of a function exists, changes by one summand when
one argument changes, and splits along a partition. Everything said of sums,
balances and counted histories rests on that.

Only model-checked is the liveness property `EveryRequestEnds`, since the provers
do not reach liveness under fairness. What is proved of the sums is proved for unbounded integers.

## Findings

1. **A replayed refresh token does not revoke its family.** The README promises
   it, and so does the error message. `AuthService::refresh_for_client` revokes
   the family on the clone and returns an error; the route drops the clone. Run
   `sessions_replay`.
2. **A late logout frees an installation that is bound to somebody else.**
   `revoke_installation_sessions` removes the binding whoever holds it, and
   `tauri_logout` authenticates before it waits for the gate. Run
   `sessions_installation`. (Authenticating behind the gate, as the other
   routes do, or checking the binding's user would remove it.)
3. **After an uncertain commit, an administration can end up half stored.** With
   PostgreSQL, `add_member` is committed and its answer is lost, so the services
   in memory do not know of it. The next `save_ledger` replaces the ledger rows
   with what they know, and the account stays in `auth_users` without the member
   in the ledger. Nothing acknowledged is lost (`AckedSurvives` holds), but the
   two halves disagree. (After `create_organization` the later save fails instead,
   on the foreign key of the administrator's organization.) Run `gate_halves`.
4. **After an uncertain reset, a session of the old password can survive.** From
   the same cause, and read off the model rather than shown by a run of its own:
   the row of the account has the new password, memory the old one
   (`reset_member_password` or `reset_organization_admin_password` with the second
   case of `Save`). Who logs in with the old one meanwhile (`login_for_client`,
   `admin_login`) gets a session whose row is not revoked; `replace_auth`, which
   overwrites a user's row only with a later one (`postgres.rs:549`), keeps the new
   password, and `Restart` loads both. The README's "changing an account password
   [...] revokes all of that user's sessions immediately" (line 264) is then true
   of the sessions from before the reset only. The caller of the reset was told
   that it failed, so `ChangeEndsSessions`, which speaks of changes that were
   published, holds.
5. **A queued creation can be overwritten by a refresh.**
   `hydrateOfflineCacheForUser` awaits the stored snapshot and then replaces the
   outbox with what it read. A creation that was queued and saved meanwhile is
   dropped from memory, and the save at the end of the refresh drops it from the
   store, after the app has said that it is kept. Run `outbox`. The same model
   has further ways to lose the queue when its bounds are widened: a snapshot
   that cannot be read is taken as an empty one (`StoreErrors`), and the store
   returns the document of the last active user, so that another user's work on
   the device hides one's own (two `Users`).

On login protection the documents disagree with each other:
`docs/backend-data-model.md` calls the counters ephemeral, while the repository's
README has them in PostgreSQL. The code does both, one per backend; `Restart`
models the difference.

Some situations have no remedy in the code and no promise to check them against:
an application whose only other business owner has left cannot be decided, and a
payment to a person who has been removed can no longer be confirmed.
And after an account was created by a commit the server did not learn of, creating
it again fails on its email, and after an organization so created every save of
the ledger fails, until a restart loads the rows.

## Not modelled

Stateless filters, configuration, rendering, credential stores and deployment
scripts keep no state of the server's own. In the modelled components these
parts are left out:

- accounting service: rankings and sort orders of the analyses, kinds and
  opening balances of accounts, currencies; overflow of `i64` sums (amounts are
  integers);
- accounts: phone numbers, and uniqueness of email beyond what `Unknown` says of
  it, the JSON file, the startup migration of older
  administrator accounts, platform tokens (a set in memory with an expiry);
- write path: the single statements of `replace_ledger` and `replace_auth`, and
  the file operations inside `save_to_path`;
- audit chain: keys that change, and the JSON import at the first start;
- outbox: cached dashboards and drafts, the limit of 5 MiB per document, and a
  change of session during a synchronisation (requests are taken as sent under
  the session of the moment). That a refused creation blocks the ones behind it
  is visible in `sync_one`; the code promises nothing else.

## Plan

Done: `Permissions`, `TransactionLifecycle`, `LedgerWorkflow`,
`LedgerProperties`, `LedgerAnalysis`; `ServerGate`; `AuthSessions`;
`LoginLimits`, `LoginProtection`; `AuditChain`; `JournalApproval`;
`OfflineOutbox`; the proofs named above.

What could be added, in this order:

1. `JsonStore`: the steps of `save_to_path` under crashes, as the detail below
   `WriteLedgerFile` and `WriteAuthFile`; a loadable file always exists.
2. `Identity`: unique email and phone, and agreement of the ledger's users with
   the accounts; then the startup migration of older administrator accounts.
