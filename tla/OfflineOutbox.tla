---------------------------- MODULE OfflineOutbox ----------------------------
(***************************************************************************)
(* Creation requests made without a network (frontend: main.ts,            *)
(* offlineStore.ts; src-tauri: offline_store.rs): they are queued in       *)
(* memory and in a document per user on the device, and sent when the      *)
(* server answers again.                                                   *)
(*                                                                         *)
(* The app is one event loop: a step below is the code between two awaits. *)
(* A document is written when its save is called (the commands of the      *)
(* native store and the transactions of IndexedDB run in order); what was  *)
(* read is looked at when the answer arrives.                              *)
(***************************************************************************)
EXTENDS Naturals, Sequences, FiniteSets, SequencesExt

CONSTANTS
    Users,
    Mutations,   \* creation requests, by their clientMutationId
    Tasks,       \* slots for loadInitialState and refreshRemoteState
    StoreErrors, \* whether reading and mirroring documents may fail
    MaxKills,    \* bound on how often the app is killed
    None

VARIABLES
    native,     \* the store of offline_store.rs
    mirror,     \* the copy in IndexedDB, read first at a cold start
    session,    \* whose refresh token the device keeps
    running,    \* whether the app runs
    user,       \* state.currentUser
    outbox,     \* state.outbox
    offline,    \* state.cloudStatus.state is "offline"
    cached,     \* authoritativeCacheUserId
    inFlight,   \* autoRefreshInFlight
    tasks,      \* loads and refreshes under way
    entry,      \* the submission of the form under way
    leaving,    \* the user whose logout is under way
    server,     \* the creations the server has recorded
    promised,   \* <<u, m>>: user u was told that m is saved
    kills

store == <<native, mirror>>
memory == <<running, user, outbox, offline, cached, inFlight, tasks, entry, leaving>>
vars == <<store, session, memory, server, promised, kills>>

Idle == [step |-> "idle"]
NoEntry == [step |-> "idle", mutation |-> None, by |-> None]

\* A document is the outbox of a user; the ledgers it shows are left out.
EmptyStore == [docs |-> [u \in Users |-> None], active |-> None]

\* The device was used before: one user's document is empty and up to date.
Init ==
    /\ \E u \in Users :
          /\ native = [docs |-> [EmptyStore.docs EXCEPT ![u] = <<>>], active |-> u]
          /\ session = u
    /\ mirror = native
    /\ running = FALSE
    /\ user = None /\ outbox = <<>> /\ offline = FALSE /\ cached = None /\ inFlight = FALSE
    /\ tasks = [t \in Tasks |-> Idle] /\ entry = NoEntry /\ leaving = None
    /\ server = {} /\ promised = {} /\ kills = 0

-----------------------------------------------------------------------------
(* The store on the device.                                                *)

\* OfflineStore::load_last: the document of the last active user.
load_last(s) ==
    IF s.active = None THEN None
    ELSE IF s.docs[s.active] = None THEN None
    ELSE [user |-> s.active, outbox |-> s.docs[s.active]]

save(s, u, queue) == [docs |-> [s.docs EXCEPT ![u] = queue], active |-> u]

clear(s, u) ==
    [docs |-> [s.docs EXCEPT ![u] = None], active |-> IF s.active = u THEN None ELSE s.active]

\* saveOfflineSnapshot; an error of the mirror is ignored.
Saved(u, queue) ==
    /\ native' = save(native, u, queue)
    /\ \/ mirror' = save(mirror, u, queue)
       \/ StoreErrors /\ UNCHANGED mirror

-----------------------------------------------------------------------------
(* loadInitialState and refreshRemoteState.                                *)

Become(t, task) == tasks' = [tasks EXCEPT ![t] = task]

Pending == entry # NoEntry

\* restoreOfflineState prefers the mirror.
LastSnapshot == IF load_last(mirror) # None THEN load_last(mirror) ELSE load_last(native)

\* What restoreOfflineState sets; without a document nobody is shown.
Restored(snapshot) ==
    IF snapshot = None
    THEN user' = None /\ outbox' = <<>>
    ELSE user' = snapshot.user /\ outbox' = snapshot.outbox

\* A cold start shows the last document first and refreshes in the background.
start(t) ==
    /\ ~running /\ running' = TRUE
    /\ Restored(LastSnapshot)
    /\ Become(t, IF LastSnapshot # None THEN [step |-> "version", announce |-> TRUE]
                 ELSE [step |-> "session", expected |-> None, initial |-> TRUE])
    /\ offline' \in BOOLEAN
    /\ UNCHANGED <<store, session, cached, inFlight, entry, leaving, server, promised, kills>>

\* A login goes straight to the account's own data.
login(t, u) ==
    /\ running /\ session = None /\ ~Pending /\ leaving = None
    /\ tasks[t] = Idle
    /\ session' = u
    /\ Become(t, [step |-> "session", expected |-> None, initial |-> TRUE])
    /\ UNCHANGED <<store, running, user, outbox, offline, cached, inFlight, entry, leaving,
                   server, promised, kills>>

\* The timer, the window's events and the pull gesture; the latter does not
\* mind a pending action, and shows that it connects.
refresh(t) ==
    /\ running /\ user # None /\ ~inFlight /\ tasks[t] = Idle
    /\ \E gesture \in BOOLEAN :
          /\ Pending => gesture
          /\ Become(t, [step |-> "version", announce |-> gesture])
    /\ UNCHANGED <<store, session, running, user, outbox, offline, cached, inFlight, entry,
                   leaving, server, promised, kills>>

\* Only after the version check is the flag set and the user noted.
check_version(t) ==
    /\ tasks[t].step = "version"
    /\ inFlight' = TRUE
    /\ offline' = (offline /\ ~tasks[t].announce)
    /\ Become(t, [step |-> "session", expected |-> user, initial |-> FALSE])
    /\ UNCHANGED <<store, session, running, user, outbox, cached, entry, leaving, server,
                   promised, kills>>

\* getUserSession, answered for the account of the session; then
\* hydrateOfflineCacheForUser, which reads the native store once per account.
get_session(t) ==
    LET task == tasks[t]
    IN  /\ task.step = "session" /\ session # None
        /\ task.expected \in {None, session}
        /\ Become(t, IF cached = session
                     THEN [task EXCEPT !.step = "sync"] @@ [owner |-> session, queue |-> outbox]
                     ELSE [task EXCEPT !.step = "hydrate"] @@
                          [owner |-> session, snapshot |-> load_last(native)])
        /\ UNCHANGED <<store, session, running, user, outbox, offline, cached, inFlight, entry,
                       leaving, server, promised, kills>>

\* The rest of hydrateOfflineCacheForUser: the outbox becomes what was read,
\* and nothing when that failed or is of somebody else.
hydrate(t) ==
    LET task == tasks[t]
    IN  /\ task.step = "hydrate"
        /\ cached' = task.owner
        /\ \E read \in {task.snapshot} \cup (IF StoreErrors THEN {None} ELSE {}) :
              outbox' = IF read = None \/ read.user # task.owner THEN <<>> ELSE read.outbox
        /\ Become(t, [step |-> "sync", expected |-> task.expected, initial |-> task.initial,
                      owner |-> task.owner, queue |-> outbox'])
        /\ UNCHANGED <<store, session, running, user, offline, inFlight, entry, leaving, server,
                       promised, kills>>

\* One queued creation is sent, under the session of the moment; it leaves
\* the outbox, and what is left is saved.
sync_one(t) ==
    LET task == tasks[t]
    IN  /\ task.step = "sync" /\ task.queue # <<>> /\ session # None
        /\ server' = server \cup {task.queue[1]}
        /\ outbox' = SelectSeq(outbox, LAMBDA m : m # task.queue[1])
        /\ IF user = None THEN UNCHANGED store ELSE Saved(user, outbox')
        /\ Become(t, [task EXCEPT !.queue = Tail(@)])
        /\ UNCHANGED <<session, running, user, offline, cached, inFlight, entry, leaving,
                       promised, kills>>

\* The queue is empty: the dashboard is fetched, applied and saved, unless
\* the user is another one by now.
apply(t) ==
    LET task == tasks[t]
    IN  /\ task.step = "sync" /\ task.queue = <<>>
        /\ IF task.expected \notin {None, user} THEN UNCHANGED <<user, offline, store>>
           ELSE /\ user' = task.owner
                /\ offline' = FALSE
                /\ Saved(task.owner, outbox)
        /\ inFlight' = (inFlight /\ task.initial)
        /\ Become(t, Idle)
        /\ UNCHANGED <<session, running, outbox, cached, entry, leaving, server, promised, kills>>

\* Any call fails: the network, a refusal, or the end of the session.  The
\* creation that was being sent may have been recorded.
interrupted(t) ==
    LET task == tasks[t]
    IN  /\ task.step \in {"session", "hydrate", "sync"}
        /\ server' \in IF task.step = "sync" /\ task.queue # <<>> /\ session # None
                       THEN {server, server \cup {task.queue[1]}} ELSE {server}
        /\ session' \in {session, None}
        /\ IF task.initial THEN Restored(LastSnapshot) ELSE UNCHANGED <<user, outbox>>
        /\ offline' = TRUE
        /\ inFlight' = (inFlight /\ task.initial)
        /\ Become(t, Idle)
        /\ UNCHANGED <<store, running, cached, entry, leaving, promised, kills>>

-----------------------------------------------------------------------------
(* submitQuickEntry.                                                       *)

\* queueOfflineTransaction.
Queued(m) ==
    /\ outbox' = Append(outbox, m)
    /\ offline' = TRUE
    /\ Saved(user, outbox')
    /\ entry' = [step |-> "queued", mutation |-> m, by |-> user]

submit(m) ==
    /\ running /\ user # None /\ ~Pending
    /\ m \notin server \cup ToSet(outbox) /\ \A p \in promised : p[2] # m
    /\ IF offline THEN Queued(m)
       ELSE /\ entry' = [step |-> "sending", mutation |-> m, by |-> user]
            /\ UNCHANGED <<store, outbox, offline>>
    /\ UNCHANGED <<session, running, user, cached, inFlight, tasks, leaving, server, promised,
                   kills>>

\* What the toast promises, unless the user has logged out meanwhile.
Promise == {<<u, entry.mutation>> : u \in {entry.by} \ {None}}

\* The server answers; its refusal ends the submission with an error.
sent(recorded) ==
    /\ entry.step = "sending"
    /\ recorded => session # None
    /\ server' = IF recorded THEN server \cup {entry.mutation} ELSE server
    /\ promised' = IF recorded THEN promised \cup Promise ELSE promised
    /\ entry' = NoEntry
    /\ UNCHANGED <<store, session, running, user, outbox, offline, cached, inFlight, tasks,
                   leaving, kills>>

\* The network failed, before or after the server had recorded it.
send_failed ==
    /\ entry.step = "sending" /\ user # None
    /\ server' \in IF session = None THEN {server} ELSE {server, server \cup {entry.mutation}}
    /\ Queued(entry.mutation)
    /\ UNCHANGED <<session, running, user, cached, inFlight, tasks, leaving, promised, kills>>

\* The save was answered: "saved on this device, will be synchronised".
told ==
    /\ entry.step = "queued"
    /\ promised' = promised \cup Promise
    /\ entry' = NoEntry
    /\ UNCHANGED <<store, session, running, user, outbox, offline, cached, inFlight, tasks,
                   leaving, server, kills>>

-----------------------------------------------------------------------------
(* The end of a session, and of the app.                                   *)

logout ==
    /\ running /\ user # None /\ leaving = None
    /\ leaving' = user
    /\ UNCHANGED <<store, session, running, user, outbox, offline, cached, inFlight, tasks, entry,
                   server, promised, kills>>

\* The user's document goes with the session, and the promises with both.
logged_out ==
    /\ leaving # None
    /\ session' = None
    /\ native' = clear(native, leaving) /\ mirror' = clear(mirror, leaving)
    /\ user' = None /\ outbox' = <<>> /\ cached' = None /\ leaving' = None
    /\ promised' = {p \in promised : p[1] # leaving}
    /\ entry' = [entry EXCEPT !.by = None]
    /\ UNCHANGED <<running, offline, inFlight, tasks, server, kills>>

kill ==
    /\ running /\ kills < MaxKills
    /\ kills' = kills + 1
    /\ running' = FALSE /\ user' = None /\ outbox' = <<>> /\ offline' = FALSE
    /\ cached' = None /\ inFlight' = FALSE
    /\ tasks' = [t \in Tasks |-> Idle] /\ entry' = NoEntry /\ leaving' = None
    /\ UNCHANGED <<store, session, server, promised>>

Next ==
    \/ \E t \in Tasks :
          \/ start(t) \/ refresh(t) \/ check_version(t) \/ get_session(t) \/ hydrate(t)
          \/ sync_one(t) \/ apply(t) \/ interrupted(t)
          \/ \E u \in Users : login(t, u)
    \/ \E m \in Mutations : submit(m)
    \/ \E recorded \in BOOLEAN : sent(recorded)
    \/ send_failed \/ told \/ logout \/ logged_out \/ kill

Spec == Init /\ [][Next]_vars

-----------------------------------------------------------------------------
(* Properties.                                                             *)

Kept(u, m) ==
    \/ m \in server
    \/ user = u /\ m \in ToSet(outbox)
    \/ \E s \in {native, mirror} : s.docs[u] # None /\ m \in ToSet(s.docs[u])

(***************************************************************************)
(* "Saved on this device, will be synchronised when the network is back"   *)
(* (the toast of submitQuickEntry): until its user logs out, a creation    *)
(* the app has confirmed is recorded by the server or is still in an       *)
(* outbox of the user's, in memory or on the device.                       *)
(***************************************************************************)
QueuedIsKept == \A p \in promised : Kept(p[1], p[2])
=============================================================================
