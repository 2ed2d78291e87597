--------------------------- MODULE LoginProtection ---------------------------
(***************************************************************************)
(* Lockouts for failed logins and limits on other requests                 *)
(* (cloudledger-server: login_protection.rs and its callers in             *)
(* auth_routes.rs, admin.rs and lib.rs).                                   *)
(*                                                                         *)
(* A login is checked against the lock of its address and of the login     *)
(* itself, may have to solve a challenge, waits for the write gate, has    *)
(* its password verified, and only then is its failure or success          *)
(* recorded: several logins can be between the check and the record.  The  *)
(* failures are kept in maps of the process or in PostgreSQL.              *)
(***************************************************************************)
EXTENDS Naturals, FiniteSets, FiniteSetsExt, Functions

CONSTANTS
    Requests,       \* slots for concurrent logins
    Ips,            \* addresses
    Logins,         \* login identifiers, each on one surface
    Surface,        \* Surface[l]: where login l is made
    AnyLogin,       \* the key of an address as such
    TurnstileAfter, \* turnstile_after_failures
    LoginLimit,     \* max_failures_per_login
    IpLimit,        \* max_failures_per_ip
    RateLimit,      \* the limit of security_rate_policy
    Window,         \* in ticks, for logins and for other requests
    Lockout,
    MaxTracked,     \* MAX_TRACKED_KEYS
    MaxTime,        \* bound on the clock
    None

LoginSurface == {"Business", "OrganizationAdmin", "Platform", "AdminAuthorization"}

\* What ServerConfig::validate asks of them: a lock may be shorter than the
\* window, or longer.
ASSUME ProtectionConstants ==
    /\ Surface \in [Logins -> LoginSurface]
    /\ AnyLogin \notin Logins
    /\ TurnstileAfter \in Nat /\ LoginLimit \in Nat /\ IpLimit \in Nat
    /\ 0 < TurnstileAfter /\ TurnstileAfter < LoginLimit /\ LoginLimit <= IpLimit
    /\ RateLimit \in Nat \ {0}
    /\ Window \in Nat /\ Lockout \in Nat /\ 0 < Window /\ 0 < Lockout
    /\ MaxTracked \in Nat \ {0} /\ MaxTime \in Nat \ {0}
    /\ IsFiniteSet(Requests) /\ None \notin Requests

VARIABLES
    backend,   \* "Memory" or "Postgres"
    now,       \* the clock, in ticks
    buckets,   \* failures_by_login and failures_by_ip, or login_failure_buckets
    rates,     \* memory_security_limits, or security_rate_limits
    pc,        \* where each login is
    target,    \* the key each login is for
    solved,    \* whether it solved a challenge
    guesses,   \* how many wrong passwords of each key were answered, by time
    unsolved,  \* how many of them without a challenge
    served     \* how many other requests of each address were let through, by time

protection == <<buckets, rates>>
logins == <<pc, target, solved>>
history == <<guesses, unsolved, served>>
vars == <<backend, now, buckets, rates, pc, target, solved, guesses,
          unsolved, served>>

Time == 1 .. MaxTime

LoginKeys == Ips \X Logins
IpKeys == Ips \X {AnyLogin}
Keys == LoginKeys \cup IpKeys

IpOf(k) == <<k[1], AnyLogin>>
LimitOf(k) == IF k \in IpKeys THEN IpLimit ELSE LoginLimit

\* A time of 0 stands for none.
FailureState ==
    [failures : Nat, window_started : Time,
     blocked_until : 0 .. MaxTime + Lockout, last_seen : Time]

\* A key without an entry is not mistaken for one.
ASSUME NoBucket == None \notin FailureState

TypeOK ==
    /\ backend \in {"Memory", "Postgres"}
    /\ now \in Time
    /\ buckets \in [Keys -> FailureState \cup {None}]
    /\ rates \in [Ips -> FailureState \cup {None}]
    /\ pc \in [Requests -> {"idle", "checked", "admitted", "wrong", "right"}]
    /\ target \in [Requests -> LoginKeys \cup {None}]
    /\ solved \in [Requests -> BOOLEAN]
    /\ guesses \in [Keys -> [Time -> Nat]] /\ unsolved \in [Keys -> [Time -> Nat]]
    /\ served \in [Ips -> [Time -> Nat]]

Never == [t \in Time |-> 0]

Init ==
    /\ backend \in {"Memory", "Postgres"}
    /\ now = 1
    /\ buckets = [k \in Keys |-> None]
    /\ rates = [i \in Ips |-> None]
    /\ pc = [r \in Requests |-> "idle"]
    /\ target = [r \in Requests |-> None]
    /\ solved = [r \in Requests |-> FALSE]
    /\ guesses = [k \in Keys |-> Never] /\ unsolved = [k \in Keys |-> Never]
    /\ served = [i \in Ips |-> Never]

-----------------------------------------------------------------------------
(* One bucket.                                                             *)

new == [failures |-> 0, window_started |-> now, blocked_until |-> 0, last_seen |-> now]

Blocks(b) == b # None /\ b.blocked_until > now

\* Mutant: a lock that has ended leaves the failures that led to it.
RenewedByWindow(b) ==
    IF ~Blocks(b) /\ now - b.window_started >= Window
    THEN new ELSE [b EXCEPT !.last_seen = now]

\* Looking a bucket up in memory starts it anew when it is over: when its lock
\* has ended, or without one its window.
active_retry_after(b) ==
    IF ~Blocks(b) /\ (b.blocked_until # 0 \/ now - b.window_started >= Window)
    THEN new ELSE [b EXCEPT !.last_seen = now]

\* A missing bucket is created first.
record_failure_state(b, limit) ==
    LET s == IF b = None THEN new ELSE active_retry_after(b)
    IN  IF Blocks(s) THEN s
        ELSE [s EXCEPT !.failures = @ + 1,
                       !.blocked_until = IF s.failures + 1 >= limit THEN now + Lockout ELSE 0]

\* The row that INSERT ... ON CONFLICT DO UPDATE leaves when the count n
\* locks from `threshold` on.
Upserted(b, threshold) ==
    LET stale == b # None /\ b.window_started <= now - Window
        count == IF b = None \/ stale THEN 1 ELSE b.failures + 1
    IN  IF Blocks(b) THEN [b EXCEPT !.last_seen = now]
        ELSE [failures |-> count,
              window_started |-> IF b = None \/ stale THEN now ELSE b.window_started,
              blocked_until |-> IF count >= threshold THEN now + Lockout ELSE 0,
              last_seen |-> now]

\* Mutant: the window starts anew with every failure, and so does the count.
UpsertedAnew(b, limit) ==
    IF Blocks(b) THEN [b EXCEPT !.last_seen = now]
    ELSE [failures |-> 1, window_started |-> now,
          blocked_until |-> IF 1 >= limit THEN now + Lockout ELSE 0, last_seen |-> now]

\* Mutant: the lock lasts a window longer.
UpsertedLong(b, limit) ==
    LET u == Upserted(b, limit)
    IN  IF u.blocked_until = now + Lockout /\ ~Blocks(b)
        THEN [u EXCEPT !.blocked_until = @ + Window] ELSE u

upsert_failure_bucket(b, limit) == Upserted(b, limit)

-----------------------------------------------------------------------------
(* All buckets.                                                            *)

\* prune drops what was not seen for longer than a window and a lockout.
prune(map) ==
    [k \in DOMAIN map |->
        IF map[k] # None /\ ~Blocks(map[k]) /\ now - map[k].last_seen > Window + Lockout
        THEN None ELSE map[k]]

\* cleanup_expired, and the DELETE of check_security_request.
cleanup_expired(map) ==
    [k \in DOMAIN map |->
        IF map[k] # None /\ map[k].last_seen + Window + Lockout < now
                         /\ map[k].blocked_until < now
        THEN None ELSE map[k]]

\* make_room on one of the maps: what may be evicted.  It makes room whether
\* or not the key to be recorded is tracked already.
make_room(map, part) ==
    LET tracked == {k \in part : map[k] # None}
    IN  IF Cardinality(tracked) < MaxTracked THEN {{}}
        ELSE {{k} : k \in {j \in tracked :
                              \A i \in tracked : map[j].last_seen <= map[i].last_seen}}

Without(map, lost) == [k \in DOMAIN map |-> IF k \in lost THEN None ELSE map[k]]

\* The map once `record` was applied to the buckets of k and of its address.
Recorded(map, k, record(_, _)) ==
    [j \in DOMAIN map |->
        IF j \in {k, IpOf(k)} THEN record(map[j], LimitOf(j)) ELSE map[j]]

-----------------------------------------------------------------------------
(* A login.                                                                *)

Goto(r, place) == pc' = [pc EXCEPT ![r] = place]

End(r) ==
    /\ Goto(r, "idle")
    /\ target' = [target EXCEPT ![r] = None]
    /\ solved' = [solved EXCEPT ![r] = FALSE]

Refused(k) == Blocks(buckets[k]) \/ Blocks(buckets[IpOf(k)])

\* LoginProtection::check_at also renews what it looks at; the SELECT does not.
CheckedBuckets(k) ==
    IF backend = "Postgres" THEN buckets
    ELSE [j \in Keys |-> IF j \in {k, IpOf(k)} /\ prune(buckets)[j] # None
                         THEN active_retry_after(prune(buckets)[j]) ELSE prune(buckets)[j]]

\* check_login_attempt, before anything is awaited but the store.
Check(r, k) ==
    /\ pc[r] = "idle"
    /\ buckets' = CheckedBuckets(k)
    /\ IF Refused(k) THEN UNCHANGED logins
       ELSE /\ Goto(r, "checked")
            /\ target' = [target EXCEPT ![r] = k]
            /\ UNCHANGED solved
    /\ UNCHANGED <<backend, now, rates, history>>

SurfaceOf(r) == Surface[target[r][2]]

\* The memory store prunes before it counts, the SELECT does not.
Kept == IF backend = "Memory" THEN prune(buckets) ELSE buckets

\* Mutant: the comparison with the window is the wrong way round.
ChallengeAfterwards(k) ==
    LET b == Kept[k]
    IN  b # None /\ b.failures >= TurnstileAfter /\ b.window_started <= now - Window

challenge_required(k) ==
    LET b == Kept[k]
    IN  b # None /\ b.failures >= TurnstileAfter
        /\ (backend = "Postgres" => b.window_started > now - Window)

\* Who has to pass verify_for_action; an authorization header never does.
MustSolve(r) ==
    \/ SurfaceOf(r) \in {"OrganizationAdmin", "Platform"}
    \/ SurfaceOf(r) = "Business" /\ challenge_required(target[r])

\* The challenge is passed, or is not asked for.
Challenge(r) ==
    /\ pc[r] = "checked"
    /\ buckets' = IF SurfaceOf(r) = "Business" THEN Kept ELSE buckets
    /\ solved' = [solved EXCEPT ![r] = MustSolve(r)]
    /\ Goto(r, "admitted")
    /\ UNCHANGED <<backend, now, rates, target, history>>

\* Logins of these surfaces verify and record behind the write gate.
Gated(r) == SurfaceOf(r) \in {"Business", "OrganizationAdmin"}

GateFree ==
    \A q \in Requests : pc[q] \in {"wrong", "right"} => ~Gated(q)

\* The password, token or header is verified; errors other than wrong
\* credentials are treated as a success.
Verify(r) ==
    /\ pc[r] = "admitted" /\ (Gated(r) => GateFree)
    /\ Goto(r, "wrong") \/ Goto(r, "right")
    /\ UNCHANGED <<backend, now, protection, target, solved, history>>

\* The caller is gone, the challenge failed or the store did: nothing is
\* recorded, and nobody learns whether the password was right.
Drop(r) ==
    /\ pc[r] # "idle"
    /\ End(r)
    /\ UNCHANGED <<backend, now, protection, history>>

\* One more answer about the keys; what was lost counts from nothing.
Told(h, keys, lost) ==
    [k \in DOMAIN h |->
        LET kept == IF k \in lost THEN Never ELSE h[k]
        IN  IF k \in keys THEN [kept EXCEPT ![now] = @ + 1] ELSE kept]

Answered(r, lost) ==
    LET keys == {target[r], IpOf(target[r])}
    IN  /\ guesses' = Told(guesses, keys, lost)
        /\ unsolved' = Told(unsolved, IF solved[r] THEN {} ELSE keys, lost)

\* record_failure in memory: prune, make room in both maps, count in both.
RecordFailureInMemory(r) ==
    LET kept == prune(buckets)
    IN  \E login \in make_room(kept, LoginKeys), ip \in make_room(kept, IpKeys) :
           /\ buckets' = Recorded(Without(kept, login \cup ip), target[r],
                                  record_failure_state)
           /\ Answered(r, login \cup ip)

\* record_failure in PostgreSQL: one transaction; its answer may be lost.
RecordFailureInPostgres(r) ==
    /\ buckets' = cleanup_expired(Recorded(buckets, target[r], upsert_failure_bucket))
    /\ Answered(r, {}) \/ UNCHANGED <<guesses, unsolved>>

\* Mutant: one check serves any number of wrong passwords.
RecordedAndTriedAgain(r) ==
    /\ pc[r] = "wrong"
    /\ IF backend = "Memory" THEN RecordFailureInMemory(r) ELSE RecordFailureInPostgres(r)
    /\ UNCHANGED <<backend, now, rates, logins, served>>

RecordFailure(r) ==
    /\ pc[r] = "wrong"
    /\ IF backend = "Memory" THEN RecordFailureInMemory(r) ELSE RecordFailureInPostgres(r)
    /\ End(r)
    /\ UNCHANGED <<backend, now, rates, served>>

\* record_success forgets the failures of the login, not of the address.
RecordSuccess(r) ==
    /\ pc[r] = "right"
    /\ buckets' = [buckets EXCEPT ![target[r]] = None]
    /\ guesses' = [guesses EXCEPT ![target[r]] = Never]
    /\ unsolved' = [unsolved EXCEPT ![target[r]] = Never]
    /\ End(r)
    /\ UNCHANGED <<backend, now, rates, served>>

-----------------------------------------------------------------------------
(* Other requests: refreshes, anonymous and unauthorized ones.             *)

\* Mutant: every request starts the window anew.
RateRecordedAnew(b) == UpsertedAnew(b, RateLimit + 1)

\* The map blocks with the request that reaches the limit, the table with the
\* one after it.
RateRecorded(b) ==
    IF backend = "Memory" THEN record_failure_state(b, RateLimit)
                          ELSE Upserted(b, RateLimit + 1)

check_security_request(i) ==
    /\ \E lost \in IF backend = "Memory" THEN make_room(rates, Ips) ELSE {{}} :
          LET b == RateRecorded(Without(rates, lost)[i])
              recorded == [Without(rates, lost) EXCEPT ![i] = b]
          IN  /\ rates' = IF backend = "Memory" THEN recorded ELSE cleanup_expired(recorded)
              /\ served' = Told(served, IF Blocks(b) THEN {} ELSE {i}, lost)
    /\ UNCHANGED <<backend, now, buckets, logins, guesses, unsolved>>

-----------------------------------------------------------------------------
(* Time and the process.                                                   *)

\* History is kept for one window.
Recent(h) == [x \in DOMAIN h |-> [t \in Time |-> IF t + Window > now + 1 THEN h[x][t] ELSE 0]]

Tick ==
    /\ now < MaxTime
    /\ now' = now + 1
    /\ guesses' = Recent(guesses) /\ unsolved' = Recent(unsolved)
    /\ served' = Recent(served)
    /\ UNCHANGED <<backend, protection, logins>>

\* The process ends and starts again; the maps are gone, the tables are not.
Restart ==
    /\ pc' = [r \in Requests |-> "idle"]
    /\ target' = [r \in Requests |-> None]
    /\ solved' = [r \in Requests |-> FALSE]
    /\ IF backend = "Memory"
       THEN /\ buckets' = [k \in Keys |-> None]
            /\ rates' = [i \in Ips |-> None]
            /\ guesses' = [k \in Keys |-> Never] /\ unsolved' = [k \in Keys |-> Never]
            /\ served' = [i \in Ips |-> Never]
       ELSE UNCHANGED <<protection, history>>
    /\ UNCHANGED <<backend, now>>

Next ==
    \/ \E r \in Requests :
          \/ \E k \in LoginKeys : Check(r, k)
          \/ Challenge(r) \/ Verify(r) \/ Drop(r)
          \/ RecordFailure(r) \/ RecordSuccess(r)
    \/ \E i \in Ips : check_security_request(i)
    \/ Tick
    \/ Restart

Spec == Init /\ [][Next]_vars

-----------------------------------------------------------------------------
(* Properties.                                                             *)

(***************************************************************************)
(* Both stores implement the one promise (LoginLimits): the failures of a  *)
(* window, the lock at the limit and its end are the same in both, however *)
(* late a bucket is cleaned up.  Only the memory store may forget, at a    *)
(* restart or when it is full, and where a lock ends before the window its *)
(* failures end with the lock there, and with the window in the table.     *)
(***************************************************************************)
NoFailures == [count |-> 0, since |-> 0, until |-> 0]

\* What a bucket is worth now, however long it is kept.  A lock that has ended
\* in its window is forgotten by the memory store; the table goes on counting.
Worth(b) ==
    IF \/ b.failures = 0
       \/ /\ b.blocked_until <= now
          /\ \/ b.window_started + Window <= now
             \/ backend = "Memory" /\ b.blocked_until # 0
    THEN NoFailures
    ELSE [count |-> b.failures, since |-> b.window_started, until |-> b.blocked_until]

Limits == INSTANCE LoginLimits WITH
    Limit <- [k \in Keys |-> LimitOf(k)],
    volatile <- backend = "Memory",
    tally <- [k \in Keys |-> IF buckets[k] = None THEN NoFailures ELSE Worth(buckets[k])]

ImplementsLimits == Limits!LimitsSpec

Total(h) == SumFunction(h)

\* How many locks of a key may begin in an interval of the length of a window.
LocksInWindow == (Window - 1) \div Lockout + 1

(***************************************************************************)
(* How many wrong passwords of a key are answered in any interval of the   *)
(* length of the window, R logins being possible at a time.  With each     *)
(* lock that begins in it, as many as lead to the lock and those of the    *)
(* R - 1 logins that were checked before it.  Before the first of them,    *)
(* what is left of an earlier window that did not lock, one fewer than the *)
(* limit, or of an earlier lock, R - 1.  A lockout no shorter than the     *)
(* window, as by default, gives one lock.                                  *)
(***************************************************************************)
GuessesBounded ==
    \A k \in Keys :
        Total(guesses[k]) <= Max({LimitOf(k), Cardinality(Requests)}) - 1
                             + LocksInWindow * (LimitOf(k) + Cardinality(Requests) - 1)

(***************************************************************************)
(* On the business surface a challenge is asked for only after some        *)
(* failures.  In one window so many wrong passwords are answered without   *)
(* one, and those of the R - 1 logins that were admitted before the last   *)
(* of them was counted; an interval of the length of the window meets two  *)
(* windows, and one more for each further lock that fits in it, since the  *)
(* memory store forgets the failures with the lock.                        *)
(***************************************************************************)
ChallengedInTime ==
    \A k \in LoginKeys :
        Surface[k[2]] = "Business" =>
            Total(unsolved[k]) <= (LocksInWindow + 1) * (TurnstileAfter + Cardinality(Requests) - 1)

(***************************************************************************)
(* No address is served more other requests in the length of a window than *)
(* two limits, and one more for each further lock that fits in it, unless  *)
(* the memory store had to forget it.  By security_rate_policy no further  *)
(* lock fits.                                                              *)
(***************************************************************************)
RequestsBounded == \A i \in Ips : Total(served[i]) <= (LocksInWindow + 1) * RateLimit
=============================================================================
