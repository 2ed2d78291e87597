----------------------------- MODULE LoginProofs -----------------------------
(***************************************************************************)
(* Proofs about LoginProtection, for any logins, addresses and limits, any *)
(* window and lockout, any number of requests at a time and of tracked     *)
(* keys: the types, that both stores implement the one promise of          *)
(* LoginLimits, and how many wrong passwords and other requests are        *)
(* answered in the length of a window.                                     *)
(***************************************************************************)
EXTENDS LoginProtection, Sums

-----------------------------------------------------------------------------
(* What the refinement rests on.                                           *)

\* A bucket at time t: it was opened before it was last used, which has been,
\* and an empty one holds no lock.
FitsAt(t, b) ==
    \/ b = None
    \/ /\ b \in FailureState
       /\ b.window_started <= b.last_seen /\ b.last_seen <= t
       /\ b.failures = 0 => b.blocked_until = 0

\* What a bucket, or none, is worth at time t.
WorthAt(t, b) ==
    IF \/ b = None
       \/ b.failures = 0
       \/ /\ b.blocked_until <= t
          /\ \/ b.window_started + Window <= t
             \/ backend = "Memory" /\ b.blocked_until # 0
    THEN NoFailures
    ELSE [count |-> b.failures, since |-> b.window_started, until |-> b.blocked_until]

\* All buckets of the keys S.
FittedAt(t, S, map) ==
    /\ map \in [S -> FailureState \cup {None}]
    /\ \A x \in S : FitsAt(t, map[x])

ClockTyped == backend \in {"Memory", "Postgres"} /\ now \in Time

BucketsFit == FittedAt(now, Keys, buckets) /\ FittedAt(now, Ips, rates)

\* Whoever is between the check and the record is there for some login.
LoginsKnown ==
    /\ pc \in [Requests -> {"idle", "checked", "admitted", "wrong", "right"}]
    /\ target \in [Requests -> LoginKeys \cup {None}]
    /\ solved \in [Requests -> BOOLEAN]
    /\ \A r \in Requests : pc[r] # "idle" => target[r] \in LoginKeys

HistoryTyped ==
    /\ guesses \in [Keys -> [Time -> Nat]] /\ unsolved \in [Keys -> [Time -> Nat]]
    /\ served \in [Ips -> [Time -> Nat]]

LoginInvariant == ClockTyped /\ BucketsFit /\ LoginsKnown /\ HistoryTyped

-----------------------------------------------------------------------------
(* One bucket.                                                             *)

LEMMA TimeIsNatural ==
    ASSUME NEW t \in Time
    PROVE  t \in Nat /\ t >= 1 /\ t <= MaxTime
  BY ProtectionConstants DEF ProtectionConstants, Time

LEMMA LimitsPositive ==
    ASSUME NEW k \in Keys
    PROVE  LimitOf(k) \in Nat /\ LimitOf(k) >= 1
  BY ProtectionConstants DEF ProtectionConstants, LimitOf

LEMMA BucketParts ==
    ASSUME NEW b \in FailureState
    PROVE  /\ b # None
           /\ b.failures \in Nat /\ b.window_started \in Time
           /\ b.blocked_until \in Nat /\ b.blocked_until <= MaxTime + Lockout
           /\ b.last_seen \in Time
  BY NoBucket, ProtectionConstants DEF FailureState, ProtectionConstants

LEMMA BucketMade ==
    ASSUME NEW f \in Nat, NEW w \in Time, NEW u \in Nat, u <= MaxTime + Lockout,
           NEW l \in Time
    PROVE  [failures |-> f, window_started |-> w, blocked_until |-> u, last_seen |-> l]
               \in FailureState
  BY ProtectionConstants DEF FailureState, ProtectionConstants

LEMMA FreshBucket ==
    ASSUME now \in Time
    PROVE  new \in FailureState /\ FitsAt(now, new) /\ WorthAt(now, new) = NoFailures
  <1>1. new \in FailureState
    BY BucketMade, TimeIsNatural, ProtectionConstants DEF new, ProtectionConstants
  <1>2. QED
    BY <1>1, TimeIsNatural DEF new, FitsAt, WorthAt

\* The effect of a later look on a bucket.
LEMMA BucketSeen ==
    ASSUME now \in Time, NEW b \in FailureState
    PROVE  /\ [b EXCEPT !.last_seen = now] \in FailureState
           /\ [b EXCEPT !.last_seen = now].failures = b.failures
           /\ [b EXCEPT !.last_seen = now].window_started = b.window_started
           /\ [b EXCEPT !.last_seen = now].blocked_until = b.blocked_until
           /\ [b EXCEPT !.last_seen = now].last_seen = now
  BY DEF FailureState

LEMMA SeenKeeps ==
    ASSUME now \in Time, NEW b \in FailureState, FitsAt(now, b)
    PROVE  /\ FitsAt(now, [b EXCEPT !.last_seen = now])
           /\ WorthAt(now, [b EXCEPT !.last_seen = now]) = WorthAt(now, b)
  <1> DEFINE seen == [b EXCEPT !.last_seen = now]
  <1>1. /\ seen \in FailureState
        /\ seen.failures = b.failures /\ seen.window_started = b.window_started
        /\ seen.blocked_until = b.blocked_until /\ seen.last_seen = now
    BY BucketSeen
  <1> HIDE DEF seen
  <1>2. b # None /\ seen # None
    BY <1>1, BucketParts
  <1>3. b.window_started <= now
    BY <1>2, BucketParts, TimeIsNatural DEF FitsAt
  <1>4. FitsAt(now, seen)
    BY <1>1, <1>2, <1>3, TimeIsNatural DEF FitsAt
  <1>5. WorthAt(now, seen) = WorthAt(now, b)
    BY <1>1, <1>2 DEF WorthAt
  <1>6. QED
    BY <1>4, <1>5 DEF seen

(***************************************************************************)
(* Looking a bucket up changes nothing it is worth to the memory store,    *)
(* which renews only what is over.                                         *)
(***************************************************************************)
LEMMA RenewalKeeps ==
    ASSUME now \in Time, NEW b, b # None, FitsAt(now, b)
    PROVE  /\ active_retry_after(b) \in FailureState
           /\ FitsAt(now, active_retry_after(b))
           /\ backend = "Memory" => WorthAt(now, active_retry_after(b)) = WorthAt(now, b)
  <1>1. b \in FailureState
    BY DEF FitsAt
  <1>2. CASE ~Blocks(b) /\ (b.blocked_until # 0 \/ now - b.window_started >= Window)
    <2>1. active_retry_after(b) = new
      BY <1>2 DEF active_retry_after
    <2>2. backend = "Memory" => WorthAt(now, b) = NoFailures
      BY <1>1, <1>2, BucketParts, TimeIsNatural, ProtectionConstants
         DEF WorthAt, Blocks, ProtectionConstants
    <2>3. QED
      BY <2>1, <2>2, FreshBucket
  <1>3. CASE ~(~Blocks(b) /\ (b.blocked_until # 0 \/ now - b.window_started >= Window))
    <2>1. active_retry_after(b) = [b EXCEPT !.last_seen = now]
      BY <1>3 DEF active_retry_after
    <2>2. QED
      BY <1>1, <2>1, SeenKeeps, BucketSeen
  <1>4. QED
    BY <1>2, <1>3

(***************************************************************************)
(* What prune and cleanup_expired drop was worth nothing any more.         *)
(***************************************************************************)
LEMMA DroppedIsOver ==
    ASSUME now \in Time, NEW b, b # None, FitsAt(now, b),
           \/ ~Blocks(b) /\ now - b.last_seen > Window + Lockout
           \/ b.last_seen + Window + Lockout < now /\ b.blocked_until < now
    PROVE  WorthAt(now, b) = NoFailures
  <1>1. b \in FailureState
    BY DEF FitsAt
  <1>2. /\ b.failures \in Nat /\ b.blocked_until \in Nat
        /\ b.window_started \in Nat /\ b.last_seen \in Nat /\ now \in Nat
        /\ b.window_started <= b.last_seen
    BY <1>1, BucketParts, TimeIsNatural DEF FitsAt
  <1>3. Window \in Nat /\ Lockout \in Nat
    BY ProtectionConstants DEF ProtectionConstants
  <1>4. b.window_started + Window <= now /\ b.blocked_until <= now
    BY <1>2, <1>3 DEF Blocks
  <1>5. QED
    BY <1>2, <1>4 DEF WorthAt

\* What the promise makes of one more failure, written out.
LEMMA CountedIs ==
    ASSUME NEW k \in Keys, NEW old, NEW next
    PROVE  next \in Limits!Counted(k, old) <=>
             IF old.until > now THEN next = old
             ELSE next \in [count : {old.count + 1},
                            since : IF old.count = 0 THEN {t \in 0 .. now : t + Window > now}
                                                     ELSE {old.since},
                            until : {IF old.count + 1 >= LimitOf(k) THEN now + Lockout ELSE 0}]
  BY DEF Limits!Counted

LEMMA EntryMade ==
    ASSUME NEW C, NEW S, NEW U, NEW c \in C, NEW s \in S, NEW u \in U
    PROVE  [count |-> c, since |-> s, until |-> u] \in [count : C, since : S, until : U]
  OBVIOUS

\* A bucket that was opened at w and holds its n-th failure.
LEMMA FailureHeld ==
    ASSUME now \in Time, NEW n \in Nat, n >= 1, NEW w \in Time, w <= now, w + Window > now,
           NEW u, u \in {0, now + Lockout}
    PROVE  LET b == [failures |-> n, window_started |-> w, blocked_until |-> u, last_seen |-> now]
           IN  /\ b \in FailureState
               /\ FitsAt(now, b)
               /\ WorthAt(now, b) = [count |-> n, since |-> w, until |-> u]
  <1> DEFINE b == [failures |-> n, window_started |-> w, blocked_until |-> u, last_seen |-> now]
  <1>1. /\ now \in Nat /\ w \in Nat /\ now <= MaxTime /\ now >= 1
        /\ Window \in Nat /\ Lockout \in Nat /\ Lockout > 0 /\ Window > 0
        /\ MaxTime \in Nat
    BY TimeIsNatural, ProtectionConstants DEF ProtectionConstants
  <1>2. u \in Nat /\ u <= MaxTime + Lockout
    BY <1>1
  <1>3. b \in FailureState
    BY <1>2, BucketMade
  <1>4. b # None
    BY <1>3, BucketParts
  <1>5. /\ b.failures = n /\ b.window_started = w /\ b.blocked_until = u /\ b.last_seen = now
    OBVIOUS
  <1> HIDE DEF b
  <1>6. FitsAt(now, b)
    BY <1>1, <1>3, <1>5 DEF FitsAt
  <1>7. WorthAt(now, b) = [count |-> n, since |-> w, until |-> u]
    BY <1>1, <1>4, <1>5 DEF WorthAt
  <1>8. QED
    BY <1>3, <1>6, <1>7 DEF b

\* A lock that holds is worth the whole bucket.
LEMMA LockHolds ==
    ASSUME now \in Time, NEW b, FitsAt(now, b), Blocks(b)
    PROVE  /\ b \in FailureState
           /\ WorthAt(now, b) = [count |-> b.failures, since |-> b.window_started,
                                 until |-> b.blocked_until]
           /\ WorthAt(now, b).until > now
  <1>1. b \in FailureState /\ b # None
    BY DEF FitsAt, Blocks
  <1>2. b.failures # 0 /\ b.blocked_until # 0 /\ ~(b.blocked_until <= now)
    BY <1>1, BucketParts, TimeIsNatural DEF FitsAt, Blocks
  <1>3. WorthAt(now, b) = [count |-> b.failures, since |-> b.window_started,
                           until |-> b.blocked_until]
    BY <1>1, <1>2 DEF WorthAt
  <1>4. QED
    BY <1>1, <1>3 DEF Blocks

\* Without a lock that holds, a bucket is over, or counts its window.
LEMMA NoLockHolds ==
    ASSUME now \in Time, NEW b, b # None, FitsAt(now, b), ~Blocks(b)
    PROVE  \/ WorthAt(now, b) = NoFailures
           \/ /\ b.failures >= 1 /\ b.window_started + Window > now
              /\ backend = "Memory" => b.blocked_until = 0
              /\ b.blocked_until <= now
              /\ WorthAt(now, b) = [count |-> b.failures, since |-> b.window_started,
                                    until |-> b.blocked_until]
  <1>1. b \in FailureState
    BY DEF FitsAt
  <1>2. /\ b.failures \in Nat /\ b.blocked_until \in Nat
        /\ b.window_started \in Nat /\ now \in Nat /\ Window \in Nat
    BY <1>1, BucketParts, TimeIsNatural, ProtectionConstants DEF ProtectionConstants
  <1>3. QED
    BY <1>2 DEF WorthAt, Blocks

LEMMA NothingWorth ==
    /\ NoFailures.count = 0 /\ NoFailures.since = 0 /\ NoFailures.until = 0
    /\ NoFailures = Limits!Zero
  BY DEF NoFailures, Limits!Zero

(***************************************************************************)
(* The n-th failure of a window that was opened at w is what the promise   *)
(* makes of the failures before it.                                        *)
(***************************************************************************)
LEMMA FailureCounts ==
    ASSUME now \in Time, NEW k \in Keys, NEW old, NEW n \in Nat, NEW w \in Time,
           w <= now, w + Window > now, old.until \in Nat, old.until <= now,
           old.count \in Nat, n = old.count + 1,
           old.count # 0 => old.since = w
    PROVE  [count |-> n, since |-> w,
            until |-> IF n >= LimitOf(k) THEN now + Lockout ELSE 0] \in Limits!Counted(k, old)
  <1>1. ~(old.until > now) /\ w \in 0 .. now
    BY TimeIsNatural
  <1>2. w \in IF old.count = 0 THEN {t \in 0 .. now : t + Window > now} ELSE {old.since}
    BY <1>1
  <1>3. QED
    BY <1>1, <1>2, CountedIs, EntryMade

\* While it is locked a failure does not count.
LEMMA LockedStays ==
    ASSUME now \in Time, NEW b, FitsAt(now, b), Blocks(b), NEW k \in Keys
    PROVE  WorthAt(now, b) \in Limits!Counted(k, WorthAt(now, b))
  BY LockHolds, CountedIs

\* What is looked up in memory has a lock that holds or a window that runs.
LEMMA RenewedRuns ==
    ASSUME now \in Time, NEW b, b # None, FitsAt(now, b)
    PROVE  LET s == active_retry_after(b)
           IN  /\ s.last_seen = now
               /\ Blocks(s) \/ (s.blocked_until = 0 /\ s.window_started + Window > now)
  <1> DEFINE s == active_retry_after(b)
  <1>0. b \in FailureState
    BY DEF FitsAt
  <1>1. /\ now \in Nat /\ Window \in Nat /\ Window > 0
        /\ b.window_started \in Nat /\ b.blocked_until \in Nat
    BY <1>0, BucketParts, TimeIsNatural, ProtectionConstants DEF ProtectionConstants
  <1>2. CASE ~Blocks(b) /\ (b.blocked_until # 0 \/ now - b.window_started >= Window)
    <2>1. s = new
      BY <1>2 DEF active_retry_after
    <2>2. QED
      BY <1>1, <2>1 DEF new
  <1>3. CASE ~(~Blocks(b) /\ (b.blocked_until # 0 \/ now - b.window_started >= Window))
    <2>1. s = [b EXCEPT !.last_seen = now]
      BY <1>3 DEF active_retry_after
    <2>2. /\ s.last_seen = now /\ s.window_started = b.window_started
          /\ s.blocked_until = b.blocked_until /\ s # None
      BY <1>0, <2>1, BucketSeen, BucketParts
    <2>3. QED
      BY <1>1, <1>3, <2>2 DEF Blocks
  <1>4. QED
    BY <1>2, <1>3

LEMMA CountedInMemory ==
    ASSUME NEW s \in FailureState, NEW n, NEW u, NEW f,
           f = [s EXCEPT !.failures = n, !.blocked_until = u]
    PROVE  f = [failures |-> n, window_started |-> s.window_started, blocked_until |-> u,
                last_seen |-> s.last_seen]
  <1>1. s = [failures |-> s.failures, window_started |-> s.window_started,
             blocked_until |-> s.blocked_until, last_seen |-> s.last_seen]
    BY DEF FailureState
  <1>2. QED
    BY <1>1

(***************************************************************************)
(* record_failure_state keeps a bucket fit, and counts as the memory store *)
(* promises to.                                                            *)
(***************************************************************************)
LEMMA MemoryCounts ==
    ASSUME now \in Time, NEW b, FitsAt(now, b), NEW limit
    PROVE  LET f == record_failure_state(b, limit)
           IN  /\ f \in FailureState /\ FitsAt(now, f)
               /\ backend = "Memory" =>
                     \A k \in Keys : limit = LimitOf(k) =>
                        WorthAt(now, f) \in Limits!Counted(k, WorthAt(now, b))
  <1> DEFINE s == IF b = None THEN new ELSE active_retry_after(b)
             u == IF s.failures + 1 >= limit THEN now + Lockout ELSE 0
             f == record_failure_state(b, limit)
  <1>1. /\ s \in FailureState /\ FitsAt(now, s)
        /\ backend = "Memory" => WorthAt(now, s) = WorthAt(now, b)
    <2>1. CASE b = None
      BY <2>1, FreshBucket DEF WorthAt
    <2>2. CASE b # None
      BY <2>2, RenewalKeeps
    <2>3. QED
      BY <2>1, <2>2
  <1>2. s.last_seen = now /\ (Blocks(s) \/ (s.blocked_until = 0 /\ s.window_started + Window > now))
    <2>1. CASE b = None
      <3>1. now + Window > now
        BY TimeIsNatural, ProtectionConstants DEF ProtectionConstants
      <3>2. QED
        BY <2>1, <3>1 DEF new
    <2>2. CASE b # None
      BY <2>2, RenewedRuns
    <2>3. QED
      BY <2>1, <2>2
  <1>3. f = IF Blocks(s) THEN s ELSE [s EXCEPT !.failures = s.failures + 1, !.blocked_until = u]
    BY DEF record_failure_state
  <1> HIDE DEF s, f
  <1>4. CASE Blocks(s)
    <2>1. f = s
      BY <1>3, <1>4
    <2>2. backend = "Memory" =>
             \A k \in Keys : WorthAt(now, f) \in Limits!Counted(k, WorthAt(now, b))
      BY <1>1, <1>4, <2>1, LockedStays
    <2>3. QED
      BY <1>1, <2>1, <2>2 DEF f
  <1>5. CASE ~Blocks(s)
    <2>1. /\ s # None /\ s.failures \in Nat /\ s.window_started \in Time
          /\ s.window_started <= now
      BY <1>1, <1>2, BucketParts, TimeIsNatural DEF FitsAt
    <2>2. f = [failures |-> s.failures + 1, window_started |-> s.window_started,
               blocked_until |-> u, last_seen |-> now]
      <3>1. s \in FailureState /\ s.last_seen = now
        BY <1>1, <1>2
      <3>2. f = [s EXCEPT !.failures = s.failures + 1, !.blocked_until = u]
        BY <1>3, <1>5
      <3> HIDE DEF u
      <3>3. QED
        BY <3>1, <3>2, CountedInMemory, ZenonT(60)
    <2>3. s.failures + 1 \in Nat /\ s.failures + 1 >= 1 /\ u \in {0, now + Lockout}
      BY <2>1
    <2>4. s.window_started + Window > now
      BY <1>2, <1>5
    <2> HIDE DEF u
    <2>5. /\ f \in FailureState /\ FitsAt(now, f)
          /\ WorthAt(now, f) = [count |-> s.failures + 1, since |-> s.window_started, until |-> u]
      BY <2>1, <2>2, <2>3, <2>4, FailureHeld
    <2>6. backend = "Memory" =>
             /\ WorthAt(now, b).count = s.failures
             /\ WorthAt(now, b).until = 0
             /\ s.failures # 0 => WorthAt(now, b).since = s.window_started
      BY <1>1, <1>2, <1>5, <2>1, <2>4, NothingWorth, TimeIsNatural, ProtectionConstants
         DEF WorthAt, ProtectionConstants
    <2>7. ASSUME backend = "Memory", NEW k \in Keys, limit = LimitOf(k)
          PROVE  WorthAt(now, f) \in Limits!Counted(k, WorthAt(now, b))
      <3>1. u = IF s.failures + 1 >= LimitOf(k) THEN now + Lockout ELSE 0
        BY <2>7 DEF u
      <3>2. now \in Nat
        BY TimeIsNatural
      <3> DEFINE n == s.failures + 1
      <3>3. n \in Nat /\ n = WorthAt(now, b).count + 1
        BY <2>3, <2>6, <2>7
      <3>4. u = IF n >= LimitOf(k) THEN now + Lockout ELSE 0
        BY <3>1
      <3>5. WorthAt(now, f) = [count |-> n, since |-> s.window_started, until |-> u]
        BY <2>5
      <3> HIDE DEF n
      <3>6. WorthAt(now, b).until \in Nat /\ WorthAt(now, b).until <= now
            /\ WorthAt(now, b).count \in Nat
            /\ (WorthAt(now, b).count # 0 => WorthAt(now, b).since = s.window_started)
        BY <2>1, <2>6, <2>7, <3>2
      <3>7. QED
        BY <2>1, <2>4, <3>3, <3>4, <3>5, <3>6, FailureCounts
    <2>8. QED
      BY <2>5, <2>7 DEF f
  <1>6. QED
    BY <1>4, <1>5

(***************************************************************************)
(* So does the upsert of PostgreSQL.  It does not ask whether a lock has   *)
(* ended, only whether the window has: in the same window the next failure *)
(* is one more and locks again.                                            *)
(***************************************************************************)
LEMMA TableCounts ==
    ASSUME now \in Time, NEW b, FitsAt(now, b), NEW limit
    PROVE  LET f == Upserted(b, limit)
           IN  /\ f \in FailureState /\ FitsAt(now, f)
               /\ backend # "Memory" =>
                     \A k \in Keys : limit = LimitOf(k) =>
                        WorthAt(now, f) \in Limits!Counted(k, WorthAt(now, b))
  <1> DEFINE f == Upserted(b, limit)
             stale == b # None /\ b.window_started <= now - Window
             n == IF b = None \/ stale THEN 1 ELSE b.failures + 1
             w == IF b = None \/ stale THEN now ELSE b.window_started
             u == IF n >= limit THEN now + Lockout ELSE 0
  <1>1. f = IF Blocks(b) THEN [b EXCEPT !.last_seen = now]
            ELSE [failures |-> n, window_started |-> w, blocked_until |-> u, last_seen |-> now]
    BY DEF Upserted
  <1>2. now \in Nat /\ Window \in Nat /\ Window > 0
    BY TimeIsNatural, ProtectionConstants DEF ProtectionConstants
  <1> HIDE DEF f
  <1>3. CASE Blocks(b)
    <2>1. b # None /\ b \in FailureState /\ f = [b EXCEPT !.last_seen = now]
      BY <1>1, <1>3 DEF Blocks, FitsAt
    <2>2. f \in FailureState /\ FitsAt(now, f) /\ WorthAt(now, f) = WorthAt(now, b)
      BY <2>1, BucketSeen, SeenKeeps
    <2>3. \A k \in Keys : WorthAt(now, f) \in Limits!Counted(k, WorthAt(now, b))
      BY <1>3, <2>2, LockedStays
    <2>4. QED
      BY <2>2, <2>3 DEF f
  <1>4. CASE ~Blocks(b)
    <2>1. f = [failures |-> n, window_started |-> w, blocked_until |-> u, last_seen |-> now]
      BY <1>1, <1>4
    <2>2. /\ n \in Nat /\ n >= 1 /\ w \in Time /\ w <= now /\ w + Window > now
          /\ backend # "Memory" =>
                /\ n = WorthAt(now, b).count + 1
                /\ WorthAt(now, b).count \in Nat
                /\ WorthAt(now, b).until \in Nat /\ WorthAt(now, b).until <= now
                /\ WorthAt(now, b).count # 0 => WorthAt(now, b).since = w
      <3>1. CASE b = None
        BY <1>2, <3>1, NothingWorth DEF WorthAt
      <3>2. CASE b # None /\ stale
        <4>1. b.window_started \in Nat
          BY <3>2, BucketParts, TimeIsNatural DEF FitsAt
        <4>2. WorthAt(now, b) = NoFailures
          BY <1>2, <1>4, <3>2, <4>1, NoLockHolds
        <4>3. QED
          BY <1>2, <3>2, <4>2, NothingWorth
      <3>3. CASE b # None /\ ~stale
        <4>1. /\ b \in FailureState /\ b.window_started <= b.last_seen /\ b.last_seen <= now
              /\ b.failures \in Nat /\ b.window_started \in Time
              /\ b.blocked_until \in Nat /\ b.last_seen \in Time
          BY <3>3, BucketParts DEF FitsAt
        <4>2. b.window_started \in Nat /\ b.last_seen \in Nat
          BY <4>1, TimeIsNatural
        <4>3. ~(b.window_started <= now - Window)
          BY <3>3
        <4>4. /\ b \in FailureState /\ b.failures \in Nat /\ b.window_started \in Time
              /\ b.window_started \in Nat /\ b.blocked_until \in Nat
              /\ b.window_started <= now /\ b.window_started + Window > now
          BY <1>2, <4>1, <4>2, <4>3
        <4>5. b.blocked_until <= now
          BY <1>2, <1>4, <3>3, <4>4 DEF Blocks
        <4>6. backend # "Memory" =>
                \/ b.failures = 0 /\ WorthAt(now, b) = NoFailures
                \/ WorthAt(now, b) = [count |-> b.failures, since |-> b.window_started,
                                       until |-> b.blocked_until]
          BY <1>2, <3>3, <4>4 DEF WorthAt
        <4>7. n = b.failures + 1 /\ w = b.window_started
          BY <3>3
        <4> HIDE DEF n, w
        <4>8. QED
          BY <1>2, <4>4, <4>5, <4>6, <4>7, NothingWorth
      <3>4. QED
        BY <3>1, <3>2, <3>3
    <2>3. u \in {0, now + Lockout}
      OBVIOUS
    <2>4. \A k \in Keys : limit = LimitOf(k) =>
             u = IF n >= LimitOf(k) THEN now + Lockout ELSE 0
      OBVIOUS
    <2> HIDE DEF n, w, u
    <2>5. /\ f \in FailureState /\ FitsAt(now, f)
          /\ WorthAt(now, f) = [count |-> n, since |-> w, until |-> u]
      BY <2>1, <2>2, <2>3, FailureHeld
    <2>6. ASSUME backend # "Memory", NEW k \in Keys, limit = LimitOf(k)
          PROVE  WorthAt(now, f) \in Limits!Counted(k, WorthAt(now, b))
      <3>1. u = IF n >= LimitOf(k) THEN now + Lockout ELSE 0
        BY <2>4, <2>6
      <3>2. QED
        BY <2>2, <2>5, <2>6, <3>1, FailureCounts
    <2>7. QED
      BY <2>5, <2>6 DEF f
  <1>5. QED
    BY <1>3, <1>4

(***************************************************************************)
(* Time passes for a bucket as it does for its tally.                      *)
(***************************************************************************)
LEMMA TimePasses ==
    ASSUME NEW t \in Nat, NEW b, FitsAt(t, b)
    PROVE  /\ FitsAt(t + 1, b)
           /\ WorthAt(t + 1, b) = Limits!At(t + 1, WorthAt(t, b))
  <1>1. Window \in Nat
    BY ProtectionConstants DEF ProtectionConstants
  <1>2. CASE b = None
    BY <1>2 DEF FitsAt, WorthAt, Limits!At, Limits!Zero, NoFailures
  <1>3. CASE b # None
    <2>1. /\ b \in FailureState /\ b.failures \in Nat /\ b.window_started \in Nat
          /\ b.blocked_until \in Nat /\ b.last_seen \in Nat
      BY <1>3, BucketParts, TimeIsNatural DEF FitsAt
    <2>2. FitsAt(t + 1, b)
      BY <2>1 DEF FitsAt
    <2>3. CASE WorthAt(t, b) = NoFailures
      <3>1. Limits!At(t + 1, WorthAt(t, b)) = NoFailures
        BY <2>3 DEF Limits!At, Limits!Zero, NoFailures
      <3>2. \/ b.failures = 0
            \/ /\ b.blocked_until <= t
               /\ \/ b.window_started + Window <= t
                  \/ backend = "Memory" /\ b.blocked_until # 0
        BY <1>3, <2>1, <2>3 DEF WorthAt, NoFailures
      <3>3. WorthAt(t + 1, b) = NoFailures
        BY <1>1, <2>1, <3>2 DEF WorthAt
      <3>4. QED
        BY <2>2, <3>1, <3>3
    <2>4. CASE WorthAt(t, b) # NoFailures
      <3>1. /\ b.failures # 0
            /\ WorthAt(t, b) = [count |-> b.failures, since |-> b.window_started,
                                until |-> b.blocked_until]
        BY <1>3, <2>4 DEF WorthAt
      <3>2. QED
        BY <1>1, <1>3, <2>1, <2>2, <3>1 DEF WorthAt, Limits!At, Limits!Zero, NoFailures
    <2>5. QED
      BY <2>3, <2>4
  <1>4. QED
    BY <1>2, <1>3

-----------------------------------------------------------------------------
(* All buckets.                                                            *)

\* The two maps have the same worth at time t.
SameWorth(t, S, map1, map2) == \A x \in S : WorthAt(t, map2[x]) = WorthAt(t, map1[x])

LEMMA NoneFits ==
    ASSUME NEW t
    PROVE  FitsAt(t, None) /\ WorthAt(t, None) = NoFailures
  BY DEF FitsAt, WorthAt

\* A map that leaves each bucket alone or drops it when it is worth nothing.
LEMMA DroppedKeeps ==
    ASSUME NEW S, NEW map, FittedAt(now, S, map), NEW map2,
           map2 = [x \in S |-> map2[x]],
           \A x \in S : \/ map2[x] = map[x]
                        \/ map2[x] = None /\ WorthAt(now, map[x]) = NoFailures
    PROVE  FittedAt(now, S, map2) /\ SameWorth(now, S, map, map2)
  <1>1. \A x \in S : map2[x] \in FailureState \cup {None} /\ FitsAt(now, map2[x])
    BY NoneFits DEF FittedAt
  <1>2. \A x \in S : WorthAt(now, map2[x]) = WorthAt(now, map[x])
    BY NoneFits
  <1>3. QED
    BY <1>1, <1>2 DEF FittedAt, SameWorth

LEMMA PruneKeeps ==
    ASSUME now \in Time, NEW S, NEW map, FittedAt(now, S, map)
    PROVE  FittedAt(now, S, prune(map)) /\ SameWorth(now, S, map, prune(map))
  <1> DEFINE map2 == prune(map)
  <1>1. /\ map2 = [x \in S |-> map2[x]]
        /\ \A x \in S :
              map2[x] = IF map[x] # None /\ ~Blocks(map[x])
                                         /\ now - map[x].last_seen > Window + Lockout
                        THEN None ELSE map[x]
    BY DEF prune, FittedAt
  <1> HIDE DEF map2
  <1>2. ASSUME NEW x \in S
        PROVE  \/ map2[x] = map[x]
               \/ map2[x] = None /\ WorthAt(now, map[x]) = NoFailures
    BY <1>1, DroppedIsOver DEF FittedAt
  <1>3. QED
    BY <1>1, <1>2, DroppedKeeps DEF map2

LEMMA CleanupKeeps ==
    ASSUME now \in Time, NEW S, NEW map, FittedAt(now, S, map)
    PROVE  FittedAt(now, S, cleanup_expired(map)) /\ SameWorth(now, S, map, cleanup_expired(map))
  <1> DEFINE map2 == cleanup_expired(map)
  <1>1. /\ map2 = [x \in S |-> map2[x]]
        /\ \A x \in S :
              map2[x] = IF map[x] # None /\ map[x].last_seen + Window + Lockout < now
                                         /\ map[x].blocked_until < now
                        THEN None ELSE map[x]
    BY DEF cleanup_expired, FittedAt
  <1> HIDE DEF map2
  <1>2. ASSUME NEW x \in S
        PROVE  \/ map2[x] = map[x]
               \/ map2[x] = None /\ WorthAt(now, map[x]) = NoFailures
    BY <1>1, DroppedIsOver DEF FittedAt
  <1>3. QED
    BY <1>1, <1>2, DroppedKeeps DEF map2

\* Evicted buckets are worth nothing afterwards, the others what they were.
LEMMA WithoutKeeps ==
    ASSUME NEW S, NEW map, FittedAt(now, S, map), NEW lost
    PROVE  /\ FittedAt(now, S, Without(map, lost))
           /\ \A x \in S : WorthAt(now, Without(map, lost)[x]) =
                              IF x \in lost THEN NoFailures ELSE WorthAt(now, map[x])
  BY NoneFits DEF FittedAt, Without

LEMMA RoomIsTracked ==
    ASSUME NEW map, NEW part, NEW lost \in make_room(map, part)
    PROVE  lost \subseteq part
  BY DEF make_room

\* One bucket of a map replaced by a bucket that fits.
LEMMA ReplacedKeeps ==
    ASSUME NEW S, NEW map, FittedAt(now, S, map), NEW map2, map2 = [x \in S |-> map2[x]],
           \A x \in S : \/ map2[x] = map[x]
                        \/ map2[x] \in FailureState /\ FitsAt(now, map2[x])
                        \/ map2[x] = None
    PROVE  FittedAt(now, S, map2)
  BY NoneFits DEF FittedAt

LEMMA CheckKeeps ==
    ASSUME ClockTyped, FittedAt(now, Keys, buckets), NEW k
    PROVE  /\ FittedAt(now, Keys, CheckedBuckets(k))
           /\ SameWorth(now, Keys, buckets, CheckedBuckets(k))
  <1>1. CASE backend = "Postgres"
    BY <1>1 DEF CheckedBuckets, SameWorth
  <1>2. CASE backend # "Postgres"
    <2> DEFINE kept == prune(buckets)
               map2 == CheckedBuckets(k)
    <2>0. now \in Time /\ backend = "Memory"
      BY <1>2 DEF ClockTyped
    <2>1. FittedAt(now, Keys, kept) /\ SameWorth(now, Keys, buckets, kept)
      BY <2>0, PruneKeeps
    <2> HIDE DEF kept
    <2>2. map2 = [j \in Keys |-> IF j \in {k, IpOf(k)} /\ kept[j] # None
                                 THEN active_retry_after(kept[j]) ELSE kept[j]]
      BY <1>2 DEF CheckedBuckets, kept
    <2> HIDE DEF map2
    <2>3. /\ map2 = [j \in Keys |-> map2[j]]
          /\ \A j \in Keys : \/ map2[j] = kept[j]
                             \/ kept[j] # None /\ map2[j] = active_retry_after(kept[j])
      BY <2>2
    <2>4. \A j \in Keys : /\ \/ map2[j] = kept[j]
                             \/ map2[j] \in FailureState /\ FitsAt(now, map2[j])
                          /\ WorthAt(now, map2[j]) = WorthAt(now, kept[j])
      BY <2>0, <2>1, <2>3, RenewalKeeps DEF FittedAt
    <2>5. QED
      BY <2>1, <2>3, <2>4, ReplacedKeeps DEF SameWorth, map2
  <1>3. QED
    BY <1>1, <1>2

(***************************************************************************)
(* A failure recorded for a login and its address, in either store, is one *)
(* more failure of the two keys and of no other.                           *)
(***************************************************************************)
LEMMA RecordedCounts ==
    ASSUME now \in Time, NEW map, FittedAt(now, Keys, map), NEW k,
           NEW map2,
           IF backend = "Memory" THEN map2 = Recorded(map, k, record_failure_state)
                                 ELSE map2 = Recorded(map, k, upsert_failure_bucket)
    PROVE  /\ FittedAt(now, Keys, map2)
           /\ \A j \in Keys :
                 WorthAt(now, map2[j]) \in
                    IF j \in {k, IpOf(k)} THEN Limits!Counted(j, WorthAt(now, map[j]))
                                          ELSE {WorthAt(now, map[j])}
  <1>1. /\ map2 = [j \in Keys |-> map2[j]]
        /\ \A j \in Keys :
              \/ /\ j \in {k, IpOf(k)}
                 /\ \/ backend = "Memory" /\ map2[j] = record_failure_state(map[j], LimitOf(j))
                    \/ backend # "Memory" /\ map2[j] = Upserted(map[j], LimitOf(j))
              \/ j \notin {k, IpOf(k)} /\ map2[j] = map[j]
    <2>1. CASE backend = "Memory"
      BY <2>1 DEF Recorded, FittedAt
    <2>2. CASE backend # "Memory"
      BY <2>2 DEF Recorded, FittedAt, upsert_failure_bucket
    <2>3. QED
      BY <2>1, <2>2
  <1>2. ASSUME NEW j \in Keys, j \in {k, IpOf(k)}
        PROVE  /\ map2[j] \in FailureState /\ FitsAt(now, map2[j])
               /\ WorthAt(now, map2[j]) \in Limits!Counted(j, WorthAt(now, map[j]))
    <2>1. FitsAt(now, map[j])
      BY DEF FittedAt
    <2>2. CASE backend = "Memory" /\ map2[j] = record_failure_state(map[j], LimitOf(j))
      BY <2>1, <2>2, MemoryCounts
    <2>3. CASE backend # "Memory" /\ map2[j] = Upserted(map[j], LimitOf(j))
      BY <2>1, <2>3, TableCounts
    <2>4. QED
      BY <1>1, <1>2, <2>2, <2>3
  <1>3. FittedAt(now, Keys, map2)
    BY <1>1, <1>2, ReplacedKeeps
  <1>4. QED
    BY <1>1, <1>2, <1>3

-----------------------------------------------------------------------------
(* The invariant.                                                          *)

LEMMA InvariantTypes ==
    LoginInvariant => TypeOK
  BY DEF LoginInvariant, ClockTyped, BucketsFit, LoginsKnown, HistoryTyped, FittedAt, TypeOK

LEMMA BucketsFitNext ==
    ASSUME FittedAt(now', Keys, buckets'), FittedAt(now', Ips, rates')
    PROVE  BucketsFit'
  BY DEF BucketsFit, FittedAt, FitsAt

LEMMA UnusedFits ==
    ASSUME NEW t, NEW S
    PROVE  FittedAt(t, S, [x \in S |-> None])
  BY DEF FittedAt, FitsAt

LEMMA InitInvariant ==
    Init => LoginInvariant
  <1> SUFFICES ASSUME Init PROVE LoginInvariant
    OBVIOUS
  <1>1. now \in Time
    BY ProtectionConstants DEF Init, Time, ProtectionConstants
  <1>2. BucketsFit
    BY UnusedFits DEF Init, BucketsFit
  <1>3. QED
    BY <1>1, <1>2 DEF Init, LoginInvariant, ClockTyped, LoginsKnown, HistoryTyped, Never

\* A login goes on, or ends.
LEMMA LoginMoves ==
    ASSUME LoginsKnown, NEW r \in Requests,
           NEW place \in {"checked", "admitted", "wrong", "right"}, Goto(r, place),
           NEW k \in LoginKeys, target' = [target EXCEPT ![r] = k],
           NEW s \in BOOLEAN, solved' = [solved EXCEPT ![r] = s]
    PROVE  LoginsKnown'
  BY DEF LoginsKnown, Goto

LEMMA LoginEnds ==
    ASSUME LoginsKnown, NEW r \in Requests, End(r)
    PROVE  LoginsKnown'
  BY DEF LoginsKnown, End, Goto

LEMMA SameLogins ==
    ASSUME LoginsKnown, UNCHANGED logins
    PROVE  LoginsKnown'
  BY DEF LoginsKnown, logins

LEMMA SameHistory ==
    ASSUME HistoryTyped, UNCHANGED history
    PROVE  HistoryTyped'
  BY DEF HistoryTyped, history

LEMMA ToldTyped ==
    ASSUME now \in Time, NEW S, NEW h \in [S -> [Time -> Nat]], NEW keys, NEW lost
    PROVE  Told(h, keys, lost) \in [S -> [Time -> Nat]]
  <1>1. Never \in [Time -> Nat]
    BY DEF Never
  <1>2. \A f \in [Time -> Nat] : [f EXCEPT ![now] = @ + 1] \in [Time -> Nat]
    OBVIOUS
  <1>3. QED
    BY <1>1, <1>2 DEF Told

LEMMA AnsweredTyped ==
    ASSUME now \in Time, HistoryTyped, NEW r, NEW lost, Answered(r, lost), served' = served
    PROVE  HistoryTyped'
  BY ToldTyped DEF HistoryTyped, Answered

LEMMA RecentTyped ==
    ASSUME NEW S, NEW h \in [S -> [Time -> Nat]]
    PROVE  Recent(h) \in [S -> [Time -> Nat]]
  BY DEF Recent

LEMMA SameBuckets ==
    ASSUME BucketsFit, UNCHANGED <<now, protection>>
    PROVE  BucketsFit'
  BY BucketsFitNext DEF BucketsFit, protection

LEMMA CheckInvariant ==
    ASSUME LoginInvariant, NEW r \in Requests, NEW k \in LoginKeys, Check(r, k)
    PROVE  LoginInvariant'
  <1>1. BucketsFit'
    <2>1. FittedAt(now, Keys, buckets') /\ FittedAt(now, Ips, rates)
      BY CheckKeeps DEF LoginInvariant, ClockTyped, BucketsFit, Check
    <2>2. QED
      BY <2>1, BucketsFitNext DEF Check
  <1>2. LoginsKnown'
    <2>1. CASE Refused(k)
      BY <2>1, SameLogins DEF Check, LoginInvariant
    <2>2. CASE ~Refused(k)
      <3>1. solved[r] \in BOOLEAN /\ solved' = [solved EXCEPT ![r] = solved[r]]
        BY <2>2 DEF Check, LoginInvariant, LoginsKnown
      <3>2. Goto(r, "checked") /\ target' = [target EXCEPT ![r] = k]
        BY <2>2 DEF Check
      <3>3. QED
        BY <3>1, <3>2, LoginMoves DEF LoginInvariant
    <2>3. QED
      BY <2>1, <2>2
  <1>3. QED
    BY <1>1, <1>2, SameHistory DEF Check, LoginInvariant, ClockTyped

\* A login that is under way is for a login key.
LEMMA TargetKnown ==
    ASSUME LoginInvariant, NEW r \in Requests, pc[r] # "idle"
    PROVE  /\ target[r] \in LoginKeys /\ target[r] \in Keys /\ IpOf(target[r]) \in Keys
           /\ target = [target EXCEPT ![r] = target[r]]
           /\ solved = [solved EXCEPT ![r] = solved[r]] /\ solved[r] \in BOOLEAN
  BY DEF LoginInvariant, LoginsKnown, Keys, LoginKeys, IpKeys, IpOf

LEMMA ChallengeInvariant ==
    ASSUME LoginInvariant, NEW r \in Requests, Challenge(r)
    PROVE  LoginInvariant'
  <1>1. BucketsFit'
    <2>1. FittedAt(now, Keys, buckets') /\ FittedAt(now, Ips, rates)
      BY PruneKeeps DEF LoginInvariant, ClockTyped, BucketsFit, Challenge, Kept
    <2>2. QED
      BY <2>1, BucketsFitNext DEF Challenge
  <1>2. LoginsKnown'
    <2>1. MustSolve(r) \in BOOLEAN
      BY DEF MustSolve
    <2>2. /\ target[r] \in LoginKeys /\ target' = [target EXCEPT ![r] = target[r]]
      BY TargetKnown DEF Challenge
    <2>3. QED
      BY <2>1, <2>2, LoginMoves DEF Challenge, LoginInvariant
  <1>3. QED
    BY <1>1, <1>2, SameHistory DEF Challenge, LoginInvariant, ClockTyped

LEMMA VerifyInvariant ==
    ASSUME LoginInvariant, NEW r \in Requests, Verify(r)
    PROVE  LoginInvariant'
  <1>1. LoginsKnown'
    <2>1. /\ target[r] \in LoginKeys /\ target' = [target EXCEPT ![r] = target[r]]
          /\ solved[r] \in BOOLEAN /\ solved' = [solved EXCEPT ![r] = solved[r]]
      BY TargetKnown DEF Verify
    <2>2. Goto(r, "wrong") \/ Goto(r, "right")
      BY DEF Verify
    <2>3. QED
      BY <2>1, <2>2, LoginMoves DEF LoginInvariant
  <1>2. QED
    BY <1>1, SameBuckets, SameHistory DEF Verify, LoginInvariant, ClockTyped

LEMMA DropInvariant ==
    ASSUME LoginInvariant, NEW r \in Requests, Drop(r)
    PROVE  LoginInvariant'
  BY LoginEnds, SameBuckets, SameHistory DEF Drop, LoginInvariant, ClockTyped

LEMMA FailureInvariant ==
    ASSUME LoginInvariant, NEW r \in Requests, RecordFailure(r)
    PROVE  LoginInvariant'
  <1>0. now \in Time /\ FittedAt(now, Keys, buckets) /\ FittedAt(now, Ips, rates)
    BY DEF LoginInvariant, ClockTyped, BucketsFit
  <1>1. FittedAt(now, Keys, buckets') /\ HistoryTyped'
    <2>1. CASE backend = "Memory"
      <3>1. PICK login \in make_room(prune(buckets), LoginKeys),
                 ip \in make_room(prune(buckets), IpKeys) :
               /\ buckets' = Recorded(Without(prune(buckets), login \cup ip), target[r],
                                      record_failure_state)
               /\ Answered(r, login \cup ip)
        BY <2>1 DEF RecordFailure, RecordFailureInMemory
      <3>2. FittedAt(now, Keys, Without(prune(buckets), login \cup ip))
        BY <1>0, PruneKeeps, WithoutKeeps
      <3>3. FittedAt(now, Keys, buckets')
        BY <1>0, <2>1, <3>1, <3>2, RecordedCounts
      <3>4. HistoryTyped'
        BY <1>0, <3>1, AnsweredTyped DEF RecordFailure, LoginInvariant
      <3>5. QED
        BY <3>3, <3>4
    <2>2. CASE backend # "Memory"
      <3> DEFINE recorded == Recorded(buckets, target[r], upsert_failure_bucket)
      <3>1. buckets' = cleanup_expired(recorded)
        BY <2>2 DEF RecordFailure, RecordFailureInPostgres
      <3>2. FittedAt(now, Keys, recorded)
        BY <1>0, <2>2, RecordedCounts
      <3> HIDE DEF recorded
      <3>3. FittedAt(now, Keys, buckets')
        BY <1>0, <3>1, <3>2, CleanupKeeps
      <3>4. Answered(r, {}) \/ UNCHANGED history
        BY <2>2 DEF RecordFailure, RecordFailureInPostgres, history
      <3>5. HistoryTyped'
        BY <1>0, <3>4, AnsweredTyped, SameHistory DEF RecordFailure, LoginInvariant
      <3>6. QED
        BY <3>3, <3>5
    <2>3. QED
      BY <2>1, <2>2
  <1>2. BucketsFit'
    BY <1>0, <1>1, BucketsFitNext DEF RecordFailure
  <1>3. QED
    BY <1>1, <1>2, LoginEnds DEF RecordFailure, LoginInvariant, ClockTyped

LEMMA SuccessInvariant ==
    ASSUME LoginInvariant, NEW r \in Requests, RecordSuccess(r)
    PROVE  LoginInvariant'
  <1>1. FittedAt(now, Keys, buckets') /\ FittedAt(now, Ips, rates)
    BY NoneFits DEF LoginInvariant, BucketsFit, FittedAt, RecordSuccess
  <1>2. BucketsFit'
    BY <1>1, BucketsFitNext DEF RecordSuccess
  <1>3. Never \in [Time -> Nat]
    BY DEF Never
  <1>4. HistoryTyped'
    BY <1>3 DEF LoginInvariant, HistoryTyped, RecordSuccess
  <1>5. QED
    BY <1>2, <1>4, LoginEnds DEF RecordSuccess, LoginInvariant, ClockTyped

LEMMA RequestInvariant ==
    ASSUME LoginInvariant, NEW i \in Ips, check_security_request(i)
    PROVE  LoginInvariant'
  <1>0. now \in Time /\ FittedAt(now, Keys, buckets) /\ FittedAt(now, Ips, rates)
    BY DEF LoginInvariant, ClockTyped, BucketsFit
  <1>1. PICK lost :
           LET b == RateRecorded(Without(rates, lost)[i])
               recorded == [Without(rates, lost) EXCEPT ![i] = b]
           IN  /\ rates' = IF backend = "Memory" THEN recorded ELSE cleanup_expired(recorded)
               /\ served' = Told(served, IF Blocks(b) THEN {} ELSE {i}, lost)
    BY DEF check_security_request
  <1> DEFINE left == Without(rates, lost)
             b == RateRecorded(left[i])
             recorded == [left EXCEPT ![i] = b]
  <1>2. FittedAt(now, Ips, left)
    BY <1>0, WithoutKeeps
  <1>3. b \in FailureState /\ FitsAt(now, b)
    <2>1. FitsAt(now, left[i])
      BY <1>2 DEF FittedAt
    <2> HIDE DEF left
    <2>2. QED
      BY <1>0, <2>1, MemoryCounts, TableCounts DEF RateRecorded
  <1>4. /\ rates' = IF backend = "Memory" THEN recorded ELSE cleanup_expired(recorded)
        /\ served' = Told(served, IF Blocks(b) THEN {} ELSE {i}, lost)
    BY <1>1
  <1> HIDE DEF left, b
  <1>5. FittedAt(now, Ips, recorded)
    BY <1>2, <1>3 DEF FittedAt
  <1> HIDE DEF recorded
  <1>6. FittedAt(now, Ips, rates')
    BY <1>0, <1>4, <1>5, CleanupKeeps
  <1>7. BucketsFit'
    BY <1>0, <1>6, BucketsFitNext DEF check_security_request
  <1>8. HistoryTyped'
    <2>1. served' \in [Ips -> [Time -> Nat]]
      BY <1>0, <1>4, ToldTyped DEF LoginInvariant, HistoryTyped
    <2>2. QED
      BY <2>1 DEF check_security_request, LoginInvariant, HistoryTyped
  <1>9. QED
    BY <1>7, <1>8, SameLogins DEF check_security_request, LoginInvariant, ClockTyped

LEMMA TickInvariant ==
    ASSUME LoginInvariant, Tick
    PROVE  LoginInvariant'
  <1>1. now \in Nat /\ now' = now + 1 /\ now' \in Time
    BY ProtectionConstants DEF LoginInvariant, ClockTyped, Tick, Time, ProtectionConstants
  <1>2. FittedAt(now + 1, Keys, buckets) /\ FittedAt(now + 1, Ips, rates)
    BY <1>1, TimePasses DEF LoginInvariant, BucketsFit, FittedAt
  <1>3. BucketsFit'
    BY <1>1, <1>2, BucketsFitNext DEF Tick, protection
  <1>4. HistoryTyped'
    BY RecentTyped DEF Tick, LoginInvariant, HistoryTyped
  <1>5. QED
    BY <1>1, <1>3, <1>4, SameLogins DEF Tick, LoginInvariant, ClockTyped

LEMMA RestartInvariant ==
    ASSUME LoginInvariant, Restart
    PROVE  LoginInvariant'
  <1>1. LoginsKnown'
    BY DEF Restart, LoginsKnown
  <1>2. CASE backend = "Memory"
    <2>1. BucketsFit'
      BY <1>2, UnusedFits, BucketsFitNext DEF Restart
    <2>2. HistoryTyped'
      BY <1>2 DEF Restart, HistoryTyped, Never
    <2>3. QED
      BY <1>1, <2>1, <2>2 DEF Restart, LoginInvariant, ClockTyped
  <1>3. CASE backend # "Memory"
    BY <1>1, <1>3, SameBuckets, SameHistory DEF Restart, LoginInvariant, ClockTyped
  <1>4. QED
    BY <1>2, <1>3

(***************************************************************************)
(* What the refinement rests on holds in every state, and with it the      *)
(* types.                                                                  *)
(***************************************************************************)
LEMMA InvariantHolds == Spec => []LoginInvariant
  <1>1. LoginInvariant /\ [Next]_vars => LoginInvariant'
    <2> SUFFICES ASSUME LoginInvariant, [Next]_vars
                 PROVE  LoginInvariant'
      OBVIOUS
    <2>1. CASE UNCHANGED vars
      <3>1. UNCHANGED <<backend, now, protection, logins, history>>
        BY <2>1 DEF vars, protection, logins, history
      <3>2. QED
        BY <3>1, SameBuckets, SameLogins, SameHistory DEF LoginInvariant, ClockTyped
    <2>2. CASE Next
      BY <2>2, CheckInvariant, ChallengeInvariant, VerifyInvariant, DropInvariant,
         FailureInvariant, SuccessInvariant, RequestInvariant, TickInvariant, RestartInvariant
         DEF Next
    <2>3. QED
      BY <2>1, <2>2
  <1>2. QED
    BY <1>1, InitInvariant, PTL DEF Spec

\* The buckets, the logins and the history keep their types.
THEOREM ProtectionTypesCorrect == Spec => []TypeOK
  <1>1. QED
    BY InvariantHolds, InvariantTypes, PTL

-----------------------------------------------------------------------------
(* The refinement.                                                         *)

LEMMA WorthIs ==
    ASSUME NEW b
    PROVE  (IF b = None THEN NoFailures ELSE Worth(b)) = WorthAt(now, b)
  BY DEF Worth, WorthAt

\* The tallies of LoginLimits, and what becomes of them.
Tallies == [k \in Keys |-> WorthAt(now, buckets[k])]

LEMMA TalliesMap ==
    [k \in Keys |-> IF buckets[k] = None THEN NoFailures ELSE Worth(buckets[k])] = Tallies
  BY WorthIs DEF Tallies

LEMMA TalliesMapNext ==
    ASSUME backend' = backend
    PROVE  [k \in Keys |-> IF buckets[k] = None THEN NoFailures ELSE Worth(buckets[k])]' =
              [k \in Keys |-> WorthAt(now', buckets'[k])]
  BY DEF Worth, WorthAt, NoFailures

LEMMA StutterMaps ==
    ASSUME UNCHANGED <<backend, now>>, SameWorth(now, Keys, buckets, buckets')
    PROVE  UNCHANGED Limits!limits_vars
  BY TalliesMap, TalliesMapNext DEF SameWorth, Tallies, Limits!limits_vars

LEMMA FailMaps ==
    ASSUME NEW failed \in SUBSET Keys, NEW lost \in SUBSET Keys,
           lost # {} => backend = "Memory", UNCHANGED <<backend, now>>,
           \A k \in Keys :
              WorthAt(now, buckets'[k]) \in
                 IF k \in failed
                 THEN Limits!Counted(k, IF k \in lost THEN NoFailures ELSE WorthAt(now, buckets[k]))
                 ELSE {IF k \in lost THEN NoFailures ELSE WorthAt(now, buckets[k])}
    PROVE  Limits!LimitsNext
  <1>1. \A k \in Keys : Limits!Kept(k, lost) =
                           IF k \in lost THEN NoFailures ELSE WorthAt(now, buckets[k])
    BY TalliesMap, NothingWorth DEF Limits!Kept, Tallies
  <1>2. Limits!Fail(failed, lost)
    BY <1>1, TalliesMapNext DEF Limits!Fail
  <1>3. QED
    BY <1>2 DEF Limits!LimitsNext

\* A check or a challenge changes nothing that a bucket is worth.
LEMMA QuietStep ==
    ASSUME LoginInvariant, NEW r \in Requests,
           \/ \E k \in LoginKeys : Check(r, k)
           \/ Challenge(r)
           \/ Verify(r)
           \/ Drop(r)
    PROVE  UNCHANGED Limits!limits_vars
  <1>1. ClockTyped /\ now \in Time /\ FittedAt(now, Keys, buckets)
    BY DEF LoginInvariant, ClockTyped, BucketsFit
  <1>2. UNCHANGED <<backend, now>>
    BY DEF Check, Challenge, Verify, Drop
  <1>3. SameWorth(now, Keys, buckets, buckets')
    <2>1. ASSUME NEW k \in LoginKeys, Check(r, k) PROVE SameWorth(now, Keys, buckets, buckets')
      BY <1>1, <2>1, CheckKeeps DEF Check
    <2>2. CASE Challenge(r)
      BY <1>1, <2>2, PruneKeeps DEF Challenge, Kept, SameWorth
    <2>3. CASE Verify(r) \/ Drop(r)
      BY <2>3 DEF Verify, Drop, protection, SameWorth
    <2>4. QED
      BY <2>1, <2>2, <2>3
  <1>4. QED
    BY <1>2, <1>3, StutterMaps

(***************************************************************************)
(* A recorded failure counts for its login and its address; in memory it   *)
(* may cost other keys what was known of them.                             *)
(***************************************************************************)
LEMMA FailureStep ==
    ASSUME LoginInvariant, NEW r \in Requests, RecordFailure(r)
    PROVE  Limits!LimitsNext
  <1>1. now \in Time /\ FittedAt(now, Keys, buckets)
    BY DEF LoginInvariant, ClockTyped, BucketsFit
  <1>2. UNCHANGED <<backend, now>> /\ pc[r] # "idle"
    BY DEF RecordFailure
  <1> DEFINE failed == {target[r], IpOf(target[r])}
  <1>3. failed \in SUBSET Keys
    BY <1>2, TargetKnown
  <1>4. CASE backend = "Memory"
    <2>1. PICK login \in make_room(prune(buckets), LoginKeys),
               ip \in make_room(prune(buckets), IpKeys) :
             buckets' = Recorded(Without(prune(buckets), login \cup ip), target[r],
                                 record_failure_state)
      BY <1>4 DEF RecordFailure, RecordFailureInMemory
    <2> DEFINE kept == prune(buckets)
               lost == login \cup ip
               left == Without(kept, lost)
    <2>2. lost \in SUBSET Keys
      BY <2>1, RoomIsTracked DEF Keys
    <2>3. FittedAt(now, Keys, kept) /\ SameWorth(now, Keys, buckets, kept)
      BY <1>1, PruneKeeps
    <2> HIDE DEF kept, lost
    <2>4. /\ FittedAt(now, Keys, left)
          /\ \A k \in Keys : WorthAt(now, left[k]) =
                                IF k \in lost THEN NoFailures ELSE WorthAt(now, kept[k])
      BY <2>3, WithoutKeeps
    <2> DEFINE recorded == Recorded(left, target[r], record_failure_state)
    <2>5. buckets' = recorded
      BY <2>1 DEF kept, lost
    <2> HIDE DEF left
    <2>6. \A k \in Keys : WorthAt(now, recorded[k]) \in
             IF k \in failed THEN Limits!Counted(k, WorthAt(now, left[k]))
                             ELSE {WorthAt(now, left[k])}
      <3>1. IF backend = "Memory" THEN recorded = Recorded(left, target[r], record_failure_state)
                                  ELSE recorded = Recorded(left, target[r], upsert_failure_bucket)
        BY <1>4
      <3> HIDE DEF recorded
      <3>2. QED
        BY <1>1, <2>4, <3>1, RecordedCounts
    <2>7. \A k \in Keys : WorthAt(now, left[k]) =
             IF k \in lost THEN NoFailures ELSE WorthAt(now, buckets[k])
      BY <2>3, <2>4 DEF SameWorth
    <2> HIDE DEF failed, recorded
    <2>8. \A k \in Keys :
             WorthAt(now, buckets'[k]) \in
                IF k \in failed
                THEN Limits!Counted(k, IF k \in lost THEN NoFailures ELSE WorthAt(now, buckets[k]))
                ELSE {IF k \in lost THEN NoFailures ELSE WorthAt(now, buckets[k])}
      BY <2>5, <2>6, <2>7
    <2>9. QED
      BY <1>2, <1>3, <1>4, <2>2, <2>8, FailMaps
  <1>5. CASE backend # "Memory"
    <2> DEFINE recorded == Recorded(buckets, target[r], upsert_failure_bucket)
               none == {}
    <2>1. buckets' = cleanup_expired(recorded)
      BY <1>5 DEF RecordFailure, RecordFailureInPostgres
    <2>2. /\ FittedAt(now, Keys, recorded)
          /\ \A k \in Keys : WorthAt(now, recorded[k]) \in
                IF k \in failed THEN Limits!Counted(k, WorthAt(now, buckets[k]))
                                ELSE {WorthAt(now, buckets[k])}
      <3>1. IF backend = "Memory" THEN recorded = Recorded(buckets, target[r], record_failure_state)
                                  ELSE recorded = Recorded(buckets, target[r], upsert_failure_bucket)
        BY <1>5
      <3> HIDE DEF recorded
      <3>2. QED
        BY <1>1, <3>1, RecordedCounts
    <2> HIDE DEF recorded, failed
    <2>3. \A k \in Keys : WorthAt(now, buckets'[k]) = WorthAt(now, recorded[k])
      BY <1>1, <2>1, <2>2, CleanupKeeps DEF SameWorth
    <2>4. none \in SUBSET Keys /\ (none # {} => backend = "Memory") /\ \A k \in Keys : k \notin none
      OBVIOUS
    <2> HIDE DEF none
    <2>5. \A k \in Keys :
             WorthAt(now, buckets'[k]) \in
                IF k \in failed
                THEN Limits!Counted(k, IF k \in none THEN NoFailures ELSE WorthAt(now, buckets[k]))
                ELSE {IF k \in none THEN NoFailures ELSE WorthAt(now, buckets[k])}
      BY <2>2, <2>3, <2>4
    <2>6. QED
      BY <1>2, <1>3, <2>4, <2>5, FailMaps
  <1>6. QED
    BY <1>4, <1>5

LEMMA SuccessStep ==
    ASSUME LoginInvariant, NEW r \in Requests, RecordSuccess(r)
    PROVE  Limits!LimitsNext
  <1>1. PICK own \in Keys : own = target[r]
    BY TargetKnown DEF RecordSuccess
  <1>2. \A k \in Keys : buckets'[k] = IF k = own THEN None ELSE buckets[k]
    BY <1>1 DEF RecordSuccess, LoginInvariant, BucketsFit, FittedAt
  <1>3. [k \in Keys |-> WorthAt(now', buckets'[k])] = [Tallies EXCEPT ![own] = NoFailures]
    <2>1. now' = now
      BY DEF RecordSuccess
    <2>2. \A k \in Keys : WorthAt(now', buckets'[k]) = IF k = own THEN NoFailures ELSE Tallies[k]
      BY <1>2, <2>1, NoneFits DEF Tallies
    <2>3. QED
      BY <2>2 DEF Tallies
  <1>4. Limits!Clear(own)
    BY <1>3, TalliesMap, TalliesMapNext, NothingWorth DEF Limits!Clear, RecordSuccess
  <1>5. QED
    BY <1>1, <1>4 DEF Limits!LimitsNext

LEMMA TickStep ==
    ASSUME LoginInvariant, Tick
    PROVE  Limits!LimitsNext
  <1>1. now \in Nat /\ now' = now + 1 /\ backend' = backend /\ buckets' = buckets
    BY ProtectionConstants
       DEF LoginInvariant, ClockTyped, Tick, Time, ProtectionConstants, protection
  <1>2. \A k \in Keys : WorthAt(now + 1, buckets[k]) = Limits!At(now + 1, WorthAt(now, buckets[k]))
    BY <1>1, TimePasses DEF LoginInvariant, BucketsFit, FittedAt
  <1>3. [k \in Keys |-> WorthAt(now', buckets'[k])] =
           [k \in Keys |-> Limits!At(now + 1, Tallies[k])]
    BY <1>1, <1>2 DEF Tallies
  <1>4. Limits!Elapse
    BY <1>1, <1>3, TalliesMap, TalliesMapNext DEF Limits!Elapse
  <1>5. QED
    BY <1>4 DEF Limits!LimitsNext

LEMMA RestartStep ==
    ASSUME LoginInvariant, Restart
    PROVE  Limits!LimitsNext \/ UNCHANGED Limits!limits_vars
  <1>1. CASE backend = "Memory"
    <2>1. [k \in Keys |-> WorthAt(now', buckets'[k])] = [k \in Keys |-> NoFailures]
      BY <1>1, NoneFits DEF Restart
    <2>2. Limits!Forget
      BY <1>1, <2>1, TalliesMapNext, NothingWorth DEF Limits!Forget, Restart
    <2>3. QED
      BY <2>2 DEF Limits!LimitsNext
  <1>2. CASE backend # "Memory"
    <2>1. UNCHANGED <<backend, now>> /\ SameWorth(now, Keys, buckets, buckets')
      BY <1>2 DEF Restart, protection, SameWorth
    <2>2. QED
      BY <2>1, StutterMaps
  <1>3. QED
    BY <1>1, <1>2

(***************************************************************************)
(* Both stores implement the one promise: whatever is renewed, pruned,     *)
(* evicted or cleaned up, and whenever, the failures of a window, the lock *)
(* at the limit and its end are those of LoginLimits, and only the memory  *)
(* store may forget.                                                       *)
(***************************************************************************)
THEOREM StoresImplementLimits == Spec => ImplementsLimits
  <1>1. Init => Limits!LimitsInit
    <2> SUFFICES ASSUME Init PROVE Limits!LimitsInit
      OBVIOUS
    <2>1. Tallies = [k \in Keys |-> Limits!Zero]
      BY NoneFits, NothingWorth DEF Init, Tallies
    <2>2. QED
      BY <2>1, TalliesMap DEF Init, Limits!LimitsInit
  <1>2. LoginInvariant /\ [Next]_vars => [Limits!LimitsNext]_(Limits!limits_vars)
    <2> SUFFICES ASSUME LoginInvariant, [Next]_vars
                 PROVE  Limits!LimitsNext \/ UNCHANGED Limits!limits_vars
      OBVIOUS
    <2>1. CASE UNCHANGED vars
      BY <2>1, StutterMaps DEF vars, SameWorth
    <2>2. ASSUME NEW i \in Ips, check_security_request(i)
          PROVE  UNCHANGED Limits!limits_vars
      BY <2>2, StutterMaps DEF check_security_request, SameWorth
    <2>3. CASE Next
      BY <2>2, <2>3, QuietStep, FailureStep, SuccessStep, TickStep, RestartStep DEF Next
    <2>4. QED
      BY <2>1, <2>3
  <1>3. QED
    BY <1>1, <1>2, InvariantHolds, PTL DEF Spec, ImplementsLimits, Limits!LimitsSpec

-----------------------------------------------------------------------------
(* How many are answered.                                                  *)
(*                                                                         *)
(* What the history of a key holds is cut at two moments its bucket knows: *)
(* where its window began, and where its last lock began.  The history of  *)
(* the window is counted in the bucket, up to the failures from which it   *)
(* is the number of logins under way that bounds it; during a lock only    *)
(* those are answered that were under way when it began; and between two   *)
(* locks there is a lockout time, so that only so many of them, and of     *)
(* what led to them, are younger than a window.                            *)

\* Caps on what is answered:
\*   start  the failures from which those under way are bounded,
\*   limit  the failures that lock,
\*   most   what is left of earlier windows,
\*   full   what one window, or one lock more in it, gives,
\*   rest   what is answered during a lock.
Caps == [start : Nat, limit : Nat, most : Int, full : Int, rest : Int]

\* For wrong passwords: all of them, up to the limit that locks.
GuessCaps(k) ==
    [start |-> LimitOf(k), limit |-> LimitOf(k),
     most |-> Max({LimitOf(k), Cardinality(Requests)}) - 1,
     full |-> LimitOf(k) + Cardinality(Requests) - 1,
     rest |-> Cardinality(Requests) - 1]

\* For those without a challenge: up to the failures that ask for one.
UnsolvedCaps ==
    [start |-> TurnstileAfter, limit |-> LoginLimit,
     most |-> TurnstileAfter + Cardinality(Requests) - 1,
     full |-> TurnstileAfter + Cardinality(Requests) - 1,
     rest |-> Cardinality(Requests) - 1]

\* For other requests: an answer is counted with the request itself.
RateCap == IF backend = "Memory" THEN RateLimit ELSE RateLimit + 1

ServedCaps == [start |-> RateCap, limit |-> RateCap, most |-> RateCap - 1,
               full |-> RateCap - 1, rest |-> 0]

\* What d ticks before a window, or before a lock, may hold.
Refilled(p, d) == p.most + (d \div Lockout) * p.full

\* How often something was answered, by time; how often in a set of times.
Histories == [Time -> Nat]
Spent(h, S) == SumFunctionOnSet(h, S)
Before(x, w) == {s \in Time : x <= s /\ s < w}
Since(w) == {s \in Time : s >= w}
LaterThan(u) == {s \in Time : s > u}
Between(w, u) == {s \in Time : w <= s /\ s <= u}

\* When the lock of a bucket began; whether it, or the window, is over; who
\* may still be answered in spite of it.
LockedAt(b) == b.blocked_until - Lockout
OverAt(t, b) == b.blocked_until <= t /\ (b.window_started + Window <= t \/ b.blocked_until # 0)
Open(t, b, n) == IF b.blocked_until > t THEN n ELSE 0

\* Only the last window is remembered, and nothing later than the bucket.
Remembered(t, h, b) ==
    /\ h \in Histories
    /\ \A s \in Time : h[s] # 0 => /\ s <= t /\ t < s + Window
                                   /\ b # None /\ s <= b.last_seen

\* The window, when m more of those under way may be answered in it.
WindowFits(t, h, b, m, p) ==
    /\ \A x \in Int : x <= b.window_started =>
          Spent(h, Before(x, b.window_started)) <= Refilled(p, b.window_started - x)
    /\ b.failures < p.start => Spent(h, Since(b.window_started)) <= b.failures
    /\ p.start < p.limit /\ b.failures >= p.start /\ b.window_started + Window > t =>
          Spent(h, Since(b.window_started)) + m <= p.full
    /\ b.failures >= p.start /\ b.blocked_until = 0 =>
          Spent(h, Since(b.window_started)) <= p.most
    /\ OverAt(t, b) => h[t] = 0

\* What was answered up to the lock and since.
LockedFits(h, b, open, p) ==
    /\ Spent(h, LaterThan(LockedAt(b))) + open <= p.rest
    /\ p.start < p.limit => Spent(h, Between(b.window_started, LockedAt(b))) <= p.full
    /\ p.start = p.limit =>
          \A x \in Int : x <= LockedAt(b) =>
             Spent(h, Since(x)) + open <= Refilled(p, LockedAt(b) - x) + p.full

\* The lock, when n more may be answered in it.
LockFits(t, h, b, n, p) ==
    /\ b.blocked_until = 0 => b.failures < p.limit
    /\ b.blocked_until # 0 =>
          /\ b.failures >= p.limit
          /\ b.window_started <= LockedAt(b) /\ LockedAt(b) < b.window_started + Window
          /\ LockedAt(b) <= t
          /\ LockedFits(h, b, Open(t, b, n), p)

\* What a history and a bucket have to do with each other.
Answers(t, h, b, n, m, p) ==
    /\ Remembered(t, h, b)
    /\ b # None => WindowFits(t, h, b, m, p) /\ LockFits(t, h, b, n, p)

\* The logins between their check and their record that count for k; those
\* of them that were let past the challenge without one.
InFlight(k) == {r \in Requests : pc[r] # "idle" /\ (target[r] = k \/ IpOf(target[r]) = k)}
Unasked(k) == {r \in InFlight(k) : pc[r] # "checked" /\ ~solved[r]}

\* All keys and all addresses.
GuessesFit ==
    \A k \in Keys : Answers(now, guesses[k], buckets[k], Cardinality(InFlight(k)),
                            Cardinality(InFlight(k)), GuessCaps(k))
UnsolvedFits ==
    \A k \in LoginKeys : Surface[k[2]] = "Business" =>
        Answers(now, unsolved[k], buckets[k], Cardinality(InFlight(k)),
                Cardinality(Unasked(k)), UnsolvedCaps)
ServedFits == \A i \in Ips : Answers(now, served[i], rates[i], 0, 0, ServedCaps)

-----------------------------------------------------------------------------
(* Sums over times.                                                        *)

LEMMA TimeIsFinite == IsFiniteSet(Time)
  <1>1. 1 \in Int /\ MaxTime \in Int
    BY ProtectionConstants DEF ProtectionConstants
  <1>2. QED
    BY <1>1, FS_Interval DEF Time

LEMMA SpentNat ==
    ASSUME NEW h \in Histories, NEW S \in SUBSET Time
    PROVE  Spent(h, S) \in Nat /\ IsFiniteSet(S)
  <1>1. IsFiniteSet(S)
    BY TimeIsFinite, FS_Subset
  <1>2. \A s \in S : h[s] \in Nat
    BY DEF Histories
  <1>3. QED
    BY <1>1, <1>2, SumNat DEF Spent

LEMMA SpentUnion ==
    ASSUME NEW h \in Histories, NEW A \in SUBSET Time, NEW B \in SUBSET Time, A \cap B = {}
    PROVE  Spent(h, A \cup B) = Spent(h, A) + Spent(h, B)
  <1>1. IsFiniteSet(A) /\ IsFiniteSet(B)
    BY SpentNat
  <1>2. \A s \in A \cup B : h[s] \in Int
    BY DEF Histories
  <1>3. QED
    BY <1>1, <1>2, SumUnion DEF Spent

LEMMA SpentNothing ==
    ASSUME NEW h \in Histories, NEW S \in SUBSET Time, \A s \in S : h[s] = 0
    PROVE  Spent(h, S) = 0
  BY SpentNat, SumZero DEF Spent

LEMMA SpentWithin ==
    ASSUME NEW h \in Histories, NEW g \in Histories, NEW A \in SUBSET Time, NEW B \in SUBSET Time,
           \A s \in A : h[s] <= g[s] /\ (h[s] # 0 => s \in B)
    PROVE  Spent(h, A) <= Spent(g, B)
  <1> DEFINE C == A \cap B
             D == A \ B
             E == B \ A
  <1>1. /\ C \in SUBSET Time /\ D \in SUBSET Time /\ E \in SUBSET Time
        /\ A = C \cup D /\ C \cap D = {} /\ B = C \cup E /\ C \cap E = {}
        /\ \A s \in D : h[s] = 0
        /\ \A s \in C : h[s] <= g[s]
    OBVIOUS
  <1> HIDE DEF C, D, E
  <1>2. Spent(h, A) = Spent(h, C) + Spent(h, D) /\ Spent(h, D) = 0
    BY <1>1, SpentUnion, SpentNothing
  <1>3. Spent(g, B) = Spent(g, C) + Spent(g, E)
    BY <1>1, SpentUnion
  <1>4. Spent(h, C) <= Spent(g, C)
    <2>1. \A s \in C : h[s] \in Int /\ g[s] \in Int /\ h[s] <= g[s]
      BY <1>1 DEF Histories
    <2>2. IsFiniteSet(C)
      BY <1>1, SpentNat
    <2>3. QED
      BY <2>1, <2>2, SumAtMost DEF Spent
  <1>5. /\ Spent(h, C) \in Nat /\ Spent(g, C) \in Nat /\ Spent(g, E) \in Nat
    BY <1>1, SpentNat
  <1>6. QED
    BY <1>2, <1>3, <1>4, <1>5

LEMMA SpentLess ==
    ASSUME NEW h \in Histories, NEW A \in SUBSET Time, NEW B \in SUBSET Time,
           \A s \in A : h[s] # 0 => s \in B
    PROVE  Spent(h, A) <= Spent(h, B)
  <1>1. \A s \in A : h[s] <= h[s]
    BY DEF Histories
  <1>2. QED
    BY <1>1, SpentWithin

LEMMA SpentCovered ==
    ASSUME NEW h \in Histories, NEW A \in SUBSET Time, NEW B \in SUBSET Time, NEW C \in SUBSET Time,
           \A s \in C : h[s] # 0 => s \in A \/ s \in B
    PROVE  Spent(h, C) <= Spent(h, A) + Spent(h, B)
  <1> DEFINE D == B \ A
             U == A \cup D
  <1>1. D \in SUBSET Time /\ U \in SUBSET Time /\ A \cap D = {}
    OBVIOUS
  <1>2. Spent(h, U) = Spent(h, A) + Spent(h, D)
    BY <1>1, SpentUnion
  <1>3. (\A s \in C : h[s] # 0 => s \in U) /\ (\A s \in D : h[s] # 0 => s \in B)
    OBVIOUS
  <1> HIDE DEF D, U
  <1>4. Spent(h, C) <= Spent(h, U) /\ Spent(h, D) <= Spent(h, B)
    BY <1>1, <1>3, SpentLess
  <1>5. /\ Spent(h, C) \in Nat /\ Spent(h, U) \in Nat /\ Spent(h, D) \in Nat
        /\ Spent(h, A) \in Nat /\ Spent(h, B) \in Nat
    BY <1>1, SpentNat
  <1>6. QED
    BY <1>2, <1>4, <1>5

LEMMA SpentMore ==
    ASSUME NEW h \in Histories, NEW t \in Time, NEW g \in Histories, g[t] = h[t] + 1,
           \A s \in Time : s # t => g[s] = h[s], NEW S \in SUBSET Time
    PROVE  Spent(g, S) = IF t \in S THEN Spent(h, S) + 1 ELSE Spent(h, S)
  <1>1. /\ g \in Histories /\ g[t] = h[t] + 1 /\ h[t] \in Nat
        /\ \A s \in Time : s # t => g[s] = h[s]
    BY DEF Histories
  <1>2. ASSUME NEW A \in SUBSET Time, t \notin A PROVE Spent(g, A) = Spent(h, A)
    <2>1. \A s \in A : g[s] = h[s]
      BY <1>1, <1>2
    <2>2. IsFiniteSet(A)
      BY SpentNat
    <2>3. SumFunctionOnSet(g, A) = SumFunctionOnSet(h, A)
      BY <2>1, <2>2, SumSame
    <2>4. QED
      BY <2>3 DEF Spent
  <1>3. CASE t \in S
    <2> DEFINE A == S \ {t}
               P == {t}
    <2>1. /\ A \in SUBSET Time /\ t \notin A /\ P \in SUBSET Time /\ S = A \cup P
          /\ A \cap P = {} /\ t \in P /\ \A x \in P : x = t
      BY <1>3
    <2> HIDE DEF A, P
    <2>2. /\ Spent(g, S) = Spent(g, A) + Spent(g, P)
          /\ Spent(h, S) = Spent(h, A) + Spent(h, P)
      BY <1>1, <2>1, SpentUnion
    <2>3. IsFiniteSet(P)
      BY <2>1, SpentNat
    <2>4. g[t] \in Int /\ h[t] \in Int
      BY <1>1
    <2>5. SumFunctionOnSet(g, P) = g[t]
      BY <2>1, <2>3, <2>4, SumAtPoint
    <2>6. SumFunctionOnSet(h, P) = h[t]
      BY <2>1, <2>3, <2>4, SumAtPoint
    <2>7. Spent(g, A) = Spent(h, A) /\ Spent(h, A) \in Nat
      BY <1>2, <2>1, SpentNat
    <2>8. Spent(g, S) = Spent(h, A) + g[t] /\ Spent(h, S) = Spent(h, A) + h[t]
      BY <2>2, <2>5, <2>6, <2>7 DEF Spent
    <2>9. QED
      BY <1>1, <1>3, <2>7, <2>8
  <1>4. QED
    BY <1>1, <1>2, <1>3

-----------------------------------------------------------------------------
(* One history and one bucket.                                             *)

\* What the caps have to satisfy for a step to keep them.
CapsFit(p) ==
    /\ p \in Caps
    /\ 1 <= p.start /\ p.start <= p.limit
    /\ p.rest <= p.most /\ p.start - 1 <= p.most /\ p.start - 1 <= p.full
    /\ p.start = p.limit \/ p.full <= p.most

LEMMA CapsAre ==
    ASSUME NEW p, CapsFit(p)
    PROVE  /\ p.start \in Nat /\ p.limit \in Nat /\ p.most \in Nat /\ p.full \in Nat /\ p.rest \in Int
           /\ 1 <= p.start /\ p.start <= p.limit
           /\ p.rest <= p.most /\ p.start - 1 <= p.most /\ p.start - 1 <= p.full
           /\ p.start = p.limit \/ (p.start < p.limit /\ p.full <= p.most)
  <1>1. /\ p.start \in Nat /\ p.limit \in Nat /\ p.most \in Int /\ p.full \in Int /\ p.rest \in Int
    BY DEF CapsFit, Caps
  <1>2. QED
    BY <1>1 DEF CapsFit

LEMMA Durations == Window \in Nat /\ Lockout \in Nat /\ 0 < Window /\ 0 < Lockout
  BY ProtectionConstants DEF ProtectionConstants

\* Division and products, one fact at a time.
LEMMA Quotient ==
    ASSUME NEW d \in Nat, NEW l \in Nat, 0 < l
    PROVE  d \div l \in Nat /\ l * (d \div l) <= d /\ d < l * (d \div l) + l
  <1>1. d \div l \in Nat
    OBVIOUS
  <1>2. l * (d \div l) <= d /\ d < l * (d \div l) + l
    OBVIOUS
  <1>3. QED
    BY <1>1, <1>2

LEMMA ProductGrows ==
    ASSUME NEW a \in Nat, NEW b \in Nat, NEW c \in Nat, a <= b
    PROVE  a * c \in Nat /\ b * c \in Nat /\ a * c <= b * c
  <1>1. a * c \in Nat /\ b * c \in Nat
    OBVIOUS
  <1>2. a * c <= b * c
    OBVIOUS
  <1>3. QED
    BY <1>1, <1>2

LEMMA ProductSteps ==
    ASSUME NEW a \in Nat, NEW c \in Nat
    PROVE  (a + 1) * c = a * c + c /\ c * (a + 1) = c * a + c
  OBVIOUS

\* A longer time holds as many lockouts, and a lockout more holds one more.
LEMMA QuotientGrows ==
    ASSUME NEW d \in Nat, NEW e \in Nat, NEW l \in Nat, 0 < l
    PROVE  /\ d <= e => d \div l <= e \div l
           /\ d + l <= e => (d \div l) + 1 <= e \div l
  <1> DEFINE q == d \div l
             r == e \div l
  <1>1. /\ q \in Nat /\ l * q <= d /\ d < l * q + l
        /\ r \in Nat /\ l * r <= e /\ e < l * r + l
    BY Quotient
  <1> HIDE DEF q, r
  <1>2. ASSUME d <= e, r < q PROVE FALSE
    <2>1. r + 1 <= q /\ r + 1 \in Nat
      BY <1>1, <1>2
    <2>2. (r + 1) * l <= q * l
      BY <1>1, <2>1, ProductGrows
    <2>3. (r + 1) * l = l * r + l /\ q * l = l * q /\ l * r \in Nat /\ l * q \in Nat
      BY <1>1, ProductSteps
    <2>4. QED
      BY <1>1, <1>2, <2>2, <2>3
  <1>3. ASSUME d + l <= e, r < q + 1 PROVE FALSE
    <2>1. r <= q
      BY <1>1, <1>3
    <2>2. r * l <= q * l
      BY <1>1, <2>1, ProductGrows
    <2>3. r * l = l * r /\ q * l = l * q /\ l * r \in Nat /\ l * q \in Nat
      BY <1>1
    <2>4. QED
      BY <1>1, <1>3, <2>2, <2>3
  <1>4. QED
    BY <1>1, <1>2, <1>3 DEF q, r

LEMMA Refills ==
    ASSUME NEW p, CapsFit(p), NEW d \in Nat, NEW e \in Nat, d <= e
    PROVE  /\ Refilled(p, d) \in Nat /\ Refilled(p, e) \in Nat
           /\ p.most <= Refilled(p, d) /\ Refilled(p, d) <= Refilled(p, e)
           /\ d + Lockout <= e => Refilled(p, d) + p.full <= Refilled(p, e)
  <1> DEFINE q == d \div Lockout
             r == e \div Lockout
  <1>1. q \in Nat /\ r \in Nat /\ q <= r /\ (d + Lockout <= e => q + 1 <= r)
    BY Durations, Quotient, QuotientGrows
  <1>2. Refilled(p, d) = p.most + q * p.full /\ Refilled(p, e) = p.most + r * p.full
    BY DEF Refilled
  <1>3. p.most \in Nat /\ p.full \in Nat
    BY CapsAre
  <1> HIDE DEF q, r
  <1>4. q * p.full \in Nat /\ r * p.full \in Nat /\ q * p.full <= r * p.full
    BY <1>1, <1>3, ProductGrows
  <1>5. d + Lockout <= e => q * p.full + p.full <= r * p.full
    <2>1. SUFFICES ASSUME d + Lockout <= e PROVE q * p.full + p.full <= r * p.full
      OBVIOUS
    <2>2. q + 1 \in Nat /\ q + 1 <= r
      BY <1>1, <2>1
    <2>3. (q + 1) * p.full <= r * p.full
      BY <1>1, <1>3, <2>2, ProductGrows
    <2>4. QED
      BY <1>1, <1>3, <2>3, ProductSteps
  <1>6. QED
    BY <1>2, <1>3, <1>4, <1>5

LEMMA BucketNumbers ==
    ASSUME NEW t \in Nat, NEW b, b # None, FitsAt(t, b)
    PROVE  /\ b \in FailureState
           /\ b.failures \in Nat /\ b.window_started \in Nat /\ b.window_started \in Time
           /\ b.blocked_until \in Nat /\ b.last_seen \in Nat
           /\ b.window_started <= b.last_seen /\ b.last_seen <= t
           /\ LockedAt(b) \in Int /\ b.blocked_until = LockedAt(b) + Lockout
  BY BucketParts, TimeIsNatural, Durations DEF FitsAt, LockedAt

LEMMA PartsOfTime ==
    ASSUME NEW w, NEW u
    PROVE  /\ Before(w, u) \in SUBSET Time /\ Since(w) \in SUBSET Time
           /\ LaterThan(u) \in SUBSET Time /\ Between(w, u) \in SUBSET Time
           /\ \A s \in Time : /\ s \in Before(w, u) <=> w <= s /\ s < u
                              /\ s \in Since(w) <=> s >= w
                              /\ s \in LaterThan(u) <=> s > u
                              /\ s \in Between(w, u) <=> w <= s /\ s <= u
  BY DEF Before, Since, LaterThan, Between

LEMMA PartsSpent ==
    ASSUME NEW h \in Histories, NEW w, NEW u
    PROVE  /\ Spent(h, Before(w, u)) \in Nat /\ Spent(h, Since(w)) \in Nat
           /\ Spent(h, LaterThan(u)) \in Nat /\ Spent(h, Between(w, u)) \in Nat
  BY PartsOfTime, SpentNat

\* How the parts cover each other.
LEMMA PartsCover ==
    ASSUME NEW h \in Histories, NEW x \in Int, NEW w \in Int, NEW u \in Int
    PROVE  /\ Spent(h, Since(x)) <= Spent(h, Before(x, w)) + Spent(h, Since(w))
           /\ w <= x => Spent(h, Since(x)) <= Spent(h, Since(w))
           /\ u < x => Spent(h, Since(x)) <= Spent(h, LaterThan(u))
           /\ Spent(h, Since(w)) <= Spent(h, Between(w, u)) + Spent(h, LaterThan(u))
           /\ Spent(h, Between(w, u)) <= Spent(h, Since(w))
           /\ Spent(h, Before(x, w)) <= Spent(h, Since(x))
  <1>1. \A s \in Time : s \in Int
    BY TimeIsNatural
  <1>2. /\ Before(x, w) \in SUBSET Time /\ Since(x) \in SUBSET Time /\ Since(w) \in SUBSET Time
        /\ LaterThan(u) \in SUBSET Time /\ Between(w, u) \in SUBSET Time
    BY PartsOfTime
  <1>3. /\ \A s \in Since(x) : s \in Before(x, w) \/ s \in Since(w)
        /\ w <= x => \A s \in Since(x) : s \in Since(w)
        /\ u < x => \A s \in Since(x) : s \in LaterThan(u)
        /\ \A s \in Since(w) : s \in Between(w, u) \/ s \in LaterThan(u)
        /\ \A s \in Between(w, u) : s \in Since(w)
        /\ \A s \in Before(x, w) : s \in Since(x)
    BY <1>1 DEF Before, Since, LaterThan, Between
  <1>4. Spent(h, Since(x)) <= Spent(h, Before(x, w)) + Spent(h, Since(w))
    BY <1>2, <1>3, SpentCovered
  <1>5. w <= x => Spent(h, Since(x)) <= Spent(h, Since(w))
    BY <1>2, <1>3, SpentLess
  <1>6. u < x => Spent(h, Since(x)) <= Spent(h, LaterThan(u))
    BY <1>2, <1>3, SpentLess
  <1>7. Spent(h, Since(w)) <= Spent(h, Between(w, u)) + Spent(h, LaterThan(u))
    BY <1>2, <1>3, SpentCovered
  <1>8. Spent(h, Between(w, u)) <= Spent(h, Since(w))
    BY <1>2, <1>3, SpentLess
  <1>9. Spent(h, Before(x, w)) <= Spent(h, Since(x))
    BY <1>2, <1>3, SpentLess
  <1>10. QED
    BY <1>4, <1>5, <1>6, <1>7, <1>8, <1>9

\* What is older than the window is forgotten.
LEMMA WindowCovers ==
    ASSUME NEW t \in Nat, NEW h, NEW b, Remembered(t, h, b), NEW x \in Int, NEW w \in Int,
           w + Window <= t
    PROVE  Spent(h, Since(x)) <= Spent(h, Since(w))
  <1>1. h \in Histories
    BY DEF Remembered
  <1>2. \A s \in Since(x) : h[s] # 0 => s \in Since(w)
    BY TimeIsNatural, Durations DEF Since, Remembered
  <1>3. QED
    BY <1>1, <1>2, PartsOfTime, SpentLess

LEMMA HistoryOf ==
    ASSUME NEW t, NEW h, NEW b, Remembered(t, h, b)
    PROVE  h \in Histories
  BY DEF Remembered

\* Nothing is remembered where there is no bucket.
LEMMA AnswersNone ==
    ASSUME NEW t, NEW h \in Histories, \A s \in Time : h[s] = 0, NEW n, NEW m, NEW p
    PROVE  Answers(t, h, None, n, m, p)
  BY DEF Answers, Remembered

LEMMA NeverAnswers ==
    ASSUME NEW t, NEW n, NEW m, NEW p
    PROVE  Answers(t, Never, None, n, m, p)
  <1>1. Never \in Histories /\ \A s \in Time : Never[s] = 0
    BY DEF Never, Histories
  <1>2. QED
    BY <1>1, AnswersNone

\* A bucket that is dropped has nothing left to remember.
LEMMA AnswersDropped ==
    ASSUME now \in Time, NEW h, NEW b, NEW n, NEW m, NEW p, NEW n2, NEW m2,
           Answers(now, h, b, n, m, p), b # None, FitsAt(now, b),
           \/ ~Blocks(b) /\ now - b.last_seen > Window + Lockout
           \/ b.last_seen + Window + Lockout < now /\ b.blocked_until < now
    PROVE  Answers(now, h, None, n2, m2, p)
  <1>1. now \in Nat /\ b.last_seen \in Nat
    BY TimeIsNatural, BucketNumbers
  <1>2. b.last_seen + Window < now
    BY <1>1, Durations
  <1>3. ASSUME NEW s \in Time PROVE h[s] = 0
    <2>1. s \in Nat
      BY TimeIsNatural
    <2>2. h[s] # 0 => now < s + Window /\ s <= b.last_seen
      BY DEF Answers, Remembered
    <2>3. QED
      BY <1>1, <1>2, <2>1, <2>2, Durations
  <1>4. QED
    BY <1>3, AnswersNone, HistoryOf DEF Answers

\* Fewer of those under way leave a lock as it was.
LEMMA LockKept ==
    ASSUME NEW t \in Nat, NEW b, b # None, FitsAt(t, b), NEW p, CapsFit(p),
           NEW h \in Histories, NEW n \in Nat, LockedFits(h, b, n, p),
           NEW g \in Histories, NEW k \in Nat,
           \A S \in SUBSET Time : Spent(g, S) + k <= Spent(h, S) + n,
           p.start < p.limit => Spent(g, Between(b.window_started, LockedAt(b))) <= p.full
    PROVE  LockedFits(g, b, k, p)
  <1> DEFINE u == LockedAt(b)
  <1>1. u \in Int
    BY BucketNumbers
  <1>2. Spent(h, LaterThan(u)) + n <= p.rest
    BY DEF LockedFits
  <1>3. LaterThan(u) \in SUBSET Time /\ \A x \in Int : Since(x) \in SUBSET Time
    BY DEF LaterThan, Since
  <1> HIDE DEF u
  <1>4. Spent(g, LaterThan(u)) + k <= p.rest
    <2>1. Spent(g, LaterThan(u)) \in Nat /\ Spent(h, LaterThan(u)) \in Nat
      BY PartsSpent
    <2>2. Spent(g, LaterThan(u)) + k <= Spent(h, LaterThan(u)) + n
      BY <1>3
    <2>3. QED
      BY <1>2, <2>1, <2>2, CapsAre
  <1>5. ASSUME p.start = p.limit, NEW x \in Int, x <= u
        PROVE  Spent(g, Since(x)) + k <= Refilled(p, u - x) + p.full
    <2>1. Spent(g, Since(x)) \in Nat /\ Spent(h, Since(x)) \in Nat
      BY PartsSpent
    <2>2. Spent(g, Since(x)) + k <= Spent(h, Since(x)) + n
      BY <1>3
    <2>3. Spent(h, Since(x)) + n <= Refilled(p, u - x) + p.full
      BY <1>5 DEF LockedFits, u
    <2>4. Refilled(p, u - x) \in Nat /\ p.full \in Nat
      <3> DEFINE d == u - x
      <3>1. d \in Nat /\ d <= d
        BY <1>1, <1>5
      <3> HIDE DEF d
      <3>2. Refilled(p, d) \in Nat
        BY <3>1, Refills
      <3>3. QED
        BY <3>2, CapsAre DEF d
    <2>5. QED
      BY <2>1, <2>2, <2>3, <2>4
  <1>6. QED
    BY <1>4, <1>5 DEF LockedFits, u

\* Others come and go.
LEMMA AnswersFewer ==
    ASSUME NEW t \in Nat, NEW h, NEW b, FitsAt(t, b), NEW p, CapsFit(p),
           NEW n \in Nat, NEW m \in Nat, NEW n2 \in Nat, NEW m2 \in Nat,
           Answers(t, h, b, n, m, p),
           b # None => /\ b.blocked_until > t => n2 <= n
                       /\ /\ p.start < p.limit /\ b.failures >= p.start
                          /\ b.window_started + Window > t
                          => m2 <= m
    PROVE  Answers(t, h, b, n2, m2, p)
  <1>1. CASE b = None
    BY <1>1 DEF Answers
  <1>2. CASE b # None
    <2>1. h \in Histories
      BY HistoryOf DEF Answers
    <2>2. /\ Spent(h, Since(b.window_started)) \in Nat
          /\ Spent(h, LaterThan(LockedAt(b))) \in Nat
      BY <2>1, PartsSpent
    <2>3. WindowFits(t, h, b, m, p) /\ LockFits(t, h, b, n, p)
      BY <1>2 DEF Answers
    <2>4. WindowFits(t, h, b, m2, p)
      BY <1>2, <2>2, <2>3, CapsAre DEF WindowFits
    <2>5. Open(t, b, n2) \in Nat /\ Open(t, b, n) \in Nat /\ Open(t, b, n2) <= Open(t, b, n)
      BY <1>2 DEF Open
    <2>6. ASSUME b.blocked_until # 0, LockedFits(h, b, Open(t, b, n), p)
          PROVE  LockedFits(h, b, Open(t, b, n2), p)
      <3>1. \A S \in SUBSET Time :
               Spent(h, S) + Open(t, b, n2) <= Spent(h, S) + Open(t, b, n)
        BY <2>1, <2>5, SpentNat
      <3>2. p.start < p.limit => Spent(h, Between(b.window_started, LockedAt(b))) <= p.full
        BY <2>6 DEF LockedFits
      <3>3. QED
        BY <1>2, <2>1, <2>5, <2>6, <3>1, <3>2, LockKept
    <2>7. LockFits(t, h, b, n2, p)
      BY <2>3, <2>6 DEF LockFits
    <2>8. QED
      BY <2>4, <2>7 DEF Answers
  <1>3. QED
    BY <1>1, <1>2

\* A bucket that was looked at.
LEMMA AnswersSeen ==
    ASSUME now \in Time, NEW h, NEW b, b # None, NEW c, c # None, NEW n, NEW m, NEW p,
           Answers(now, h, b, n, m, p),
           c.failures = b.failures, c.window_started = b.window_started,
           c.blocked_until = b.blocked_until, c.last_seen = now
    PROVE  Answers(now, h, c, n, m, p)
  <1>1. Remembered(now, h, c)
    BY DEF Answers, Remembered
  <1>2. LockedAt(c) = LockedAt(b) /\ (OverAt(now, c) <=> OverAt(now, b))
    BY DEF LockedAt, OverAt
  <1>3. WindowFits(now, h, b, m, p) /\ LockFits(now, h, b, n, p)
    BY DEF Answers
  <1>4. WindowFits(now, h, c, m, p) /\ LockFits(now, h, c, n, p)
    BY <1>2, <1>3 DEF WindowFits, LockFits, LockedFits, Open
  <1>5. QED
    BY <1>1, <1>4 DEF Answers

(***************************************************************************)
(* When a window is opened, nothing was answered in it yet, and what is    *)
(* left of the one before is capped: that one did not lock, or its lock is *)
(* over and with it a lockout time.                                        *)
(***************************************************************************)
LEMMA OpenedAnew ==
    ASSUME now \in Time, NEW h, NEW b, FitsAt(now, b), NEW p, CapsFit(p),
           NEW n \in Nat, NEW m \in Nat, Answers(now, h, b, n, m, p),
           b = None \/ OverAt(now, b)
    PROVE  /\ \A x \in Int : x <= now => Spent(h, Before(x, now)) <= Refilled(p, now - x)
           /\ Spent(h, Since(now)) = 0
  <1>1. h \in Histories /\ now \in Nat
    BY HistoryOf, TimeIsNatural DEF Answers
  <1>2. Spent(h, Since(now)) = 0
    <2>1. \A s \in Time : s \in Nat /\ (h[s] # 0 => s <= now /\ b # None)
      BY TimeIsNatural DEF Answers, Remembered
    <2>2. h[now] = 0
      <3>1. CASE b = None
        BY <2>1, <3>1
      <3>2. CASE b # None
        BY <3>2 DEF Answers, WindowFits
      <3>3. QED
        BY <3>1, <3>2
    <2>3. ASSUME NEW s \in Since(now) PROVE h[s] = 0
      BY <1>1, <2>1, <2>2 DEF Since
    <2>4. QED
      BY <1>1, <2>3, PartsOfTime, SpentNothing
  <1>3. ASSUME NEW x \in Int, x <= now PROVE Spent(h, Before(x, now)) <= Refilled(p, now - x)
    <2> DEFINE d == now - x
               T == Spent(h, Before(x, now))
    <2>1. d \in Nat /\ d <= d
      BY <1>1, <1>3
    <2> HIDE DEF d
    <2>2. /\ Refilled(p, d) \in Nat /\ p.most <= Refilled(p, d) /\ p.most \in Nat /\ p.full \in Nat
          /\ p.rest \in Int /\ p.rest <= p.most
      BY <2>1, CapsAre, Refills
    <2>3. T \in Nat /\ T <= Spent(h, Since(x)) /\ Spent(h, Since(x)) \in Nat
      BY <1>1, PartsSpent, PartsCover
    <2> HIDE DEF T
    <2>4. CASE b = None
      <3>1. \A s \in Before(x, now) : h[s] = 0
        BY <2>4 DEF Answers, Remembered, Before
      <3>2. T = 0
        BY <1>1, <3>1, PartsOfTime, SpentNothing DEF T
      <3>3. QED
        BY <2>2, <3>2 DEF d, T
    <2>5. CASE b # None
      <3> DEFINE w == b.window_started
                 u == LockedAt(b)
      <3>1. OverAt(now, b) /\ WindowFits(now, h, b, m, p) /\ LockFits(now, h, b, n, p)
            /\ Remembered(now, h, b)
        BY <2>5 DEF Answers
      <3>2. /\ b.failures \in Nat /\ w \in Nat /\ b.blocked_until \in Nat /\ w <= now
            /\ u \in Int /\ b.blocked_until = u + Lockout /\ Lockout \in Nat /\ 0 < Lockout
        BY <1>1, <2>5, BucketNumbers, Durations
      <3>3. /\ Spent(h, Since(w)) \in Nat /\ Spent(h, LaterThan(u)) \in Nat
            /\ Spent(h, Between(w, u)) \in Nat
        BY <1>1, PartsSpent
      <3> HIDE DEF w, u
      <3>4. CASE b.blocked_until = 0
        <4>1. w + Window <= now
          BY <3>1, <3>4 DEF OverAt, w
        <4>2. Spent(h, Since(x)) <= Spent(h, Since(w))
          BY <1>1, <1>3, <3>1, <3>2, <4>1, WindowCovers
        <4>3. Spent(h, Since(w)) <= p.most
          <5>1. CASE b.failures < p.start
            <6>1. Spent(h, Since(w)) <= b.failures
              BY <3>1, <5>1 DEF WindowFits, w
            <6>2. QED
              BY <3>2, <3>3, <5>1, <6>1, CapsAre
          <5>2. CASE b.failures >= p.start
            BY <3>1, <3>4, <5>2 DEF WindowFits, w
          <5>3. QED
            BY <3>2, <5>1, <5>2, CapsAre
        <4>4. QED
          BY <2>2, <2>3, <3>3, <4>2, <4>3 DEF d, T
      <3>5. CASE b.blocked_until # 0
        <4>1. /\ u + Lockout <= now /\ w <= u /\ b.failures >= p.limit
              /\ LockedFits(h, b, Open(now, b, n), p)
          BY <3>1, <3>2, <3>5 DEF OverAt, LockFits, w, u
        <4>2. Open(now, b, n) = 0
          BY <1>1, <3>2, <4>1 DEF Open
        <4>3. Spent(h, LaterThan(u)) <= p.rest
          BY <3>3, <4>1, <4>2, CapsAre DEF LockedFits, u
        <4>4. CASE u < x
          <5>1. Spent(h, Since(x)) <= Spent(h, LaterThan(u))
            BY <1>1, <1>3, <3>2, <4>4, PartsCover
          <5>2. QED
            BY <2>2, <2>3, <3>3, <4>3, <5>1 DEF d, T
        <4>5. CASE x <= u /\ p.start = p.limit
          <5> DEFINE e == u - x
          <5>1. e \in Nat /\ e <= d /\ e + Lockout <= d
            BY <1>1, <1>3, <3>2, <4>1, <4>5 DEF d
          <5>2. Spent(h, Since(x)) <= Refilled(p, e) + p.full
            <6>1. Spent(h, Since(x)) + Open(now, b, n) <= Refilled(p, u - x) + p.full
              BY <1>3, <4>1, <4>5 DEF LockedFits, u
            <6>2. QED
              BY <2>3, <4>2, <6>1
          <5> HIDE DEF e
          <5>3. Refilled(p, e) \in Nat /\ Refilled(p, e) + p.full <= Refilled(p, d)
            BY <2>1, <5>1, Refills
          <5>4. QED
            BY <2>2, <2>3, <5>2, <5>3 DEF d, T
        <4>6. CASE x <= u /\ p.start < p.limit /\ w + Window <= now
          <5>1. Spent(h, Since(x)) <= Spent(h, Since(w))
            BY <1>1, <1>3, <3>1, <3>2, <4>6, WindowCovers
          <5>2. Spent(h, Since(w)) <= Spent(h, Between(w, u)) + Spent(h, LaterThan(u))
            <6>1. w \in Int /\ u \in Int
              BY <3>2
            <6>2. QED
              BY <1>1, <6>1, PartsCover
          <5>3. Spent(h, Between(w, u)) <= p.full
            BY <4>1, <4>6 DEF LockedFits, w, u
          <5>4. 0 \in Nat /\ 0 + Lockout <= d /\ 0 <= d
            BY <1>1, <1>3, <3>2, <4>1, <4>6, <2>1 DEF d
          <5>5. Refilled(p, 0) \in Nat /\ p.most <= Refilled(p, 0)
                /\ Refilled(p, 0) + p.full <= Refilled(p, d)
            BY <2>1, <5>4, Refills
          <5>6. QED
            BY <2>2, <2>3, <3>3, <4>3, <5>1, <5>2, <5>3, <5>5 DEF d, T
        <4>7. CASE x <= u /\ p.start < p.limit /\ w + Window > now
          <5>1. Spent(h, Since(w)) <= p.full
            <6>1. b.failures >= p.start
              BY <3>2, <4>1, CapsAre
            <6>2. Spent(h, Since(w)) + m <= p.full
              BY <3>1, <4>7, <6>1 DEF WindowFits, w
            <6>3. QED
              BY <2>2, <3>3, <6>2
          <5>2. CASE w <= x
            <6>1. Spent(h, Since(x)) <= Spent(h, Since(w))
              BY <1>1, <1>3, <3>2, <5>2, PartsCover
            <6>2. p.full <= p.most
              BY <4>7, CapsAre
            <6>3. QED
              BY <2>2, <2>3, <3>3, <5>1, <6>1, <6>2 DEF d, T
          <5>3. CASE x < w
            <6> DEFINE e == w - x
            <6>1. e \in Nat /\ e <= d /\ e + Lockout <= d
              BY <1>1, <1>3, <3>2, <4>1, <5>3 DEF d
            <6>2. Spent(h, Before(x, w)) <= Refilled(p, e) /\ Spent(h, Before(x, w)) \in Nat
              <7>1. Spent(h, Before(x, w)) <= Refilled(p, w - x)
                BY <1>3, <3>1, <3>2, <5>3 DEF WindowFits, w
              <7>2. QED
                BY <1>1, <7>1, PartsSpent
            <6>3. Spent(h, Since(x)) <= Spent(h, Before(x, w)) + Spent(h, Since(w))
              BY <1>1, <1>3, <3>2, PartsCover
            <6> HIDE DEF e
            <6>4. Refilled(p, e) \in Nat /\ Refilled(p, e) + p.full <= Refilled(p, d)
              BY <2>1, <6>1, Refills
            <6>5. QED
              BY <2>2, <2>3, <3>3, <5>1, <6>2, <6>3, <6>4 DEF d, T
          <5>4. QED
            BY <1>3, <3>2, <5>2, <5>3
        <4>8. QED
          BY <1>1, <1>3, <3>2, <4>4, <4>5, <4>6, <4>7, CapsAre, Durations
      <3>6. QED
        BY <3>4, <3>5
    <2>6. QED
      BY <2>4, <2>5
  <1>4. QED
    BY <1>2, <1>3

\* What is over can be told as the memory store does.
LEMMA OverIs ==
    ASSUME now \in Time, NEW b, b # None, FitsAt(now, b), ~Blocks(b)
    PROVE  /\ (b.blocked_until # 0 \/ now - b.window_started >= Window) <=> OverAt(now, b)
           /\ b.window_started <= now - Window => OverAt(now, b)
           /\ ~(b.window_started <= now - Window) => b.window_started + Window > now
           /\ ~OverAt(now, b) => b.window_started + Window > now
  <1>1. now \in Nat /\ b.window_started \in Nat /\ b.blocked_until \in Nat
    BY TimeIsNatural, BucketNumbers
  <1>2. QED
    BY <1>1, Durations DEF OverAt, Blocks

\* The memory store may look a bucket up.
LEMMA AnswersLooked ==
    ASSUME now \in Time, NEW h, NEW b, b # None, FitsAt(now, b), NEW p, CapsFit(p),
           NEW n \in Nat, NEW m \in Nat, Answers(now, h, b, n, m, p)
    PROVE  Answers(now, h, active_retry_after(b), n, m, p)
  <1>1. CASE ~Blocks(b) /\ (b.blocked_until # 0 \/ now - b.window_started >= Window)
    <2> DEFINE c == active_retry_after(b)
    <2>1. c = new
      BY <1>1 DEF active_retry_after
    <2>2. c.failures = 0 /\ c.window_started = now /\ c.blocked_until = 0 /\ c.last_seen = now
      BY <2>1 DEF new
    <2>3. c # None
      BY <2>1, FreshBucket, BucketParts
    <2>4. /\ \A x \in Int : x <= now => Spent(h, Before(x, now)) <= Refilled(p, now - x)
          /\ Spent(h, Since(now)) = 0
      <3>1. OverAt(now, b)
        BY <1>1, OverIs
      <3>2. QED
        BY <3>1, OpenedAnew
    <2>5. now \in Nat
      BY TimeIsNatural
    <2> HIDE DEF c
    <2>6. WindowFits(now, h, c, m, p) /\ LockFits(now, h, c, n, p)
      BY <2>2, <2>4, <2>5, CapsAre, Durations DEF WindowFits, LockFits, OverAt
    <2>7. Remembered(now, h, c)
      BY <2>2, <2>3 DEF Answers, Remembered
    <2>8. QED
      BY <2>6, <2>7 DEF Answers, c
  <1>2. CASE ~(~Blocks(b) /\ (b.blocked_until # 0 \/ now - b.window_started >= Window))
    <2> DEFINE c == active_retry_after(b)
    <2>1. c = [b EXCEPT !.last_seen = now] /\ b \in FailureState
      BY <1>2 DEF active_retry_after, FitsAt
    <2>2. /\ c.failures = b.failures /\ c.window_started = b.window_started
          /\ c.blocked_until = b.blocked_until /\ c.last_seen = now /\ c # None
      BY <2>1, BucketSeen, BucketParts
    <2> HIDE DEF c
    <2>3. Answers(now, h, c, n, m, p)
      BY <2>2, AnswersSeen
    <2>4. QED
      BY <2>3 DEF c
  <1>3. QED
    BY <1>1, <1>2

\* What a recorded failure makes of a bucket, in either store.
OneMore(b, f, limit) ==
    /\ f \in FailureState /\ FitsAt(now, f) /\ f.last_seen = now
    /\ \/ /\ Blocks(b)
          /\ f.failures = b.failures /\ f.window_started = b.window_started
          /\ f.blocked_until = b.blocked_until
       \/ /\ ~Blocks(b)
          /\ f.blocked_until = IF f.failures >= limit THEN now + Lockout ELSE 0
          /\ \/ (b = None \/ OverAt(now, b)) /\ f.failures = 1 /\ f.window_started = now
             \/ /\ b # None /\ b.window_started + Window > now
                /\ f.failures = b.failures + 1 /\ f.window_started = b.window_started

LEMMA OneMoreInMemory ==
    ASSUME now \in Time, NEW b, FitsAt(now, b), NEW limit
    PROVE  OneMore(b, record_failure_state(b, limit), limit)
  <1> DEFINE s == IF b = None THEN new ELSE active_retry_after(b)
             u == IF s.failures + 1 >= limit THEN now + Lockout ELSE 0
             f == record_failure_state(b, limit)
  <1>1. f \in FailureState /\ FitsAt(now, f)
    BY MemoryCounts
  <1>2. f = IF Blocks(s) THEN s ELSE [s EXCEPT !.failures = s.failures + 1, !.blocked_until = u]
    BY DEF record_failure_state
  <1>3. now \in Nat
    BY TimeIsNatural
  <1>4. /\ s \in FailureState /\ s.last_seen = now
        /\ \/ /\ Blocks(b) /\ Blocks(s)
              /\ s.failures = b.failures /\ s.window_started = b.window_started
              /\ s.blocked_until = b.blocked_until
           \/ /\ ~Blocks(b) /\ ~Blocks(s)
              /\ \/ (b = None \/ OverAt(now, b)) /\ s.failures = 0 /\ s.window_started = now
                 \/ /\ b # None /\ b.window_started + Window > now
                    /\ s.failures = b.failures /\ s.window_started = b.window_started
    <2>1. CASE b = None \/ (b # None /\ ~Blocks(b) /\ OverAt(now, b))
      <3>1. s = new
        BY <2>1, OverIs DEF active_retry_after
      <3>2. new \in FailureState
        BY FreshBucket
      <3>3. /\ new.failures = 0 /\ new.window_started = now /\ new.blocked_until = 0
            /\ new.last_seen = now
        BY DEF new
      <3>4. ~Blocks(new) /\ ~Blocks(b)
        BY <1>3, <2>1, <3>3 DEF Blocks
      <3> HIDE DEF s
      <3>5. QED
        BY <2>1, <3>1, <3>2, <3>3, <3>4
    <2>2. CASE b # None /\ (Blocks(b) \/ ~OverAt(now, b))
      <3>1. s = [b EXCEPT !.last_seen = now] /\ b \in FailureState
        BY <2>2, OverIs DEF active_retry_after, FitsAt
      <3> HIDE DEF s
      <3>2. /\ s \in FailureState
            /\ s.failures = b.failures /\ s.window_started = b.window_started
            /\ s.blocked_until = b.blocked_until /\ s.last_seen = now /\ s # None
        BY <3>1, BucketSeen, BucketParts
      <3>3. Blocks(s) <=> Blocks(b)
        BY <2>2, <3>2 DEF Blocks
      <3>4. ~Blocks(b) => b.window_started + Window > now
        BY <2>2, OverIs
      <3>5. QED
        BY <2>2, <3>2, <3>3, <3>4
    <2>3. QED
      BY <2>1, <2>2
  <1> HIDE DEF f, s
  <1>5. CASE Blocks(b)
    BY <1>1, <1>2, <1>4, <1>5 DEF OneMore, f
  <1>6. CASE ~Blocks(b)
    <2>1. f = [failures |-> s.failures + 1, window_started |-> s.window_started,
               blocked_until |-> u, last_seen |-> s.last_seen]
      BY <1>2, <1>4, <1>6, CountedInMemory, ZenonT(60)
    <2>2. /\ f.failures = s.failures + 1 /\ f.window_started = s.window_started
          /\ f.blocked_until = u /\ f.last_seen = now
      BY <1>4, <2>1
    <2>3. QED
      BY <1>1, <1>4, <1>6, <2>2 DEF OneMore, f
  <1>7. QED
    BY <1>5, <1>6

LEMMA OneMoreInTable ==
    ASSUME now \in Time, NEW b, FitsAt(now, b), NEW limit
    PROVE  OneMore(b, Upserted(b, limit), limit)
  <1> DEFINE stale == b # None /\ b.window_started <= now - Window
             k == IF b = None \/ stale THEN 1 ELSE b.failures + 1
             w == IF b = None \/ stale THEN now ELSE b.window_started
             u == IF k >= limit THEN now + Lockout ELSE 0
             f == Upserted(b, limit)
  <1>1. f \in FailureState /\ FitsAt(now, f)
    BY TableCounts
  <1>2. f = IF Blocks(b) THEN [b EXCEPT !.last_seen = now]
            ELSE [failures |-> k, window_started |-> w, blocked_until |-> u, last_seen |-> now]
    BY DEF Upserted
  <1>3. now \in Nat
    BY TimeIsNatural
  <1> HIDE DEF f
  <1>4. CASE Blocks(b)
    <2>1. b # None /\ b \in FailureState /\ f = [b EXCEPT !.last_seen = now]
      BY <1>2, <1>4 DEF Blocks, FitsAt
    <2>2. /\ f.failures = b.failures /\ f.window_started = b.window_started
          /\ f.blocked_until = b.blocked_until /\ f.last_seen = now
      BY <2>1, BucketSeen
    <2>3. QED
      BY <1>1, <1>4, <2>2 DEF OneMore, f
  <1>5. CASE ~Blocks(b)
    <2>1. f.failures = k /\ f.window_started = w /\ f.blocked_until = u /\ f.last_seen = now
      BY <1>2, <1>5
    <2>2. b # None => /\ stale => OverAt(now, b)
                      /\ ~stale => b.window_started + Window > now
      BY <1>5, OverIs
    <2>3. \/ (b = None \/ OverAt(now, b)) /\ k = 1 /\ w = now
          \/ /\ b # None /\ b.window_started + Window > now
             /\ k = b.failures + 1 /\ w = b.window_started
      BY <2>2
    <2> HIDE DEF k, w, stale
    <2>4. QED
      BY <1>1, <1>5, <2>1, <2>3 DEF OneMore, f
  <1>6. QED
    BY <1>4, <1>5

\* The history with `told` more answers now.
AnsweredNow(h, told) == IF told = 1 THEN [h EXCEPT ![now] = @ + 1] ELSE h

LEMMA AnsweredSpent ==
    ASSUME now \in Time, NEW h \in Histories, NEW told \in {0, 1}
    PROVE  /\ AnsweredNow(h, told) \in Histories
           /\ \A s \in Time : AnsweredNow(h, told)[s] # 0 => h[s] # 0 \/ s = now
           /\ \A S \in SUBSET Time :
                 Spent(AnsweredNow(h, told), S) = IF now \in S THEN Spent(h, S) + told
                                                               ELSE Spent(h, S)
  <1> DEFINE g == AnsweredNow(h, told)
  <1>1. CASE told = 0
    <2>1. g = h
      BY <1>1 DEF AnsweredNow
    <2>2. \A S \in SUBSET Time : Spent(h, S) \in Nat
      BY SpentNat
    <2>3. \A S \in SUBSET Time : Spent(h, S) + told = Spent(h, S)
      BY <1>1, <2>2
    <2>4. QED
      BY <2>1, <2>3
  <1>2. CASE told = 1
    <2>1. g = [h EXCEPT ![now] = @ + 1]
      BY <1>2 DEF AnsweredNow
    <2>2. \A s \in Time : g[s] # 0 => h[s] # 0 \/ s = now
      BY <2>1 DEF Histories
    <2>3. g \in Histories /\ g[now] = h[now] + 1 /\ \A s \in Time : s # now => g[s] = h[s]
      BY <2>1 DEF Histories
    <2> HIDE DEF g
    <2>4. ASSUME NEW S \in SUBSET Time
          PROVE  Spent(g, S) = IF now \in S THEN Spent(h, S) + 1 ELSE Spent(h, S)
      BY <2>3, SpentMore
    <2>5. QED
      BY <1>2, <2>2, <2>3, <2>4 DEF g
  <1>3. QED
    BY <1>1, <1>2

(***************************************************************************)
(* A recorded failure, with its answer or without.  From `start` failures  *)
(* on an answer is one of those that were under way.                       *)
(***************************************************************************)
LEMMA AnswersRecorded ==
    ASSUME now \in Time, NEW h, NEW b, FitsAt(now, b), NEW p, CapsFit(p),
           NEW n \in Nat, NEW m \in Nat, NEW n2 \in Nat, NEW m2 \in Nat, NEW told \in {0, 1},
           Answers(now, h, b, n, m, p), NEW f, OneMore(b, f, p.limit),
           f.failures >= p.start =>
              /\ told + n2 <= n /\ told + m2 <= m
              /\ told + m2 <= p.full - p.start + 1 /\ n2 <= p.rest
              /\ p.start = p.limit => told + n2 <= p.full - p.start + 1
    PROVE  Answers(now, AnsweredNow(h, told), f, n2, m2, p)
  <1> DEFINE g == AnsweredNow(h, told)
             w == f.window_started
             u == LockedAt(f)
  <1>1. h \in Histories /\ now \in Nat
    BY HistoryOf, TimeIsNatural DEF Answers
  <1>2. /\ g \in Histories
        /\ \A s \in Time : g[s] # 0 => h[s] # 0 \/ s = now
        /\ \A S \in SUBSET Time :
              Spent(g, S) = IF now \in S THEN Spent(h, S) + told ELSE Spent(h, S)
    BY <1>1, AnsweredSpent
  <1>3. /\ f # None /\ f.failures \in Nat /\ w \in Nat /\ f.blocked_until \in Nat
        /\ f.last_seen = now /\ w <= now
        /\ u \in Int /\ f.blocked_until = u + Lockout
    BY <1>1, BucketParts, BucketNumbers DEF OneMore
  <1>4. /\ p.start \in Nat /\ p.limit \in Nat /\ p.most \in Nat /\ p.full \in Nat /\ p.rest \in Int
        /\ 1 <= p.start /\ p.start <= p.limit
        /\ p.rest <= p.most /\ p.start - 1 <= p.full
        /\ p.start = p.limit \/ (p.start < p.limit /\ p.full <= p.most)
    BY CapsAre
  <1>5. /\ Spent(h, Since(w)) \in Nat /\ Spent(h, LaterThan(u)) \in Nat
        /\ Spent(h, Between(w, u)) \in Nat
        /\ Spent(g, Since(w)) \in Nat /\ Spent(g, LaterThan(u)) \in Nat
        /\ Spent(g, Between(w, u)) \in Nat
    BY <1>1, <1>2, PartsSpent
  <1>6. /\ \A x \in Int : Spent(g, Before(x, w)) = Spent(h, Before(x, w))
        /\ Spent(g, Since(w)) = Spent(h, Since(w)) + told
        /\ now > u => Spent(g, Between(w, u)) = Spent(h, Between(w, u))
        /\ Spent(g, Between(w, u)) <= Spent(g, Since(w))
    <2>1. /\ \A x \in Int : Before(x, w) \in SUBSET Time
          /\ Since(w) \in SUBSET Time /\ Between(w, u) \in SUBSET Time
      BY PartsOfTime
    <2>2. (\A x \in Int : now \notin Before(x, w)) /\ now \in Since(w)
      BY <1>1, <1>3 DEF Before, Since
    <2>3. now > u => now \notin Between(w, u)
      BY <1>1, <1>3 DEF Between
    <2>4. Spent(g, Between(w, u)) <= Spent(g, Since(w))
      <3>1. w \in Int /\ u \in Int
        BY <1>3
      <3> HIDE DEF g, w, u
      <3>2. QED
        BY <1>2, <3>1, PartsCover
    <2> HIDE DEF g, w, u
    <2>5. /\ Spent(g, Since(w)) = Spent(h, Since(w)) + told
          /\ now > u => Spent(g, Between(w, u)) = Spent(h, Between(w, u))
      BY <1>2, <2>1, <2>2, <2>3
    <2>6. \A x \in Int : Spent(g, Before(x, w)) = Spent(h, Before(x, w))
      BY <1>2, <2>1, <2>2
    <2>7. QED
      BY <2>4, <2>5, <2>6
  <1>7. Remembered(now, g, f)
    <2>1. \A s \in Time : g[s] # 0 => s <= now /\ now < s + Window
      BY <1>1, <1>2, Durations DEF Answers, Remembered
    <2> HIDE DEF g
    <2>2. QED
      BY <1>2, <1>3, <2>1 DEF Remembered
  <1> HIDE DEF g
  <1>8. CASE Blocks(b)
    <2>1. /\ f.failures = b.failures /\ w = b.window_started
          /\ f.blocked_until = b.blocked_until /\ u = LockedAt(b)
          /\ b # None /\ f.blocked_until > now
      BY <1>8 DEF OneMore, Blocks, LockedAt
    <2>2. WindowFits(now, h, b, m, p) /\ LockFits(now, h, b, n, p)
      BY <2>1 DEF Answers
    <2>3. b.blocked_until # 0 /\ b.blocked_until > now /\ f.blocked_until # 0
      BY <1>1, <1>3, <2>1
    <2> HIDE DEF w, u
    <2>4. /\ f.failures >= p.limit /\ w <= u /\ u < w + Window /\ u <= now
          /\ LockedFits(h, b, Open(now, b, n), p)
      BY <2>1, <2>2, <2>3 DEF LockFits
    <2>5. f.failures >= p.start
      BY <1>3, <1>4, <2>4
    <2>6. told + n2 <= n /\ told + m2 <= m
      BY <2>5
    <2>7. Open(now, b, n) = n /\ Open(now, f, n2) = n2
      BY <2>1, <2>3 DEF Open
    <2>8. /\ \A x \in Int : x <= w => Spent(h, Before(x, w)) <= Refilled(p, w - x)
          /\ p.start < p.limit /\ w + Window > now => Spent(h, Since(w)) + m <= p.full
      BY <2>1, <2>2, <2>5 DEF WindowFits
    <2>9. p.start < p.limit /\ w + Window > now => Spent(g, Since(w)) + m2 <= p.full
      BY <1>4, <1>5, <1>6, <2>6, <2>8
    <2>10. p.start < p.limit => Spent(g, Between(w, u)) <= p.full
      <3>1. CASE now > u
        BY <1>6, <2>1, <2>4, <3>1 DEF LockedFits
      <3>2. CASE ~(now > u)
        BY <1>1, <1>3, <1>4, <1>5, <1>6, <2>4, <2>9, <3>2, Durations
      <3>3. QED
        BY <3>1, <3>2
    <2>11. LockedFits(g, f, n2, p)
      <3>1. \A S \in SUBSET Time : Spent(g, S) + n2 <= Spent(h, S) + n
        <4>1. ASSUME NEW S \in SUBSET Time PROVE Spent(g, S) + n2 <= Spent(h, S) + n
          <5>1. Spent(g, S) \in Nat /\ Spent(h, S) \in Nat
            BY <1>1, <1>2, SpentNat
          <5>2. Spent(g, S) = Spent(h, S) + told \/ Spent(g, S) = Spent(h, S)
            BY <1>2
          <5>3. QED
            BY <2>6, <5>1, <5>2
        <4>2. QED
          BY <4>1
      <3>2. LockedFits(g, b, n2, p)
        BY <1>1, <1>2, <2>1, <2>4, <2>7, <2>10, <3>1, LockKept
      <3>3. QED
        BY <2>1, <3>2 DEF LockedFits, w, u
    <2>12. WindowFits(now, g, f, m2, p)
      <3>1. ~(f.failures < p.start) /\ ~OverAt(now, f)
        BY <1>1, <1>3, <1>4, <2>1, <2>5 DEF OverAt
      <3>2. QED
        BY <1>6, <2>3, <2>8, <2>9, <3>1 DEF WindowFits, w
    <2>13. LockFits(now, g, f, n2, p)
      BY <2>3, <2>4, <2>7, <2>11 DEF LockFits, w, u
    <2>14. QED
      BY <1>7, <2>12, <2>13 DEF Answers, g
  <1>9. CASE ~Blocks(b)
    <2>1. /\ f.blocked_until = IF f.failures >= p.limit THEN now + Lockout ELSE 0
          /\ \/ (b = None \/ OverAt(now, b)) /\ f.failures = 1 /\ w = now
             \/ /\ b # None /\ b.window_started + Window > now
                /\ f.failures = b.failures + 1 /\ w = b.window_started
      BY <1>9 DEF OneMore
    <2>2. /\ \A x \in Int : x <= w => Spent(h, Before(x, w)) <= Refilled(p, w - x)
          /\ w + Window > now
          /\ f.failures <= p.start => Spent(h, Since(w)) <= f.failures - 1
          /\ p.start < p.limit /\ f.failures > p.start => Spent(h, Since(w)) + m <= p.full
      <3>1. CASE (b = None \/ OverAt(now, b)) /\ f.failures = 1 /\ w = now
        <4>1. /\ \A x \in Int : x <= now => Spent(h, Before(x, now)) <= Refilled(p, now - x)
              /\ Spent(h, Since(now)) = 0
          BY <3>1, OpenedAnew
        <4>2. ~(f.failures > p.start) /\ w + Window > now
          BY <1>1, <1>4, <3>1, Durations
        <4>3. QED
          BY <3>1, <4>1, <4>2
      <3>2. CASE /\ b # None /\ b.window_started + Window > now
                 /\ f.failures = b.failures + 1 /\ w = b.window_started
        <4>1. WindowFits(now, h, b, m, p) /\ b.failures \in Nat
          BY <1>1, <3>2, BucketNumbers DEF Answers
        <4>2. \A x \in Int : x <= w => Spent(h, Before(x, w)) <= Refilled(p, w - x)
          BY <3>2, <4>1 DEF WindowFits
        <4>3. CASE b.failures < p.start
          <5>1. Spent(h, Since(w)) <= b.failures
            BY <3>2, <4>1, <4>3 DEF WindowFits
          <5>2. ~(f.failures > p.start) /\ Spent(h, Since(w)) <= f.failures - 1
            BY <1>4, <3>2, <4>1, <4>3, <5>1
          <5>3. QED
            BY <3>2, <4>2, <5>2
        <4>4. CASE b.failures >= p.start
          <5>1. p.start < p.limit => Spent(h, Since(w)) + m <= p.full
            BY <3>2, <4>1, <4>4 DEF WindowFits
          <5>2. ~(f.failures <= p.start)
            BY <1>4, <3>2, <4>1, <4>4
          <5>3. QED
            BY <3>2, <4>2, <5>1, <5>2
        <4>5. QED
          BY <1>4, <4>1, <4>3, <4>4
      <3>3. QED
        BY <2>1, <3>1, <3>2
    <2> HIDE DEF w
    <2>3. f.failures < p.start => Spent(g, Since(w)) <= f.failures
      BY <1>3, <1>4, <1>5, <1>6, <2>2
    <2>4. p.start < p.limit /\ f.failures >= p.start => Spent(g, Since(w)) + m2 <= p.full
      <3>1. CASE f.failures = p.start
        BY <1>3, <1>4, <1>5, <1>6, <2>2, <3>1
      <3>2. CASE f.failures > p.start
        BY <1>3, <1>4, <1>5, <1>6, <2>2, <3>2
      <3>3. QED
        BY <1>3, <1>4, <3>1, <3>2
    <2>5. WindowFits(now, g, f, m2, p)
      <3>1. ~OverAt(now, f)
        <4>1. CASE f.failures >= p.limit
          BY <1>1, <2>1, <4>1, Durations DEF OverAt
        <4>2. CASE ~(f.failures >= p.limit)
          BY <1>1, <1>3, <2>1, <2>2, <4>2, Durations DEF OverAt, w
        <4>3. QED
          BY <4>1, <4>2
      <3>2. f.blocked_until = 0 => f.failures < p.limit
        BY <1>1, <1>3, <1>4, <2>1, Durations
      <3>3. f.failures >= p.start /\ f.blocked_until = 0 => Spent(g, Since(w)) <= p.most
        BY <1>3, <1>4, <1>5, <2>4, <3>2
      <3>4. QED
        BY <1>6, <2>2, <2>3, <2>4, <3>1, <3>3 DEF WindowFits, w
    <2>6. ASSUME p.start = p.limit, f.failures >= p.start, NEW x \in Int, x <= now
          PROVE  Spent(h, Since(x)) <= Refilled(p, now - x) + p.start - 1
      <3> DEFINE d == now - x
                 T == Spent(h, Since(x))
      <3>1. d \in Nat /\ d <= d /\ T \in Nat
        BY <1>1, <2>6, PartsSpent
      <3> HIDE DEF d, T
      <3>2. Refilled(p, d) \in Nat /\ p.most <= Refilled(p, d)
        BY <3>1, Refills
      <3>3. CASE f.failures = p.start
        <4>1. Spent(h, Since(w)) <= p.start - 1
          BY <1>3, <1>4, <2>2, <3>3
        <4>2. CASE w <= x
          <5>1. T <= Spent(h, Since(w))
            BY <1>1, <1>3, <2>6, <4>2, PartsCover DEF T
          <5>2. QED
            BY <1>4, <1>5, <3>1, <3>2, <4>1, <5>1 DEF d, T
        <4>3. CASE x < w
          <5> DEFINE e == w - x
          <5>1. e \in Nat /\ e <= d
            BY <1>1, <1>3, <2>6, <4>3 DEF d
          <5>2. Spent(h, Before(x, w)) <= Refilled(p, e) /\ Spent(h, Before(x, w)) \in Nat
            BY <1>1, <1>3, <2>2, <2>6, <4>3, PartsSpent
          <5>3. T <= Spent(h, Before(x, w)) + Spent(h, Since(w))
            <6>1. w \in Int
              BY <1>3
            <6>2. QED
              BY <1>1, <2>6, <6>1, PartsCover DEF T
          <5> HIDE DEF e
          <5>4. Refilled(p, e) \in Nat /\ Refilled(p, e) <= Refilled(p, d)
            BY <3>1, <5>1, Refills
          <5>5. QED
            BY <1>4, <1>5, <3>1, <3>2, <4>1, <5>2, <5>3, <5>4 DEF d, T
        <4>4. QED
          BY <1>3, <2>6, <4>2, <4>3
      <3>4. CASE f.failures > p.start
        <4>1. /\ b # None /\ f.failures = b.failures + 1
          BY <1>4, <2>1, <3>4
        <4> DEFINE v == LockedAt(b)
        <4>2. /\ b.failures \in Nat /\ b.blocked_until \in Nat /\ v \in Int
              /\ b.blocked_until = v + Lockout /\ b.blocked_until <= now
          BY <1>1, <1>9, <4>1, BucketNumbers DEF Blocks
        <4>3. LockFits(now, h, b, n, p)
          BY <4>1 DEF Answers
        <4>4. b.blocked_until # 0
          <5>1. ~(b.failures < p.limit)
            BY <1>4, <2>6, <3>4, <4>1, <4>2
          <5>2. QED
            BY <4>3, <5>1 DEF LockFits
        <4>5. LockedFits(h, b, Open(now, b, n), p)
          BY <4>3, <4>4 DEF LockFits
        <4>6. Open(now, b, n) = 0
          BY <1>1, <4>2 DEF Open
        <4>7. Spent(h, LaterThan(v)) \in Nat /\ Spent(h, LaterThan(v)) <= p.rest
          <5>1. Spent(h, LaterThan(v)) \in Nat
            BY <1>1, PartsSpent
          <5>2. Spent(h, LaterThan(v)) + Open(now, b, n) <= p.rest
            BY <4>5 DEF LockedFits
          <5>3. QED
            BY <1>4, <4>6, <5>1, <5>2
        <4> HIDE DEF v
        <4>8. CASE v < x
          <5>1. T <= Spent(h, LaterThan(v))
            BY <1>1, <2>6, <4>2, <4>8, PartsCover DEF T
          <5>2. QED
            BY <1>4, <3>1, <3>2, <4>7, <5>1 DEF d, T
        <4>9. CASE x <= v
          <5> DEFINE e == v - x
          <5>1. e \in Nat /\ e <= d /\ e + Lockout <= d
            BY <1>1, <2>6, <4>2, <4>9, Durations DEF d
          <5>2. T <= Refilled(p, e) + p.full
            <6>1. Spent(h, Since(x)) + Open(now, b, n) <= Refilled(p, v - x) + p.full
              BY <2>6, <4>5, <4>9 DEF LockedFits, v
            <6>2. QED
              BY <3>1, <4>6, <6>1 DEF T
          <5> HIDE DEF e
          <5>3. Refilled(p, e) \in Nat /\ Refilled(p, e) + p.full <= Refilled(p, d)
            BY <3>1, <5>1, Refills
          <5>4. QED
            BY <1>4, <3>1, <3>2, <5>2, <5>3 DEF d, T
        <4>10. QED
          BY <2>6, <4>2, <4>8, <4>9
      <3>5. QED
        BY <1>3, <1>4, <2>6, <3>3, <3>4
    <2>7. ASSUME f.blocked_until # 0
          PROVE  u = now /\ f.failures >= p.limit /\ f.blocked_until > now
      BY <1>1, <1>3, <2>1, <2>7, Durations
    <2>8. ASSUME f.blocked_until # 0
          PROVE  LockedFits(g, f, n2, p)
      <3>1. /\ u = now /\ f.failures >= p.limit /\ f.failures >= p.start
            /\ n2 <= p.rest
            /\ p.start = p.limit => told + n2 <= p.full - p.start + 1
        BY <1>3, <1>4, <2>7, <2>8
      <3>2. Spent(g, LaterThan(now)) = 0
        <4>1. \A s \in LaterThan(now) : g[s] = 0
          BY <1>1, <1>7, TimeIsNatural DEF LaterThan, Remembered
        <4>2. QED
          BY <1>2, <4>1, PartsOfTime, SpentNothing
      <3>3. p.start < p.limit => Spent(g, Between(w, now)) <= p.full
        <4>1. p.start < p.limit => Spent(g, Since(w)) + m2 <= p.full
          BY <2>4, <3>1
        <4>2. Spent(g, Between(w, now)) <= Spent(g, Since(w)) /\ Spent(g, Between(w, now)) \in Nat
          BY <1>5, <1>6, <3>1
        <4>3. QED
          BY <1>4, <1>5, <4>1, <4>2
      <3>4. ASSUME p.start = p.limit, NEW x \in Int, x <= now
            PROVE  Spent(g, Since(x)) + n2 <= Refilled(p, now - x) + p.full
        <4> DEFINE d == now - x
        <4>1. d \in Nat /\ d <= d
          BY <1>1, <3>4
        <4>2. Spent(h, Since(x)) <= Refilled(p, d) + p.start - 1
          BY <2>6, <3>1, <3>4
        <4> HIDE DEF d
        <4>3. Refilled(p, d) \in Nat
          BY <4>1, Refills
        <4>4. Spent(g, Since(x)) \in Nat /\ Spent(h, Since(x)) \in Nat
          BY <1>1, <1>2, PartsSpent
        <4>5. Spent(g, Since(x)) <= Spent(h, Since(x)) + told
          <5>1. Since(x) \in SUBSET Time
            BY DEF Since
          <5>2. \/ Spent(g, Since(x)) = Spent(h, Since(x)) + told
                \/ Spent(g, Since(x)) = Spent(h, Since(x))
            BY <1>2, <5>1
          <5>3. QED
            BY <4>4, <5>2
        <4>6. QED
          BY <1>4, <3>1, <3>4, <4>2, <4>3, <4>4, <4>5 DEF d
      <3>5. Spent(g, LaterThan(now)) + n2 <= p.rest
        BY <1>4, <3>1, <3>2
      <3>6. QED
        BY <3>1, <3>3, <3>4, <3>5 DEF LockedFits, w, u
    <2>9. LockFits(now, g, f, n2, p)
      <3>1. CASE f.blocked_until = 0
        BY <1>1, <1>3, <1>4, <2>1, <3>1, Durations DEF LockFits
      <3>2. CASE f.blocked_until # 0
        <4>1. Open(now, f, n2) = n2
          BY <2>7, <3>2 DEF Open
        <4>2. w <= u /\ u < w + Window /\ u <= now
          BY <1>1, <1>3, <2>2, <2>7, <3>2
        <4>3. QED
          BY <2>7, <2>8, <3>2, <4>1, <4>2 DEF LockFits, w, u
      <3>3. QED
        BY <3>1, <3>2
    <2>10. QED
      BY <1>7, <2>5, <2>9 DEF Answers, g
  <1>10. QED
    BY <1>8, <1>9

\* Time passes, and answers fall out of the window.
LEMMA AnswersLater ==
    ASSUME NEW t \in Nat, t + 1 \in Time, NEW h, NEW b, FitsAt(t, b), NEW p, CapsFit(p),
           NEW n \in Nat, NEW m \in Nat, Answers(t, h, b, n, m, p), NEW g \in Histories,
           \A s \in Time : g[s] = IF s + Window > t + 1 THEN h[s] ELSE 0
    PROVE  Answers(t + 1, g, b, n, m, p)
  <1>1. h \in Histories
    BY HistoryOf DEF Answers
  <1>2. ASSUME NEW S \in SUBSET Time
        PROVE  Spent(g, S) <= Spent(h, S) /\ Spent(g, S) \in Nat /\ Spent(h, S) \in Nat
    <2>1. \A s \in S : g[s] <= h[s] /\ (g[s] # 0 => s \in S)
      BY <1>1 DEF Histories
    <2>2. QED
      BY <1>1, <2>1, SpentWithin, SpentNat
  <1>3. \A s \in Time : g[s] # 0 => h[s] # 0 /\ t + 1 < s + Window
    BY Durations, TimeIsNatural
  <1>4. Remembered(t + 1, g, b)
    <2>1. \A s \in Time : h[s] # 0 => s <= t /\ b # None /\ s <= b.last_seen
      BY DEF Answers, Remembered
    <2>2. \A s \in Time : s \in Nat
      BY TimeIsNatural
    <2>3. QED
      BY <1>3, <2>1, <2>2 DEF Remembered
  <1>5. CASE b = None
    BY <1>4, <1>5 DEF Answers
  <1>6. CASE b # None
    <2> DEFINE w == b.window_started
               u == LockedAt(b)
               open == Open(t, b, n)
               next == Open(t + 1, b, n)
    <2>1. WindowFits(t, h, b, m, p) /\ LockFits(t, h, b, n, p)
      BY <1>6 DEF Answers
    <2>2. w \in Nat /\ b.failures \in Nat /\ b.blocked_until \in Nat /\ u \in Int
      BY <1>6, BucketNumbers
    <2>3. /\ Spent(g, Since(w)) <= Spent(h, Since(w))
          /\ Spent(g, Between(w, u)) <= Spent(h, Between(w, u))
          /\ Spent(g, Since(w)) \in Nat /\ Spent(h, Since(w)) \in Nat
          /\ Spent(g, Between(w, u)) \in Nat /\ Spent(h, Between(w, u)) \in Nat
      BY <1>2, PartsOfTime
    <2>4. g[t + 1] = 0
      <3>1. h[t + 1] # 0 => t + 1 <= t
        BY DEF Answers, Remembered
      <3>2. QED
        BY <1>3, <3>1
    <2>5. open \in Nat /\ next \in Nat /\ next <= open
      BY <2>2 DEF Open
    <2> HIDE DEF w, u, open, next
    <2>6. ASSUME NEW x \in Int, x <= w
          PROVE  Spent(g, Before(x, w)) <= Refilled(p, w - x)
      <3> DEFINE d == w - x
      <3>1. d \in Nat /\ d <= d
        BY <2>2, <2>6
      <3>2. Spent(h, Before(x, w)) <= Refilled(p, d)
        BY <2>1, <2>6 DEF WindowFits, w
      <3> HIDE DEF d
      <3>3. Refilled(p, d) \in Nat
        BY <3>1, Refills
      <3>4. Before(x, w) \in SUBSET Time
        BY DEF Before
      <3>5. QED
        BY <1>2, <3>2, <3>3, <3>4 DEF d
    <2>7. WindowFits(t + 1, g, b, m, p)
      <3>1. /\ b.failures < p.start => Spent(h, Since(w)) <= b.failures
            /\ p.start < p.limit /\ b.failures >= p.start /\ w + Window > t =>
                  Spent(h, Since(w)) + m <= p.full
            /\ b.failures >= p.start /\ b.blocked_until = 0 => Spent(h, Since(w)) <= p.most
        BY <2>1 DEF WindowFits, w
      <3>2. /\ b.failures < p.start => Spent(g, Since(w)) <= b.failures
            /\ p.start < p.limit /\ b.failures >= p.start /\ w + Window > t + 1 =>
                  Spent(g, Since(w)) + m <= p.full
            /\ b.failures >= p.start /\ b.blocked_until = 0 => Spent(g, Since(w)) <= p.most
        BY <2>2, <2>3, <3>1, CapsAre, Durations
      <3>3. QED
        BY <2>4, <2>6, <3>2 DEF WindowFits, w
    <2>8. LockFits(t + 1, g, b, n, p)
      <3>1. /\ b.blocked_until = 0 => b.failures < p.limit
            /\ b.blocked_until # 0 =>
                  /\ b.failures >= p.limit /\ w <= u /\ u < w + Window /\ u <= t
                  /\ LockedFits(h, b, open, p)
        BY <2>1 DEF LockFits, w, u, open
      <3>2. ASSUME b.blocked_until # 0 PROVE LockedFits(g, b, next, p)
        <4>1. LockedFits(h, b, open, p)
          BY <3>1, <3>2
        <4>2. \A S \in SUBSET Time : Spent(g, S) + next <= Spent(h, S) + open
          BY <1>2, <2>5
        <4>3. p.start < p.limit => Spent(g, Between(w, u)) <= p.full
          <5>1. p.start < p.limit => Spent(h, Between(w, u)) <= p.full
            BY <4>1 DEF LockedFits, w, u
          <5>2. QED
            BY <2>3, <5>1, CapsAre
        <4>4. QED
          BY <1>1, <1>6, <2>5, <4>1, <4>2, <4>3, LockKept DEF w, u
      <3>3. u <= t => u <= t + 1
        BY <2>2
      <3>4. QED
        BY <3>1, <3>2, <3>3 DEF LockFits, w, u, next
    <2>9. QED
      BY <1>4, <2>7, <2>8 DEF Answers
  <1>7. QED
    BY <1>5, <1>6

(***************************************************************************)
(* What the caps come to: what a window less a tick ago may have held, and *)
(* one window or lock more.                                                *)
(***************************************************************************)
LEMMA AnswersCapped ==
    ASSUME NEW t \in Nat, NEW h, NEW b, FitsAt(t, b), NEW p, CapsFit(p),
           NEW n \in Nat, NEW m \in Nat, Answers(t, h, b, n, m, p)
    PROVE  Total(h) <= Refilled(p, Window - 1) + p.full
  <1> DEFINE x == t - Window + 1
             d == Window - 1
             T == Spent(h, Since(x))
  <1>1. h \in Histories
    BY HistoryOf DEF Answers
  <1>2. /\ p.start \in Nat /\ p.limit \in Nat /\ p.most \in Nat /\ p.full \in Nat /\ p.rest \in Int
        /\ 1 <= p.start /\ p.start <= p.limit
        /\ p.rest <= p.most /\ p.start - 1 <= p.most /\ p.start - 1 <= p.full
        /\ p.start = p.limit \/ (p.start < p.limit /\ p.full <= p.most)
    BY CapsAre
  <1>3. x \in Int /\ d \in Nat /\ d <= d /\ x + d = t /\ x <= t
    BY Durations
  <1>4. Total(h) <= T /\ Total(h) \in Nat /\ T \in Nat
    <2>1. DOMAIN h = Time
      BY <1>1 DEF Histories
    <2>2. Total(h) = Spent(h, Time) /\ Spent(h, Time) \in Nat
      BY <1>1, <2>1, SpentNat DEF Total, SumFunction, Spent
    <2>3. \A s \in Time : h[s] # 0 => s \in Since(x)
      BY TimeIsNatural, Durations DEF Answers, Remembered, Since
    <2> HIDE DEF x
    <2>4. Spent(h, Time) <= T
      BY <1>1, <2>3, PartsOfTime, SpentLess
    <2>5. QED
      BY <1>1, <2>2, <2>4, PartsSpent
  <1> HIDE DEF x, d, T
  <1>5. Refilled(p, d) \in Nat /\ p.most <= Refilled(p, d)
    BY <1>3, Refills
  <1>6. CASE b = None
    <2>1. \A s \in Since(x) : h[s] = 0
      BY <1>6 DEF Answers, Remembered, Since
    <2>2. T = 0
      BY <1>1, <2>1, PartsOfTime, SpentNothing DEF T
    <2>3. QED
      BY <1>2, <1>4, <1>5, <2>2 DEF d
  <1>7. CASE b # None
    <2> DEFINE w == b.window_started
               u == LockedAt(b)
    <2>1. WindowFits(t, h, b, m, p) /\ LockFits(t, h, b, n, p) /\ Remembered(t, h, b)
      BY <1>7 DEF Answers
    <2>2. /\ w \in Nat /\ w \in Int /\ w <= t /\ b.failures \in Nat /\ b.blocked_until \in Nat
          /\ u \in Int
      BY <1>7, BucketNumbers
    <2>3. /\ Spent(h, Since(w)) \in Nat /\ Spent(h, LaterThan(u)) \in Nat
          /\ Spent(h, Between(w, u)) \in Nat
      BY <1>1, PartsSpent
    <2>4. Open(t, b, n) \in Nat
      BY DEF Open
    <2> HIDE DEF w, u
    <2>5. ASSUME Spent(h, Since(w)) <= p.full PROVE Total(h) <= Refilled(p, d) + p.full
      <3>1. CASE w <= x
        <4>1. T <= Spent(h, Since(w))
          BY <1>1, <1>3, <2>2, <3>1, PartsCover DEF T
        <4>2. QED
          BY <1>2, <1>4, <1>5, <2>3, <2>5, <4>1
      <3>2. CASE x < w
        <4> DEFINE e == w - x
        <4>1. e \in Nat /\ e <= d
          BY <1>3, <2>2, <3>2
        <4>2. Spent(h, Before(x, w)) <= Refilled(p, e) /\ Spent(h, Before(x, w)) \in Nat
          <5>1. Spent(h, Before(x, w)) <= Refilled(p, w - x)
            BY <1>3, <2>1, <2>2, <3>2 DEF WindowFits, w
          <5>2. QED
            BY <1>1, <5>1, PartsSpent
        <4>3. T <= Spent(h, Before(x, w)) + Spent(h, Since(w))
          BY <1>1, <1>3, <2>2, PartsCover DEF T
        <4> HIDE DEF e
        <4>4. Refilled(p, e) \in Nat /\ Refilled(p, e) <= Refilled(p, d)
          BY <1>3, <4>1, Refills
        <4>5. QED
          BY <1>2, <1>4, <1>5, <2>3, <2>5, <4>2, <4>3, <4>4
      <3>3. QED
        BY <1>3, <2>2, <3>1, <3>2
    <2>6. CASE b.failures < p.start
      <3>1. Spent(h, Since(w)) <= b.failures
        BY <2>1, <2>6 DEF WindowFits, w
      <3>2. Spent(h, Since(w)) <= p.full
        BY <1>2, <2>2, <2>3, <2>6, <3>1
      <3>3. QED
        BY <2>5, <3>2 DEF d
    <2>7. CASE b.failures >= p.start /\ b.blocked_until # 0 /\ p.start = p.limit
      <3>1. LockedFits(h, b, Open(t, b, n), p) /\ u <= t
        BY <2>1, <2>7 DEF LockFits, u
      <3>2. CASE u < x
        <4>1. T <= Spent(h, LaterThan(u))
          BY <1>1, <1>3, <2>2, <3>2, PartsCover DEF T
        <4>2. Spent(h, LaterThan(u)) + Open(t, b, n) <= p.rest
          BY <3>1 DEF LockedFits, u
        <4>3. QED
          BY <1>2, <1>4, <1>5, <2>3, <2>4, <4>1, <4>2 DEF d
      <3>3. CASE x <= u
        <4> DEFINE e == u - x
        <4>1. e \in Nat /\ e <= d
          BY <1>3, <2>2, <3>1, <3>3
        <4>2. T + Open(t, b, n) <= Refilled(p, e) + p.full
          BY <1>3, <2>7, <3>1, <3>3 DEF LockedFits, u, T
        <4> HIDE DEF e
        <4>3. Refilled(p, e) \in Nat /\ Refilled(p, e) <= Refilled(p, d)
          BY <1>3, <4>1, Refills
        <4>4. QED
          BY <1>2, <1>4, <1>5, <2>4, <4>2, <4>3 DEF d
      <3>4. QED
        BY <1>3, <2>2, <3>2, <3>3
    <2>8. CASE b.failures >= p.start /\ b.blocked_until # 0 /\ p.start < p.limit
      <3>1. CASE w + Window > t
        <4>1. Spent(h, Since(w)) + m <= p.full
          BY <2>1, <2>8, <3>1 DEF WindowFits, w
        <4>2. Spent(h, Since(w)) <= p.full
          BY <1>2, <2>3, <4>1
        <4>3. QED
          BY <2>5, <4>2 DEF d
      <3>2. CASE w + Window <= t
        <4>1. T <= Spent(h, Since(w))
          BY <1>3, <2>1, <2>2, <3>2, WindowCovers DEF T
        <4>2. Spent(h, Since(w)) <= Spent(h, Between(w, u)) + Spent(h, LaterThan(u))
          BY <1>1, <1>3, <2>2, PartsCover
        <4>3. LockedFits(h, b, Open(t, b, n), p)
          BY <2>1, <2>8 DEF LockFits
        <4>4. /\ Spent(h, Between(w, u)) <= p.full
              /\ Spent(h, LaterThan(u)) + Open(t, b, n) <= p.rest
          BY <2>8, <4>3 DEF LockedFits, w, u
        <4>5. QED
          BY <1>2, <1>4, <1>5, <2>3, <2>4, <4>1, <4>2, <4>4 DEF d
      <3>3. QED
        BY <2>2, <3>1, <3>2, Durations
    <2>9. CASE b.failures >= p.start /\ b.blocked_until = 0
      <3>1. b.failures < p.limit /\ Spent(h, Since(w)) <= p.most
        BY <2>1, <2>9 DEF WindowFits, LockFits, w
      <3>2. p.start < p.limit /\ p.full <= p.most
        BY <1>2, <2>2, <2>9, <3>1
      <3>3. CASE w + Window > t
        <4>1. Spent(h, Since(w)) + m <= p.full
          BY <2>1, <2>9, <3>2, <3>3 DEF WindowFits, w
        <4>2. Spent(h, Since(w)) <= p.full
          BY <1>2, <2>3, <4>1
        <4>3. QED
          BY <2>5, <4>2 DEF d
      <3>4. CASE w + Window <= t
        <4>1. T <= Spent(h, Since(w))
          BY <1>3, <2>1, <2>2, <3>4, WindowCovers DEF T
        <4>2. QED
          BY <1>2, <1>4, <1>5, <2>3, <3>1, <4>1 DEF d
      <3>5. QED
        BY <2>2, <3>3, <3>4, Durations
    <2>10. QED
      BY <1>2, <2>2, <2>6, <2>7, <2>8, <2>9
  <1>8. QED
    BY <1>6, <1>7

-----------------------------------------------------------------------------
(* All histories.                                                          *)

\* A bucket is left alone, or dropped when it is over.
Dropped(b, c) ==
    \/ c = b
    \/ /\ c = None /\ b # None
       /\ \/ ~Blocks(b) /\ now - b.last_seen > Window + Lockout
          \/ b.last_seen + Window + Lockout < now /\ b.blocked_until < now

LEMMA DroppedAnswers ==
    ASSUME now \in Time, NEW h, NEW b, NEW c, NEW n, NEW m, NEW p,
           Answers(now, h, b, n, m, p), FitsAt(now, b), Dropped(b, c)
    PROVE  Answers(now, h, c, n, m, p) /\ FitsAt(now, c)
  BY AnswersDropped, NoneFits DEF Dropped

LEMMA PruneDrops ==
    ASSUME NEW S, NEW map, FittedAt(now, S, map), NEW x \in S
    PROVE  Dropped(map[x], prune(map)[x])
  BY DEF FittedAt, prune, Dropped

LEMMA CleanupDrops ==
    ASSUME NEW S, NEW map, FittedAt(now, S, map), NEW x \in S
    PROVE  Dropped(map[x], cleanup_expired(map)[x])
  BY DEF FittedAt, cleanup_expired, Dropped

LEMMA ToldIs ==
    ASSUME NEW h, NEW keys, NEW lost, NEW x \in DOMAIN h
    PROVE  Told(h, keys, lost)[x] = AnsweredNow(IF x \in lost THEN Never ELSE h[x],
                                                IF x \in keys THEN 1 ELSE 0)
  BY DEF Told, AnsweredNow

LEMMA RecentIs ==
    ASSUME NEW S, NEW h \in [S -> Histories], NEW x \in S, now \in Nat
    PROVE  /\ Recent(h)[x] \in Histories
           /\ \A s \in Time : Recent(h)[x][s] = IF s + Window > now + 1 THEN h[x][s] ELSE 0
  BY DEF Recent, Histories

-----------------------------------------------------------------------------
(* Other requests.                                                         *)

LEMMA ServedCapsFit ==
    ASSUME LoginInvariant
    PROVE  CapsFit(ServedCaps) /\ RateCap \in Nat /\ RateCap <= RateLimit + 1
  <1>1. RateCap \in Nat /\ 1 <= RateCap /\ RateCap <= RateLimit + 1
    BY ProtectionConstants DEF ProtectionConstants, RateCap
  <1>2. QED
    BY <1>1 DEF CapsFit, Caps, ServedCaps

LEMMA ServedNext ==
    ASSUME backend' = backend,
           \A i \in Ips : Answers(now', served'[i], rates'[i], 0, 0, ServedCaps)
    PROVE  ServedFits'
  BY DEF ServedFits, ServedCaps, RateCap

LEMMA ServedRequest ==
    ASSUME LoginInvariant, ServedFits, NEW i \in Ips, check_security_request(i)
    PROVE  ServedFits'
  <1>0. /\ now \in Time /\ FittedAt(now, Ips, rates) /\ backend' = backend /\ now' = now
        /\ served \in [Ips -> Histories]
    BY DEF LoginInvariant, ClockTyped, BucketsFit, HistoryTyped, Histories, check_security_request
  <1>1. PICK lost :
           LET b == RateRecorded(Without(rates, lost)[i])
               recorded == [Without(rates, lost) EXCEPT ![i] = b]
           IN  /\ rates' = IF backend = "Memory" THEN recorded ELSE cleanup_expired(recorded)
               /\ served' = Told(served, IF Blocks(b) THEN {} ELSE {i}, lost)
    BY DEF check_security_request
  <1> DEFINE left == Without(rates, lost)
             b == RateRecorded(left[i])
             recorded == [left EXCEPT ![i] = b]
             keys == IF Blocks(b) THEN {} ELSE {i}
             p == ServedCaps
  <1>2. /\ rates' = IF backend = "Memory" THEN recorded ELSE cleanup_expired(recorded)
        /\ served' = Told(served, keys, lost)
    BY <1>1
  <1>3. FittedAt(now, Ips, left)
    BY <1>0, WithoutKeeps
  <1>4. CapsFit(p) /\ p.limit = RateCap /\ p.start = RateCap /\ p.full = RateCap - 1
        /\ p.rest = 0 /\ RateCap \in Nat
    BY ServedCapsFit DEF ServedCaps
  <1>5. OneMore(left[i], b, RateCap)
    <2>1. FitsAt(now, left[i])
      BY <1>3 DEF FittedAt
    <2> HIDE DEF left
    <2>2. QED
      BY <1>0, <2>1, OneMoreInMemory, OneMoreInTable DEF RateRecorded, RateCap
  <1>6. /\ recorded[i] = b
        /\ \A x \in Ips : x # i => recorded[x] = left[x]
    BY <1>3 DEF FittedAt
  <1>7. \A x \in Ips : left[x] = IF x \in lost THEN None ELSE rates[x]
    BY <1>0 DEF Without, FittedAt
  <1>8. FittedAt(now, Ips, recorded)
    BY <1>3, <1>5 DEF FittedAt, OneMore
  <1> HIDE DEF left, b, recorded, p
  <1>9. ASSUME NEW x \in Ips
        PROVE  Answers(now, served'[x], rates'[x], 0, 0, p)
    <2> DEFINE h == IF x \in lost THEN Never ELSE served[x]
               told == IF x \in keys THEN 1 ELSE 0
    <2>1. served'[x] = AnsweredNow(h, told)
      BY <1>0, <1>2, ToldIs
    <2>2. Answers(now, h, left[x], 0, 0, p) /\ FitsAt(now, left[x])
      <3>1. Answers(now, served[x], rates[x], 0, 0, p)
        BY DEF ServedFits, p
      <3>2. QED
        BY <1>3, <1>7, <3>1, NeverAnswers DEF FittedAt
    <2>3. told \in {0, 1}
      OBVIOUS
    <2>4. Answers(now, AnsweredNow(h, told), recorded[x], 0, 0, p)
      <3>1. CASE x = i
        <4>1. b.failures >= p.start => told = 0
          <5>1. /\ b.failures \in Nat /\ b.blocked_until \in Nat /\ now \in Nat /\ b # None
            BY <1>0, <1>5, BucketParts, TimeIsNatural DEF OneMore
          <5>2. b.failures >= p.start => Blocks(b)
            <6>1. SUFFICES ASSUME b.failures >= p.start PROVE Blocks(b)
              OBVIOUS
            <6>2. CASE Blocks(left[i])
              BY <1>5, <5>1, <6>2 DEF OneMore, Blocks
            <6>3. CASE ~Blocks(left[i])
              <7>1. b.blocked_until = now + Lockout
                BY <1>4, <1>5, <5>1, <6>1, <6>3 DEF OneMore
              <7>2. QED
                BY <5>1, <7>1, Durations DEF Blocks
            <6>4. QED
              BY <6>2, <6>3
          <5>3. QED
            BY <5>2
        <4> HIDE DEF told, h
        <4>2. b.failures >= p.start =>
                 /\ told + 0 <= 0 /\ told + 0 <= p.full - p.start + 1 /\ 0 <= p.rest
                 /\ p.start = p.limit => told + 0 <= p.full - p.start + 1
          BY <1>4, <4>1
        <4>3. OneMore(left[x], b, p.limit)
          BY <1>4, <1>5, <3>1
        <4>4. Answers(now, AnsweredNow(h, told), b, 0, 0, p)
          BY <1>0, <1>4, <2>2, <2>3, <4>2, <4>3, AnswersRecorded
        <4>5. QED
          BY <1>6, <3>1, <4>4
      <3>2. CASE x # i
        <4>1. told = 0
          BY <3>2
        <4> HIDE DEF h, told
        <4>2. QED
          BY <1>6, <2>2, <3>2, <4>1 DEF AnsweredNow
      <3>3. QED
        BY <3>1, <3>2
    <2>5. Dropped(recorded[x], rates'[x])
      BY <1>2, <1>8, CleanupDrops DEF Dropped
    <2>6. FitsAt(now, recorded[x])
      BY <1>8 DEF FittedAt
    <2> HIDE DEF h, told
    <2>7. QED
      BY <1>0, <2>1, <2>4, <2>5, <2>6, DroppedAnswers
  <1>10. QED
    BY <1>0, <1>9, ServedNext DEF p

LEMMA ServedTick ==
    ASSUME LoginInvariant, LoginInvariant', ServedFits, Tick
    PROVE  ServedFits'
  <1>1. /\ now \in Nat /\ now' = now + 1 /\ now + 1 \in Time /\ backend' = backend
        /\ rates' = rates /\ served' = Recent(served) /\ served \in [Ips -> Histories]
    BY TimeIsNatural DEF LoginInvariant, ClockTyped, HistoryTyped, Histories, Tick, protection
  <1>2. ASSUME NEW i \in Ips
        PROVE  Answers(now', served'[i], rates'[i], 0, 0, ServedCaps)
    <2>1. FitsAt(now, rates[i]) /\ Answers(now, served[i], rates[i], 0, 0, ServedCaps)
      BY DEF LoginInvariant, BucketsFit, FittedAt, ServedFits
    <2>2. /\ Recent(served)[i] \in Histories
          /\ \A s \in Time : Recent(served)[i][s]
                              = IF s + Window > now + 1 THEN served[i][s] ELSE 0
      BY <1>1, RecentIs
    <2> DEFINE h == served[i]
               b == rates[i]
               g == Recent(served)[i]
               p == ServedCaps
    <2>3. CapsFit(p)
      BY ServedCapsFit
    <2> HIDE DEF h, b, g, p
    <2>4. FitsAt(now, b) /\ Answers(now, h, b, 0, 0, p) /\ g \in Histories
      BY <2>1, <2>2 DEF h, b, g, p
    <2>5. \A s \in Time : g[s] = IF s + Window > now + 1 THEN h[s] ELSE 0
      BY <2>2 DEF h, g
    <2>6. Answers(now + 1, g, b, 0, 0, p)
      BY <1>1, <2>3, <2>4, <2>5, AnswersLater
    <2>7. QED
      BY <1>1, <2>6 DEF h, b, g, p
  <1>3. QED
    BY <1>1, <1>2, ServedNext

LEMMA ServedRestart ==
    ASSUME LoginInvariant, ServedFits, Restart
    PROVE  ServedFits'
  <1>1. now' = now /\ backend' = backend
    BY DEF Restart
  <1>2. ASSUME NEW i \in Ips
        PROVE  Answers(now', served'[i], rates'[i], 0, 0, ServedCaps)
    <2>1. CASE backend = "Memory"
      <3>1. rates'[i] = None /\ served'[i] = Never
        BY <2>1 DEF Restart
      <3>2. QED
        BY <3>1, NeverAnswers
    <2>2. CASE backend # "Memory"
      BY <1>1, <2>2 DEF Restart, protection, history, ServedFits
    <2>3. QED
      BY <2>1, <2>2
  <1>3. QED
    BY <1>1, <1>2, ServedNext

LEMMA ServedSame ==
    ASSUME ServedFits, UNCHANGED <<backend, now, rates, served>>
    PROVE  ServedFits'
  BY ServedNext DEF ServedFits

-----------------------------------------------------------------------------
(* Failed logins.                                                          *)

LEMMA FewerCounted ==
    ASSUME NEW T \in SUBSET Requests, NEW S, S \subseteq T
    PROVE  /\ Cardinality(S) \in Nat /\ Cardinality(T) \in Nat /\ Cardinality(Requests) \in Nat
           /\ Cardinality(S) <= Cardinality(T) /\ Cardinality(T) <= Cardinality(Requests)
  <1>1. IsFiniteSet(Requests)
    BY ProtectionConstants DEF ProtectionConstants
  <1>2. IsFiniteSet(T) /\ IsFiniteSet(S)
    BY <1>1, FS_Subset
  <1>3. QED
    BY <1>1, <1>2, FS_Subset, FS_CardinalityType

LEMMA OneLess ==
    ASSUME NEW T \in SUBSET Requests, NEW S, S \subseteq T, NEW r \in T, r \notin S
    PROVE  Cardinality(S) + 1 <= Cardinality(T)
  <1> DEFINE U == T \ {r}
  <1>1. U \in SUBSET Requests /\ S \subseteq U
    OBVIOUS
  <1>2. IsFiniteSet(T)
    BY ProtectionConstants, FS_Subset DEF ProtectionConstants
  <1>3. Cardinality(U) = Cardinality(T) - 1
    BY <1>2, FS_RemoveElement
  <1> HIDE DEF U
  <1>4. Cardinality(S) <= Cardinality(U) /\ Cardinality(S) \in Nat /\ Cardinality(U) \in Nat
        /\ Cardinality(T) \in Nat
    BY <1>1, FewerCounted
  <1>5. QED
    BY <1>3, <1>4

LEMMA InFlightAre ==
    ASSUME NEW k
    PROVE  /\ InFlight(k) \in SUBSET Requests /\ Unasked(k) \in SUBSET InFlight(k)
           /\ Unasked(k) \in SUBSET Requests
           /\ (InFlight(k))' \in SUBSET Requests /\ (Unasked(k))' \in SUBSET (InFlight(k))'
           /\ (Unasked(k))' \in SUBSET Requests
  BY DEF InFlight, Unasked

\* What becomes of a bucket when a failure is recorded: it may be dropped or
\* evicted before, is counted if the failure is one of its key, and may be
\* dropped afterwards.
FailedAs(k, b, c, limit, lost, keys) ==
    \E kept, f :
       /\ Dropped(b, kept)
       /\ IF k \in keys THEN OneMore(IF k \in lost THEN None ELSE kept, f, limit)
                        ELSE f = IF k \in lost THEN None ELSE kept
       /\ Dropped(f, c)

\* An answer is one of the logins that were under way.
FailedStep(k, h, b, c, lost, keys, told, n, m, n2, m2, p) ==
    /\ FitsAt(now, b) /\ CapsFit(p) /\ Answers(now, h, b, n, m, p)
    /\ FailedAs(k, b, c, p.limit, lost, keys)
    /\ told \in {0, 1} /\ n \in Nat /\ m \in Nat /\ n2 \in Nat /\ m2 \in Nat
    /\ k \in keys => /\ told + n2 <= n /\ told + m2 <= m
                     /\ told + m2 <= p.full - p.start + 1 /\ n2 <= p.rest
                     /\ p.start = p.limit => told + n2 <= p.full - p.start + 1
    /\ k \notin keys => told = 0 /\ n2 = n /\ m2 = m

LEMMA FailedAnswers ==
    ASSUME now \in Time, NEW k, NEW h, NEW b, NEW c, NEW lost, NEW keys, NEW told,
           NEW n, NEW m, NEW n2, NEW m2, NEW p,
           FailedStep(k, h, b, c, lost, keys, told, n, m, n2, m2, p)
    PROVE  Answers(now, AnsweredNow(IF k \in lost THEN Never ELSE h, told), c, n2, m2, p)
  <1>0. /\ FitsAt(now, b) /\ CapsFit(p) /\ Answers(now, h, b, n, m, p)
        /\ FailedAs(k, b, c, p.limit, lost, keys)
        /\ told \in {0, 1} /\ n \in Nat /\ m \in Nat /\ n2 \in Nat /\ m2 \in Nat
        /\ k \in keys => /\ told + n2 <= n /\ told + m2 <= m
                         /\ told + m2 <= p.full - p.start + 1 /\ n2 <= p.rest
                         /\ p.start = p.limit => told + n2 <= p.full - p.start + 1
        /\ k \notin keys => told = 0 /\ n2 = n /\ m2 = m
    BY DEF FailedStep
  <1>1. PICK kept, f :
           /\ Dropped(b, kept)
           /\ IF k \in keys THEN OneMore(IF k \in lost THEN None ELSE kept, f, p.limit)
                            ELSE f = IF k \in lost THEN None ELSE kept
           /\ Dropped(f, c)
    BY <1>0 DEF FailedAs
  <1> DEFINE from == IF k \in lost THEN None ELSE kept
             g == IF k \in lost THEN Never ELSE h
  <1>2. Answers(now, g, from, n, m, p) /\ FitsAt(now, from)
    BY <1>0, <1>1, DroppedAnswers, NeverAnswers, NoneFits
  <1>3. IF k \in keys THEN OneMore(from, f, p.limit) ELSE f = from
    BY <1>1
  <1> HIDE DEF from, g
  <1>4. Answers(now, AnsweredNow(g, told), f, n2, m2, p) /\ FitsAt(now, f)
    <2>1. CASE k \in keys
      BY <1>0, <1>2, <1>3, <2>1, AnswersRecorded DEF OneMore
    <2>2. CASE k \notin keys
      BY <1>0, <1>2, <1>3, <2>2 DEF AnsweredNow
    <2>3. QED
      BY <2>1, <2>2
  <1>5. QED
    BY <1>1, <1>4, DroppedAnswers DEF g

\* A failure is recorded, some keys are lost, and it is answered or not.
FailedWith(r, lost, answered) ==
    \A k \in Keys :
       LET keys == {target[r], IpOf(target[r])}
       IN  /\ FailedAs(k, buckets[k], buckets'[k], LimitOf(k), lost, keys)
           /\ guesses'[k] = AnsweredNow(IF k \in lost THEN Never ELSE guesses[k],
                                        IF k \in keys /\ answered THEN 1 ELSE 0)
           /\ unsolved'[k] = AnsweredNow(IF k \in lost THEN Never ELSE unsolved[k],
                                         IF k \in keys /\ answered /\ ~solved[r] THEN 1 ELSE 0)

LEMMA FailureIs ==
    ASSUME LoginInvariant, NEW r \in Requests, RecordFailure(r)
    PROVE  \E lost : \E answered \in BOOLEAN : FailedWith(r, lost, answered)
  <1> DEFINE keys == {target[r], IpOf(target[r])}
  <1>1. /\ now \in Time /\ FittedAt(now, Keys, buckets)
        /\ DOMAIN guesses = Keys /\ DOMAIN unsolved = Keys
    BY DEF LoginInvariant, ClockTyped, BucketsFit, HistoryTyped
  <1>2. ASSUME NEW lost, Answered(r, lost), NEW k \in Keys
        PROVE  /\ guesses'[k] = AnsweredNow(IF k \in lost THEN Never ELSE guesses[k],
                                            IF k \in keys THEN 1 ELSE 0)
               /\ unsolved'[k] = AnsweredNow(IF k \in lost THEN Never ELSE unsolved[k],
                                             IF k \in keys /\ ~solved[r] THEN 1 ELSE 0)
    <2> DEFINE asked == IF solved[r] THEN {} ELSE keys
    <2>1. guesses' = Told(guesses, keys, lost) /\ unsolved' = Told(unsolved, asked, lost)
      BY <1>2 DEF Answered
    <2>2. k \in asked <=> k \in keys /\ ~solved[r]
      OBVIOUS
    <2> HIDE DEF keys, asked
    <2>3. /\ guesses'[k] = AnsweredNow(IF k \in lost THEN Never ELSE guesses[k],
                                       IF k \in keys THEN 1 ELSE 0)
          /\ unsolved'[k] = AnsweredNow(IF k \in lost THEN Never ELSE unsolved[k],
                                        IF k \in asked THEN 1 ELSE 0)
      BY <1>1, <2>1, ToldIs
    <2>4. QED
      BY <2>2, <2>3
  <1>3. CASE backend = "Memory"
    <2>1. PICK login \in make_room(prune(buckets), LoginKeys),
               ip \in make_room(prune(buckets), IpKeys) :
             /\ buckets' = Recorded(Without(prune(buckets), login \cup ip), target[r],
                                    record_failure_state)
             /\ Answered(r, login \cup ip)
      BY <1>3 DEF RecordFailure, RecordFailureInMemory
    <2> DEFINE lost == login \cup ip
               kept == prune(buckets)
               left == Without(kept, lost)
    <2>2. FittedAt(now, Keys, kept) /\ \A k \in Keys : Dropped(buckets[k], kept[k])
      BY <1>1, PruneKeeps, PruneDrops
    <2>3. buckets' = Recorded(left, target[r], record_failure_state) /\ Answered(r, lost)
      BY <2>1
    <2> HIDE DEF lost, kept
    <2>4. /\ FittedAt(now, Keys, left)
          /\ \A k \in Keys : left[k] = IF k \in lost THEN None ELSE kept[k]
      BY <2>2, WithoutKeeps, ZenonT(60) DEF Without, FittedAt
    <2> HIDE DEF left
    <2>5. ASSUME NEW k \in Keys
          PROVE  FailedAs(k, buckets[k], buckets'[k], LimitOf(k), lost, keys)
      <3>1. buckets'[k] = IF k \in keys THEN record_failure_state(left[k], LimitOf(k)) ELSE left[k]
        BY <2>3, <2>4 DEF Recorded, FittedAt
      <3>2. k \in keys => OneMore(left[k], buckets'[k], LimitOf(k))
        BY <1>1, <2>4, <3>1, OneMoreInMemory DEF FittedAt
      <3> HIDE DEF keys
      <3>3. QED
        BY <2>2, <2>4, <3>1, <3>2 DEF FailedAs, Dropped
    <2>6. \A k \in Keys : /\ guesses'[k] = AnsweredNow(IF k \in lost THEN Never ELSE guesses[k],
                                                       IF k \in keys THEN 1 ELSE 0)
                          /\ unsolved'[k] = AnsweredNow(IF k \in lost THEN Never ELSE unsolved[k],
                                                        IF k \in keys /\ ~solved[r] THEN 1 ELSE 0)
      BY <1>2, <2>3
    <2>7. FailedWith(r, lost, TRUE)
      BY <2>5, <2>6 DEF FailedWith
    <2>8. QED
      BY <2>7
  <1>4. CASE backend # "Memory"
    <2> DEFINE recorded == Recorded(buckets, target[r], upsert_failure_bucket)
    <2>1. /\ buckets' = cleanup_expired(recorded)
          /\ Answered(r, {}) \/ UNCHANGED <<guesses, unsolved>>
      BY <1>4 DEF RecordFailure, RecordFailureInPostgres
    <2>2. FittedAt(now, Keys, recorded)
      <3>1. IF backend = "Memory" THEN recorded = Recorded(buckets, target[r], record_failure_state)
                                  ELSE recorded = Recorded(buckets, target[r], upsert_failure_bucket)
        BY <1>4
      <3> HIDE DEF recorded
      <3>2. QED
        BY <1>1, <3>1, RecordedCounts
    <2>3. ASSUME NEW k \in Keys
          PROVE  FailedAs(k, buckets[k], buckets'[k], LimitOf(k), {}, keys)
      <3>1. recorded[k] = IF k \in keys THEN Upserted(buckets[k], LimitOf(k)) ELSE buckets[k]
        BY <1>1 DEF Recorded, upsert_failure_bucket, FittedAt
      <3>2. k \in keys => OneMore(buckets[k], recorded[k], LimitOf(k))
        BY <1>1, <3>1, OneMoreInTable DEF FittedAt
      <3> HIDE DEF keys, recorded
      <3>3. Dropped(recorded[k], buckets'[k])
        BY <2>1, <2>2, CleanupDrops
      <3>4. Dropped(buckets[k], buckets[k])
        BY DEF Dropped
      <3>5. QED
        BY <3>1, <3>2, <3>3, <3>4 DEF FailedAs
    <2>4. CASE Answered(r, {})
      <3>1. \A k \in Keys : /\ guesses'[k] = AnsweredNow(IF k \in {} THEN Never ELSE guesses[k],
                                                         IF k \in keys THEN 1 ELSE 0)
                            /\ unsolved'[k] = AnsweredNow(IF k \in {} THEN Never ELSE unsolved[k],
                                                          IF k \in keys /\ ~solved[r] THEN 1 ELSE 0)
        BY <1>2, <2>4
      <3>2. FailedWith(r, {}, TRUE)
        BY <2>3, <3>1 DEF FailedWith
      <3>3. QED
        BY <3>2
    <2>5. CASE UNCHANGED <<guesses, unsolved>>
      <3>1. \A k \in Keys : /\ guesses'[k] = AnsweredNow(IF k \in {} THEN Never ELSE guesses[k], 0)
                            /\ unsolved'[k] = AnsweredNow(IF k \in {} THEN Never ELSE unsolved[k], 0)
        BY <2>5 DEF AnsweredNow
      <3>2. FailedWith(r, {}, FALSE)
        BY <2>3, <3>1 DEF FailedWith
      <3>3. QED
        BY <3>2
    <2>6. QED
      BY <2>1, <2>4, <2>5
  <1>5. QED
    BY <1>3, <1>4

LEMMA LargerOf ==
    ASSUME NEW a \in Nat, NEW b \in Nat
    PROVE  /\ Max({a, b}) \in Nat /\ a <= Max({a, b}) /\ b <= Max({a, b})
           /\ Max({a, b}) = a \/ Max({a, b}) = b
  <1> DEFINE M == Max({a, b})
  <1>1. \E x \in {a, b} : \A y \in {a, b} : x >= y
    OBVIOUS
  <1>2. M \in {a, b} /\ \A y \in {a, b} : M >= y
    BY <1>1 DEF Max
  <1> HIDE DEF M
  <1>3. QED
    BY <1>2 DEF M

LEMMA RequestsCounted == Cardinality(Requests) \in Nat
  BY ProtectionConstants, FS_CardinalityType DEF ProtectionConstants

LEMMA GuessCapsFit ==
    ASSUME NEW k \in Keys
    PROVE  /\ CapsFit(GuessCaps(k))
           /\ GuessCaps(k).start = LimitOf(k) /\ GuessCaps(k).limit = LimitOf(k)
           /\ GuessCaps(k).most = Max({LimitOf(k), Cardinality(Requests)}) - 1
           /\ GuessCaps(k).full = LimitOf(k) + Cardinality(Requests) - 1
           /\ GuessCaps(k).rest = Cardinality(Requests) - 1
  <1> DEFINE L == LimitOf(k)
             R == Cardinality(Requests)
             M == Max({L, R})
  <1>1. L \in Nat /\ 1 <= L /\ R \in Nat
    BY LimitsPositive, RequestsCounted
  <1>2. M \in Nat /\ L <= M /\ R <= M
    <2> HIDE DEF L, R
    <2>1. QED
      BY <1>1, LargerOf
  <1>3. GuessCaps(k) = [start |-> L, limit |-> L, most |-> M - 1, full |-> L + R - 1,
                        rest |-> R - 1]
    BY DEF GuessCaps
  <1> HIDE DEF L, R, M
  <1>4. CapsFit(GuessCaps(k))
    BY <1>1, <1>2, <1>3 DEF CapsFit, Caps
  <1>5. QED
    BY <1>3, <1>4 DEF L, R, M

LEMMA UnsolvedCapsFit ==
    /\ CapsFit(UnsolvedCaps)
    /\ UnsolvedCaps.start = TurnstileAfter
    /\ UnsolvedCaps.limit = LoginLimit
    /\ UnsolvedCaps.most = TurnstileAfter + Cardinality(Requests) - 1
    /\ UnsolvedCaps.full = TurnstileAfter + Cardinality(Requests) - 1
    /\ UnsolvedCaps.rest = Cardinality(Requests) - 1
  <1> DEFINE R == Cardinality(Requests)
  <1>1. /\ TurnstileAfter \in Nat /\ LoginLimit \in Nat /\ R \in Nat
        /\ 0 < TurnstileAfter /\ TurnstileAfter < LoginLimit
    BY RequestsCounted, ProtectionConstants DEF ProtectionConstants
  <1> HIDE DEF R
  <1>2. UnsolvedCaps = [start |-> TurnstileAfter, limit |-> LoginLimit,
                        most |-> TurnstileAfter + R - 1, full |-> TurnstileAfter + R - 1,
                        rest |-> R - 1]
    BY DEF UnsolvedCaps, R
  <1>3. CapsFit(UnsolvedCaps)
    BY <1>1, <1>2 DEF CapsFit, Caps
  <1>4. QED
    BY <1>2, <1>3 DEF R

LEMMA LoginLimitOf ==
    ASSUME NEW k \in LoginKeys
    PROVE  k \in Keys /\ LimitOf(k) = LoginLimit
  BY ProtectionConstants DEF ProtectionConstants, LoginKeys, IpKeys, Keys, LimitOf

-----------------------------------------------------------------------------
(* The steps, for one key.                                                 *)

LEMMA CheckedAnswers ==
    ASSUME LoginInvariant, NEW k0, NEW k \in Keys, NEW p, CapsFit(p),
           NEW n \in Nat, NEW m \in Nat, NEW h, Answers(now, h, buckets[k], n, m, p)
    PROVE  Answers(now, h, CheckedBuckets(k0)[k], n, m, p)
  <1>0. now \in Time /\ FittedAt(now, Keys, buckets) /\ FitsAt(now, buckets[k])
    BY DEF LoginInvariant, ClockTyped, BucketsFit, FittedAt
  <1>1. CASE backend = "Postgres"
    BY <1>1 DEF CheckedBuckets
  <1>2. CASE backend # "Postgres"
    <2> DEFINE kept == prune(buckets)[k]
    <2>1. Answers(now, h, kept, n, m, p) /\ FitsAt(now, kept)
      BY <1>0, PruneDrops, DroppedAnswers
    <2>2. \/ CheckedBuckets(k0)[k] = kept
          \/ kept # None /\ CheckedBuckets(k0)[k] = active_retry_after(kept)
      BY <1>2 DEF CheckedBuckets
    <2> HIDE DEF kept
    <2>3. QED
      BY <1>0, <2>1, <2>2, AnswersLooked
  <1>3. QED
    BY <1>1, <1>2

\* A check lets a login in only where nothing is locked.
LEMMA CheckFlight ==
    ASSUME LoginInvariant, NEW r \in Requests, NEW k0 \in LoginKeys, Check(r, k0), NEW k \in Keys
    PROVE  /\ (Unasked(k))' \subseteq Unasked(k)
           /\ (InFlight(k))' \subseteq InFlight(k) \/ ~Blocks(buckets[k])
  <1>1. CASE Refused(k0)
    <2>1. UNCHANGED logins
      BY <1>1 DEF Check
    <2>2. QED
      BY <2>1 DEF logins, InFlight, Unasked
  <1>2. CASE ~Refused(k0)
    <2>1. /\ pc[r] = "idle" /\ pc' = [pc EXCEPT ![r] = "checked"]
          /\ target' = [target EXCEPT ![r] = k0] /\ solved' = solved
      BY <1>2 DEF Check, Goto
    <2>2. /\ pc'[r] = "checked" /\ target'[r] = k0
          /\ \A q \in Requests : q # r => pc'[q] = pc[q] /\ target'[q] = target[q]
      BY <2>1 DEF LoginInvariant, LoginsKnown
    <2>3. (Unasked(k))' \subseteq Unasked(k)
      BY <2>1, <2>2 DEF Unasked, InFlight
    <2>4. CASE k = k0 \/ k = IpOf(k0)
      BY <1>2, <2>3, <2>4 DEF Refused
    <2>5. CASE ~(k = k0 \/ k = IpOf(k0))
      <3>1. (InFlight(k))' \subseteq InFlight(k)
        BY <2>2, <2>5 DEF InFlight
      <3>2. QED
        BY <2>3, <3>1
    <2>6. QED
      BY <2>4, <2>5
  <1>3. QED
    BY <1>1, <1>2

LEMMA CheckAnswers ==
    ASSUME LoginInvariant, NEW r \in Requests, NEW k0 \in LoginKeys, Check(r, k0), NEW k \in Keys,
           NEW p, CapsFit(p), NEW n \in Nat, NEW m \in Nat, NEW n2 \in Nat, NEW m2 \in Nat,
           NEW h, Answers(now, h, buckets[k], n, m, p),
           n2 <= n \/ ~Blocks(buckets[k]),
           m2 <= m \/ (~Blocks(buckets[k]) /\ p.start = p.limit)
    PROVE  Answers(now, h, buckets'[k], n2, m2, p)
  <1> DEFINE b == buckets[k]
  <1>0. now \in Time /\ now \in Nat /\ FitsAt(now, b)
    BY TimeIsNatural DEF LoginInvariant, ClockTyped, BucketsFit, FittedAt
  <1>1. /\ Answers(now, h, b, n, m, p)
        /\ n2 <= n \/ ~Blocks(b)
        /\ m2 <= m \/ (~Blocks(b) /\ p.start = p.limit)
    OBVIOUS
  <1> HIDE DEF b
  <1>2. b # None => /\ b.blocked_until > now => n2 <= n
                    /\ /\ p.start < p.limit /\ b.failures >= p.start
                       /\ b.window_started + Window > now
                       => m2 <= m
    BY <1>1, CapsAre DEF Blocks
  <1>3. Answers(now, h, b, n2, m2, p)
    <2> DEFINE t == now
    <2>1. /\ t \in Nat /\ FitsAt(t, b) /\ Answers(t, h, b, n, m, p)
          /\ b # None => /\ b.blocked_until > t => n2 <= n
                         /\ /\ p.start < p.limit /\ b.failures >= p.start
                            /\ b.window_started + Window > t
                            => m2 <= m
      BY <1>0, <1>1, <1>2
    <2> HIDE DEF t
    <2>2. Answers(t, h, b, n2, m2, p)
      BY <2>1, AnswersFewer
    <2>3. QED
      BY <2>2 DEF t
  <1>4. Answers(now, h, CheckedBuckets(k0)[k], n2, m2, p)
    BY <1>3, CheckedAnswers DEF b
  <1>5. QED
    BY <1>4 DEF Check

LEMMA FailureFlight ==
    ASSUME LoginInvariant, NEW r \in Requests, RecordFailure(r), NEW k \in Keys
    PROVE  LET counted == k \in {target[r], IpOf(target[r])}
           IN  /\ (InFlight(k))' \subseteq InFlight(k) /\ (Unasked(k))' \subseteq Unasked(k)
               /\ r \notin (InFlight(k))' /\ r \notin (Unasked(k))'
               /\ counted => r \in InFlight(k)
               /\ counted /\ ~solved[r] => r \in Unasked(k)
               /\ ~counted => /\ (InFlight(k))' = InFlight(k)
                              /\ (Unasked(k))' = Unasked(k)
  <1>1. /\ pc[r] = "wrong" /\ pc' = [pc EXCEPT ![r] = "idle"]
        /\ target' = [target EXCEPT ![r] = None] /\ solved' = [solved EXCEPT ![r] = FALSE]
    BY DEF RecordFailure, End, Goto
  <1>2. /\ pc'[r] = "idle"
        /\ \A q \in Requests : q # r => pc'[q] = pc[q] /\ target'[q] = target[q]
                                        /\ solved'[q] = solved[q]
    BY <1>1 DEF LoginInvariant, LoginsKnown
  <1>3. (InFlight(k))' \subseteq InFlight(k) /\ r \notin (InFlight(k))'
    BY <1>2 DEF InFlight
  <1>4. (Unasked(k))' \subseteq Unasked(k) /\ r \notin (Unasked(k))'
    BY <1>2 DEF InFlight, Unasked
  <1>5. k \in {target[r], IpOf(target[r])} =>
           r \in InFlight(k) /\ (~solved[r] => r \in Unasked(k))
    BY <1>1 DEF InFlight, Unasked
  <1>6. ~(k \in {target[r], IpOf(target[r])}) =>
           (InFlight(k))' = InFlight(k) /\ (Unasked(k))' = Unasked(k)
    BY <1>1, <1>2 DEF InFlight, Unasked
  <1>7. QED
    BY <1>3, <1>4, <1>5, <1>6

\* Logins that end, or go on past the challenge.
LEMMA EndFlight ==
    ASSUME LoginInvariant, NEW r \in Requests, End(r), NEW k
    PROVE  (InFlight(k))' \subseteq InFlight(k) /\ (Unasked(k))' \subseteq Unasked(k)
  <1>1. /\ pc'[r] = "idle"
        /\ \A q \in Requests : q # r => pc'[q] = pc[q] /\ target'[q] = target[q]
                                        /\ solved'[q] = solved[q]
    BY DEF LoginInvariant, LoginsKnown, End, Goto
  <1>2. QED
    BY <1>1 DEF InFlight, Unasked

LEMMA VerifyFlight ==
    ASSUME LoginInvariant, NEW r \in Requests, Verify(r), NEW k
    PROVE  (InFlight(k))' = InFlight(k) /\ (Unasked(k))' = Unasked(k)
  <1>1. /\ pc[r] = "admitted" /\ pc'[r] \in {"wrong", "right"}
        /\ \A q \in Requests : q # r => pc'[q] = pc[q]
        /\ target' = target /\ solved' = solved
    BY DEF LoginInvariant, LoginsKnown, Verify, Goto
  <1>2. \A q \in Requests : /\ pc'[q] # "idle" <=> pc[q] # "idle"
                            /\ pc'[q] # "checked" <=> pc[q] # "checked"
    BY <1>1
  <1>3. QED
    BY <1>1, <1>2 DEF InFlight, Unasked

LEMMA ChallengeFlight ==
    ASSUME LoginInvariant, NEW r \in Requests, Challenge(r), NEW k
    PROVE  /\ (InFlight(k))' = InFlight(k)
           /\ (Unasked(k))' \subseteq Unasked(k) \cup {r}
           /\ r \in (Unasked(k))' => ~MustSolve(r) /\ k \in {target[r], IpOf(target[r])}
  <1>1. /\ pc[r] = "checked" /\ pc'[r] = "admitted" /\ solved'[r] = MustSolve(r)
        /\ \A q \in Requests : q # r => pc'[q] = pc[q] /\ solved'[q] = solved[q]
        /\ target' = target
    BY DEF LoginInvariant, LoginsKnown, Challenge, Goto
  <1>2. \A q \in Requests : pc'[q] # "idle" <=> pc[q] # "idle"
    BY <1>1
  <1>3. QED
    BY <1>1, <1>2 DEF InFlight, Unasked

LEMMA NowFewer ==
    ASSUME now \in Time, NEW h, NEW b, FitsAt(now, b), NEW p, CapsFit(p),
           NEW n \in Nat, NEW m \in Nat, NEW n2 \in Nat, NEW m2 \in Nat,
           Answers(now, h, b, n, m, p), n2 <= n, m2 <= m
    PROVE  Answers(now, h, b, n2, m2, p)
  <1> DEFINE t == now
  <1>1. t \in Nat /\ FitsAt(t, b) /\ Answers(t, h, b, n, m, p)
    BY TimeIsNatural
  <1> HIDE DEF t
  <1>2. Answers(t, h, b, n2, m2, p)
    BY <1>1, AnswersFewer
  <1>3. QED
    BY <1>2 DEF t

LEMMA BucketsKnown ==
    ASSUME LoginInvariant
    PROVE  /\ now \in Time /\ FittedAt(now, Keys, buckets)
           /\ \A k \in Keys : FitsAt(now, buckets[k])
           /\ guesses \in [Keys -> Histories] /\ unsolved \in [Keys -> Histories]
  BY DEF LoginInvariant, ClockTyped, BucketsFit, FittedAt, HistoryTyped, Histories

\* The challenge: who is not asked may be one more under way only while few
\* failures are counted.
LEMMA ChallengeAnswers ==
    ASSUME LoginInvariant, NEW r \in Requests, Challenge(r), NEW k \in Keys,
           NEW p, CapsFit(p), NEW n \in Nat, NEW m \in Nat, NEW m2 \in Nat,
           NEW h, Answers(now, h, buckets[k], n, m, p),
           m2 <= m \/ (/\ p.start = TurnstileAfter /\ SurfaceOf(r) = "Business"
                       /\ ~challenge_required(k))
    PROVE  Answers(now, h, buckets'[k], n, m2, p)
  <1> DEFINE c == buckets'[k]
             t == now
  <1>1. now \in Time /\ t \in Nat /\ FittedAt(now, Keys, buckets) /\ FitsAt(now, buckets[k])
    BY BucketsKnown, TimeIsNatural
  <1>2. /\ c = IF SurfaceOf(r) = "Business" THEN Kept[k] ELSE buckets[k]
        /\ Dropped(buckets[k], c)
    <2>1. /\ buckets' = IF SurfaceOf(r) = "Business" THEN Kept ELSE buckets
          /\ Kept = IF backend = "Memory" THEN prune(buckets) ELSE buckets
      BY DEF Challenge, Kept
    <2>2. Dropped(buckets[k], prune(buckets)[k]) /\ Dropped(buckets[k], buckets[k])
      BY <1>1, PruneDrops DEF Dropped
    <2>3. QED
      BY <2>1, <2>2
  <1> HIDE DEF c
  <1>3. Answers(t, h, c, n, m, p) /\ FitsAt(t, c)
    BY <1>1, <1>2, DroppedAnswers
  <1>4. c # None => (c.failures >= p.start /\ c.window_started + Window > t => m2 <= m)
    <2>1. SUFFICES ASSUME c # None, c.failures >= p.start, c.window_started + Window > t,
                          ~(m2 <= m)
                   PROVE  FALSE
      OBVIOUS
    <2>2. p.start = TurnstileAfter /\ c = Kept[k] /\ ~challenge_required(k)
      BY <1>2, <2>1
    <2>3. c.window_started \in Nat /\ Window \in Nat
      BY <1>1, <1>3, <2>1, BucketNumbers, Durations
    <2>4. c.window_started > t - Window
      BY <1>1, <2>1, <2>3
    <2>5. QED
      BY <2>1, <2>2, <2>4 DEF challenge_required
  <1>5. Answers(t, h, c, n, m2, p)
    <2>1. c # None => /\ c.blocked_until > t => n <= n
                      /\ /\ p.start < p.limit /\ c.failures >= p.start
                         /\ c.window_started + Window > t
                         => m2 <= m
      BY <1>4
    <2> HIDE DEF t
    <2>2. QED
      BY <1>1, <1>3, <2>1, AnswersFewer
  <1>6. QED
    BY <1>5 DEF c

LEMMA SuccessIs ==
    ASSUME LoginInvariant, NEW r \in Requests, RecordSuccess(r), NEW k \in Keys
    PROVE  \/ buckets'[k] = None /\ guesses'[k] = Never /\ unsolved'[k] = Never
           \/ buckets'[k] = buckets[k] /\ guesses'[k] = guesses[k] /\ unsolved'[k] = unsolved[k]
  BY BucketsKnown DEF RecordSuccess, FittedAt

LEMMA LaterAnswers ==
    ASSUME LoginInvariant, LoginInvariant', Tick, NEW k \in Keys, NEW p, CapsFit(p),
           NEW n \in Nat, NEW m \in Nat, NEW hs \in [Keys -> Histories],
           Answers(now, hs[k], buckets[k], n, m, p)
    PROVE  Answers(now', Recent(hs)[k], buckets'[k], n, m, p)
  <1> DEFINE t == now
             h == hs[k]
             b == buckets[k]
             g == Recent(hs)[k]
  <1>1. t \in Nat /\ now' = t + 1 /\ t + 1 \in Time /\ buckets' = buckets
    BY TimeIsNatural DEF LoginInvariant, ClockTyped, Tick, protection
  <1>2. FitsAt(t, b) /\ Answers(t, h, b, n, m, p)
    BY BucketsKnown
  <1>3. g \in Histories /\ \A s \in Time : g[s] = IF s + Window > t + 1 THEN h[s] ELSE 0
    BY <1>1, RecentIs
  <1> HIDE DEF t, h, b, g
  <1>4. Answers(t + 1, g, b, n, m, p)
    BY <1>1, <1>2, <1>3, AnswersLater
  <1>5. QED
    BY <1>1, <1>4 DEF b, g

-----------------------------------------------------------------------------
(* The steps, for all keys.                                                *)

LEMMA GuessesNext ==
    ASSUME \A k \in Keys : Answers(now', guesses'[k], buckets'[k], Cardinality((InFlight(k))'),
                                   Cardinality((InFlight(k))'), GuessCaps(k))
    PROVE  GuessesFit'
  BY DEF GuessesFit

LEMMA UnsolvedNext ==
    ASSUME \A k \in LoginKeys : Surface[k[2]] = "Business" =>
              Answers(now', unsolved'[k], buckets'[k], Cardinality((InFlight(k))'),
                      Cardinality((Unasked(k))'), UnsolvedCaps)
    PROVE  UnsolvedFits'
  BY DEF UnsolvedFits

\* How many are under way for a key, before a step and after it.
LEMMA FlightCounts ==
    ASSUME NEW k
    PROVE  /\ Cardinality(InFlight(k)) \in Nat /\ Cardinality((InFlight(k))') \in Nat
           /\ Cardinality(Unasked(k)) \in Nat /\ Cardinality((Unasked(k))') \in Nat
           /\ Cardinality(InFlight(k)) <= Cardinality(Requests)
           /\ Cardinality((Unasked(k))') <= Cardinality(Requests)
           /\ (InFlight(k))' \subseteq InFlight(k) =>
                 Cardinality((InFlight(k))') <= Cardinality(InFlight(k))
           /\ (Unasked(k))' \subseteq Unasked(k) =>
                 Cardinality((Unasked(k))') <= Cardinality(Unasked(k))
           /\ \A r \in InFlight(k) :
                 (InFlight(k))' \subseteq InFlight(k) /\ r \notin (InFlight(k))' =>
                    Cardinality((InFlight(k))') + 1 <= Cardinality(InFlight(k))
           /\ \A r \in Unasked(k) :
                 (Unasked(k))' \subseteq Unasked(k) /\ r \notin (Unasked(k))' =>
                    Cardinality((Unasked(k))') + 1 <= Cardinality(Unasked(k))
           /\ \A r \in Requests : r \notin (Unasked(k))' =>
                 Cardinality((Unasked(k))') + 1 <= Cardinality(Requests)
           /\ \A r \in Requests : r \notin (InFlight(k))' =>
                 Cardinality((InFlight(k))') + 1 <= Cardinality(Requests)
  <1> DEFINE A == InFlight(k)
             B == (InFlight(k))'
             C == Unasked(k)
             D == (Unasked(k))'
             Q == Requests
  <1>1. /\ A \in SUBSET Requests /\ B \in SUBSET Requests
        /\ C \in SUBSET Requests /\ D \in SUBSET Requests /\ Q \in SUBSET Requests
        /\ Q = Requests
    BY InFlightAre
  <1> HIDE DEF A, B, C, D, Q
  <1>2. /\ Cardinality(A) \in Nat /\ Cardinality(B) \in Nat
        /\ Cardinality(C) \in Nat /\ Cardinality(D) \in Nat
        /\ Cardinality(A) <= Cardinality(Requests) /\ Cardinality(D) <= Cardinality(Requests)
    BY <1>1, FewerCounted
  <1>3. /\ B \subseteq A => Cardinality(B) <= Cardinality(A)
        /\ D \subseteq C => Cardinality(D) <= Cardinality(C)
    BY <1>1, FewerCounted
  <1>4. /\ \A r \in A : B \subseteq A /\ r \notin B => Cardinality(B) + 1 <= Cardinality(A)
        /\ \A r \in C : D \subseteq C /\ r \notin D => Cardinality(D) + 1 <= Cardinality(C)
    BY <1>1, OneLess
  <1>5. /\ \A r \in Q : r \notin D => Cardinality(D) + 1 <= Cardinality(Q)
        /\ \A r \in Q : r \notin B => Cardinality(B) + 1 <= Cardinality(Q)
    BY <1>1, OneLess
  <1>6. QED
    BY <1>1, <1>2, <1>3, <1>4, <1>5 DEF A, B, C, D, Q

LEMMA GuessesCheck ==
    ASSUME LoginInvariant, GuessesFit, NEW r \in Requests, NEW k0 \in LoginKeys, Check(r, k0)
    PROVE  GuessesFit'
  <1>1. now' = now /\ guesses' = guesses
    BY DEF Check, history
  <1>2. ASSUME NEW k \in Keys
        PROVE  Answers(now', guesses'[k], buckets'[k], Cardinality((InFlight(k))'),
                       Cardinality((InFlight(k))'), GuessCaps(k))
    <2> DEFINE h == guesses[k]
               p == GuessCaps(k)
               n == Cardinality(InFlight(k))
               n2 == Cardinality((InFlight(k))')
    <2>1. CapsFit(p) /\ p.start = p.limit
      BY GuessCapsFit
    <2>2. n \in Nat /\ n2 \in Nat /\ (n2 <= n \/ ~Blocks(buckets[k]))
      BY FlightCounts, CheckFlight
    <2>3. Answers(now, h, buckets[k], n, n, p)
      BY DEF GuessesFit
    <2> HIDE DEF h, p, n, n2
    <2>4. Answers(now, h, buckets'[k], n2, n2, p)
      BY <2>1, <2>2, <2>3, CheckAnswers
    <2>5. QED
      BY <1>1, <2>4 DEF h, p, n2
  <1>3. QED
    BY <1>2, GuessesNext

LEMMA GuessesChallenge ==
    ASSUME LoginInvariant, GuessesFit, NEW r \in Requests, Challenge(r)
    PROVE  GuessesFit'
  <1>1. now' = now /\ guesses' = guesses
    BY DEF Challenge, history
  <1>2. ASSUME NEW k \in Keys
        PROVE  Answers(now', guesses'[k], buckets'[k], Cardinality((InFlight(k))'),
                       Cardinality((InFlight(k))'), GuessCaps(k))
    <2> DEFINE h == guesses[k]
               p == GuessCaps(k)
               n == Cardinality(InFlight(k))
    <2>1. CapsFit(p)
      BY GuessCapsFit
    <2>2. n \in Nat /\ n <= n /\ Cardinality((InFlight(k))') = n
      BY FlightCounts, ChallengeFlight
    <2>3. Answers(now, h, buckets[k], n, n, p)
      BY DEF GuessesFit
    <2> HIDE DEF h, p, n
    <2>4. Answers(now, h, buckets'[k], n, n, p)
      BY <2>1, <2>2, <2>3, ChallengeAnswers
    <2>5. QED
      BY <1>1, <2>2, <2>4 DEF h, p
  <1>3. QED
    BY <1>2, GuessesNext

\* Nothing but the logins under way changes, and they get no more.
LEMMA GuessesFewer ==
    ASSUME LoginInvariant, GuessesFit, UNCHANGED <<now, buckets, guesses>>,
           \A k \in Keys : (InFlight(k))' \subseteq InFlight(k)
    PROVE  GuessesFit'
  <1>1. ASSUME NEW k \in Keys
        PROVE  Answers(now', guesses'[k], buckets'[k], Cardinality((InFlight(k))'),
                       Cardinality((InFlight(k))'), GuessCaps(k))
    <2> DEFINE h == guesses[k]
               b == buckets[k]
               p == GuessCaps(k)
               n == Cardinality(InFlight(k))
               n2 == Cardinality((InFlight(k))')
    <2>1. CapsFit(p) /\ now \in Time /\ FitsAt(now, b)
      BY GuessCapsFit, BucketsKnown
    <2>2. n \in Nat /\ n2 \in Nat /\ n2 <= n
      BY FlightCounts
    <2>3. Answers(now, h, b, n, n, p)
      BY DEF GuessesFit
    <2> HIDE DEF h, b, p, n, n2
    <2>4. Answers(now, h, b, n2, n2, p)
      BY <2>1, <2>2, <2>3, NowFewer
    <2>5. QED
      BY <2>4 DEF h, b, p, n2
  <1>2. QED
    BY <1>1, GuessesNext

LEMMA GuessesFailure ==
    ASSUME LoginInvariant, GuessesFit, NEW r \in Requests, RecordFailure(r)
    PROVE  GuessesFit'
  <1>1. now' = now
    BY DEF RecordFailure
  <1>2. PICK lost : \E answered \in BOOLEAN : FailedWith(r, lost, answered)
    BY FailureIs
  <1>3. PICK answered \in BOOLEAN : FailedWith(r, lost, answered)
    BY <1>2
  <1>4. ASSUME NEW k \in Keys
        PROVE  Answers(now', guesses'[k], buckets'[k], Cardinality((InFlight(k))'),
                       Cardinality((InFlight(k))'), GuessCaps(k))
    <2> DEFINE h == guesses[k]
               b == buckets[k]
               c == buckets'[k]
               p == GuessCaps(k)
               n == Cardinality(InFlight(k))
               n2 == Cardinality((InFlight(k))')
               keys == {target[r], IpOf(target[r])}
               told == IF k \in keys /\ answered THEN 1 ELSE 0
               R == Cardinality(Requests)
    <2>1. /\ CapsFit(p) /\ now \in Time /\ FitsAt(now, b)
          /\ p.limit = LimitOf(k) /\ p.start = p.limit /\ p.full = p.start + R - 1
          /\ p.rest = R - 1 /\ R \in Nat /\ p.start \in Nat
      BY GuessCapsFit, BucketsKnown, RequestsCounted, LimitsPositive
    <2>2. n \in Nat /\ n2 \in Nat
      BY FlightCounts
    <2>3. Answers(now, h, b, n, n, p)
      BY DEF GuessesFit
    <2>4. /\ FailedAs(k, b, c, LimitOf(k), lost, keys)
          /\ guesses'[k] = AnsweredNow(IF k \in lost THEN Never ELSE h, told)
      BY <1>3 DEF FailedWith
    <2>5. k \in keys => n2 + 1 <= n /\ n2 + 1 <= R
      BY FailureFlight, FlightCounts
    <2>6. k \notin keys => n2 = n
      BY FailureFlight
    <2>7. told \in {0, 1} /\ (k \notin keys => told = 0)
      OBVIOUS
    <2> HIDE DEF h, b, c, p, n, n2, keys, told, R
    <2>8. FailedStep(k, h, b, c, lost, keys, told, n, n, n2, n2, p)
      BY <2>1, <2>2, <2>3, <2>4, <2>5, <2>6, <2>7 DEF FailedStep
    <2>11. Answers(now, AnsweredNow(IF k \in lost THEN Never ELSE h, told), c, n2, n2, p)
      BY <2>1, <2>8, FailedAnswers
    <2>12. QED
      BY <1>1, <2>4, <2>11 DEF c, p, n2
  <1>5. QED
    BY <1>4, GuessesNext

LEMMA GuessesSuccess ==
    ASSUME LoginInvariant, GuessesFit, NEW r \in Requests, RecordSuccess(r)
    PROVE  GuessesFit'
  <1>1. now' = now /\ End(r)
    BY DEF RecordSuccess
  <1>2. ASSUME NEW k \in Keys
        PROVE  Answers(now', guesses'[k], buckets'[k], Cardinality((InFlight(k))'),
                       Cardinality((InFlight(k))'), GuessCaps(k))
    <2> DEFINE h == guesses[k]
               b == buckets[k]
               p == GuessCaps(k)
               n == Cardinality(InFlight(k))
               n2 == Cardinality((InFlight(k))')
    <2>1. CapsFit(p) /\ now \in Time /\ FitsAt(now, b)
      BY GuessCapsFit, BucketsKnown
    <2>2. n \in Nat /\ n2 \in Nat /\ n2 <= n
      BY <1>1, FlightCounts, EndFlight
    <2>3. Answers(now, h, b, n, n, p)
      BY DEF GuessesFit
    <2>4. \/ buckets'[k] = None /\ guesses'[k] = Never
          \/ buckets'[k] = b /\ guesses'[k] = h
      BY SuccessIs
    <2> HIDE DEF h, b, p, n, n2
    <2>5. Answers(now, h, b, n2, n2, p) /\ Answers(now, Never, None, n2, n2, p)
      BY <2>1, <2>2, <2>3, NowFewer, NeverAnswers
    <2>6. QED
      BY <1>1, <2>4, <2>5 DEF p, n2
  <1>3. QED
    BY <1>2, GuessesNext

LEMMA GuessesTick ==
    ASSUME LoginInvariant, LoginInvariant', GuessesFit, Tick
    PROVE  GuessesFit'
  <1>1. guesses' = Recent(guesses) /\ UNCHANGED logins /\ guesses \in [Keys -> Histories]
    BY BucketsKnown DEF Tick
  <1>2. ASSUME NEW k \in Keys
        PROVE  Answers(now', guesses'[k], buckets'[k], Cardinality((InFlight(k))'),
                       Cardinality((InFlight(k))'), GuessCaps(k))
    <2> DEFINE p == GuessCaps(k)
               n == Cardinality(InFlight(k))
    <2>1. CapsFit(p)
      BY GuessCapsFit
    <2>2. n \in Nat /\ Cardinality((InFlight(k))') = n
      BY <1>1, FlightCounts DEF InFlight, logins
    <2>3. Answers(now, guesses[k], buckets[k], n, n, p)
      BY DEF GuessesFit
    <2> HIDE DEF p, n
    <2>4. Answers(now', Recent(guesses)[k], buckets'[k], n, n, p)
      BY <1>1, <2>1, <2>2, <2>3, LaterAnswers
    <2>5. QED
      BY <1>1, <2>2, <2>4 DEF p
  <1>3. QED
    BY <1>2, GuessesNext

\* After a restart nobody is under way.
LEMMA RestartFlight ==
    ASSUME Restart, NEW k
    PROVE  (InFlight(k))' = {} /\ (Unasked(k))' = {}
  BY DEF Restart, InFlight, Unasked

LEMMA GuessesRestart ==
    ASSUME LoginInvariant, GuessesFit, Restart
    PROVE  GuessesFit'
  <1>1. CASE backend = "Memory"
    <2>1. ASSUME NEW k \in Keys
          PROVE  Answers(now', guesses'[k], buckets'[k], Cardinality((InFlight(k))'),
                         Cardinality((InFlight(k))'), GuessCaps(k))
      <3>1. guesses'[k] = Never /\ buckets'[k] = None
        BY <1>1 DEF Restart
      <3>2. QED
        BY <3>1, NeverAnswers
    <2>2. QED
      BY <2>1, GuessesNext
  <1>2. CASE backend # "Memory"
    <2>1. UNCHANGED <<now, buckets, guesses>>
      BY <1>2 DEF Restart, protection, history
    <2>2. QED
      BY <2>1, RestartFlight, GuessesFewer
  <1>3. QED
    BY <1>1, <1>2

-----------------------------------------------------------------------------

LEMMA BusinessKeys ==
    ASSUME NEW k \in LoginKeys, Surface[k[2]] = "Business"
    PROVE  /\ k \in Keys /\ CapsFit(UnsolvedCaps) /\ UnsolvedCaps.limit = LimitOf(k)
           /\ UnsolvedCaps.start = TurnstileAfter /\ UnsolvedCaps.start < UnsolvedCaps.limit
           /\ UnsolvedCaps.full = TurnstileAfter + Cardinality(Requests) - 1
           /\ UnsolvedCaps.rest = Cardinality(Requests) - 1
           /\ Cardinality(Requests) \in Nat /\ TurnstileAfter \in Nat
  BY LoginLimitOf, UnsolvedCapsFit, RequestsCounted, ProtectionConstants DEF ProtectionConstants

LEMMA UnsolvedCheck ==
    ASSUME LoginInvariant, UnsolvedFits, NEW r \in Requests, NEW k0 \in LoginKeys, Check(r, k0)
    PROVE  UnsolvedFits'
  <1>1. now' = now /\ unsolved' = unsolved
    BY DEF Check, history
  <1>2. ASSUME NEW k \in LoginKeys, Surface[k[2]] = "Business"
        PROVE  Answers(now', unsolved'[k], buckets'[k], Cardinality((InFlight(k))'),
                       Cardinality((Unasked(k))'), UnsolvedCaps)
    <2> DEFINE h == unsolved[k]
               p == UnsolvedCaps
               n == Cardinality(InFlight(k))
               n2 == Cardinality((InFlight(k))')
               m == Cardinality(Unasked(k))
               m2 == Cardinality((Unasked(k))')
    <2>1. CapsFit(p) /\ k \in Keys
      BY <1>2, BusinessKeys
    <2>2. /\ n \in Nat /\ n2 \in Nat /\ (n2 <= n \/ ~Blocks(buckets[k]))
          /\ m \in Nat /\ m2 \in Nat /\ m2 <= m
      BY <2>1, FlightCounts, CheckFlight
    <2>3. Answers(now, h, buckets[k], n, m, p)
      BY <1>2 DEF UnsolvedFits
    <2> HIDE DEF h, p, n, n2, m, m2
    <2>4. Answers(now, h, buckets'[k], n2, m2, p)
      BY <2>1, <2>2, <2>3, CheckAnswers
    <2>5. QED
      BY <1>1, <2>4 DEF h, p, n2, m2
  <1>3. QED
    BY <1>2, UnsolvedNext

LEMMA UnsolvedChallenge ==
    ASSUME LoginInvariant, UnsolvedFits, NEW r \in Requests, Challenge(r)
    PROVE  UnsolvedFits'
  <1>1. now' = now /\ unsolved' = unsolved
    BY DEF Challenge, history
  <1>2. ASSUME NEW k \in LoginKeys, Surface[k[2]] = "Business"
        PROVE  Answers(now', unsolved'[k], buckets'[k], Cardinality((InFlight(k))'),
                       Cardinality((Unasked(k))'), UnsolvedCaps)
    <2> DEFINE h == unsolved[k]
               p == UnsolvedCaps
               n == Cardinality(InFlight(k))
               m == Cardinality(Unasked(k))
               m2 == Cardinality((Unasked(k))')
    <2>1. CapsFit(p) /\ k \in Keys /\ p.start = TurnstileAfter
      BY <1>2, BusinessKeys
    <2>2. /\ n \in Nat /\ m \in Nat /\ m2 \in Nat
          /\ Cardinality((InFlight(k))') = n
          /\ (Unasked(k))' \subseteq Unasked(k) => m2 <= m
      BY FlightCounts, ChallengeFlight
    <2>3. Answers(now, h, buckets[k], n, m, p)
      BY <1>2 DEF UnsolvedFits
    <2>4. m2 <= m \/ (SurfaceOf(r) = "Business" /\ ~challenge_required(k))
      <3>1. CASE r \notin (Unasked(k))'
        BY <2>2, <3>1, ChallengeFlight
      <3>2. CASE r \in (Unasked(k))'
        <4>1. ~MustSolve(r) /\ k \in {target[r], IpOf(target[r])}
          BY <3>2, ChallengeFlight
        <4>2. target[r] \in LoginKeys
          BY DEF Challenge, LoginInvariant, LoginsKnown
        <4>3. k # IpOf(target[r])
          BY <1>2, ProtectionConstants DEF ProtectionConstants, LoginKeys, IpOf
        <4>4. k = target[r]
          BY <4>1, <4>3
        <4>5. QED
          BY <1>2, <4>1, <4>4 DEF MustSolve, SurfaceOf
      <3>3. QED
        BY <3>1, <3>2
    <2> HIDE DEF h, p, n, m, m2
    <2>5. Answers(now, h, buckets'[k], n, m2, p)
      BY <2>1, <2>2, <2>3, <2>4, ChallengeAnswers
    <2>6. QED
      BY <1>1, <2>2, <2>5 DEF h, p, m2
  <1>3. QED
    BY <1>2, UnsolvedNext

LEMMA UnsolvedFewer ==
    ASSUME LoginInvariant, UnsolvedFits, UNCHANGED <<now, buckets, unsolved>>,
           \A k \in Keys : /\ (InFlight(k))' \subseteq InFlight(k)
                           /\ (Unasked(k))' \subseteq Unasked(k)
    PROVE  UnsolvedFits'
  <1>1. ASSUME NEW k \in LoginKeys, Surface[k[2]] = "Business"
        PROVE  Answers(now', unsolved'[k], buckets'[k], Cardinality((InFlight(k))'),
                       Cardinality((Unasked(k))'), UnsolvedCaps)
    <2> DEFINE h == unsolved[k]
               b == buckets[k]
               p == UnsolvedCaps
               n == Cardinality(InFlight(k))
               n2 == Cardinality((InFlight(k))')
               m == Cardinality(Unasked(k))
               m2 == Cardinality((Unasked(k))')
    <2>1. CapsFit(p) /\ k \in Keys /\ now \in Time /\ FitsAt(now, b)
      BY <1>1, BusinessKeys, BucketsKnown
    <2>2. n \in Nat /\ n2 \in Nat /\ n2 <= n /\ m \in Nat /\ m2 \in Nat /\ m2 <= m
      BY <2>1, FlightCounts
    <2>3. Answers(now, h, b, n, m, p)
      BY <1>1 DEF UnsolvedFits
    <2> HIDE DEF h, b, p, n, n2, m, m2
    <2>4. Answers(now, h, b, n2, m2, p)
      BY <2>1, <2>2, <2>3, NowFewer
    <2>5. QED
      BY <2>4 DEF h, b, p, n2, m2
  <1>2. QED
    BY <1>1, UnsolvedNext

LEMMA UnsolvedFailure ==
    ASSUME LoginInvariant, UnsolvedFits, NEW r \in Requests, RecordFailure(r)
    PROVE  UnsolvedFits'
  <1>1. now' = now
    BY DEF RecordFailure
  <1>2. PICK lost : \E answered \in BOOLEAN : FailedWith(r, lost, answered)
    BY FailureIs
  <1>3. PICK answered \in BOOLEAN : FailedWith(r, lost, answered)
    BY <1>2
  <1>4. ASSUME NEW k \in LoginKeys, Surface[k[2]] = "Business"
        PROVE  Answers(now', unsolved'[k], buckets'[k], Cardinality((InFlight(k))'),
                       Cardinality((Unasked(k))'), UnsolvedCaps)
    <2> DEFINE h == unsolved[k]
               b == buckets[k]
               c == buckets'[k]
               p == UnsolvedCaps
               n == Cardinality(InFlight(k))
               n2 == Cardinality((InFlight(k))')
               m == Cardinality(Unasked(k))
               m2 == Cardinality((Unasked(k))')
               keys == {target[r], IpOf(target[r])}
               told == IF k \in keys /\ answered /\ ~solved[r] THEN 1 ELSE 0
               R == Cardinality(Requests)
    <2>0. k \in Keys
      BY <1>4, BusinessKeys
    <2>1. /\ CapsFit(p) /\ now \in Time /\ FitsAt(now, b)
          /\ p.limit = LimitOf(k) /\ p.full = p.start + R - 1 /\ p.start < p.limit
          /\ p.rest = R - 1 /\ R \in Nat /\ p.start \in Nat /\ p.limit \in Nat
      BY <1>4, <2>0, LimitsPositive, BusinessKeys, BucketsKnown
    <2>2. n \in Nat /\ n2 \in Nat /\ m \in Nat /\ m2 \in Nat
      BY FlightCounts
    <2>3. Answers(now, h, b, n, m, p)
      BY <1>4 DEF UnsolvedFits
    <2>4. /\ FailedAs(k, b, c, LimitOf(k), lost, keys)
          /\ unsolved'[k] = AnsweredNow(IF k \in lost THEN Never ELSE h, told)
      BY <1>3, <2>0 DEF FailedWith
    <2>5. k \in keys => /\ n2 + 1 <= n /\ n2 + 1 <= R /\ m2 + 1 <= R /\ m2 <= m
                        /\ ~solved[r] => m2 + 1 <= m
      BY <2>0, FailureFlight, FlightCounts
    <2>6. k \notin keys => n2 = n /\ m2 = m
      BY <2>0, FailureFlight
    <2>7. /\ told \in {0, 1} /\ (k \notin keys => told = 0)
          /\ told = 1 => ~solved[r]
      OBVIOUS
    <2> HIDE DEF h, b, c, p, n, n2, m, m2, keys, told, R
    <2>8. k \in keys => /\ told + n2 <= n /\ told + m2 <= m
                        /\ told + m2 <= p.full - p.start + 1 /\ n2 <= p.rest
                        /\ p.start = p.limit => told + n2 <= p.full - p.start + 1
      <3>1. told \in {0, 1} /\ (told = 1 => ~solved[r])
        BY <2>7
      <3>2. CASE told = 0
        BY <2>1, <2>2, <2>5, <3>2
      <3>3. CASE told = 1
        BY <2>1, <2>2, <2>5, <3>1, <3>3
      <3>4. QED
        BY <3>1, <3>2, <3>3
    <2>9. FailedStep(k, h, b, c, lost, keys, told, n, m, n2, m2, p)
      BY <2>1, <2>2, <2>3, <2>4, <2>6, <2>7, <2>8 DEF FailedStep
    <2>10. Answers(now, AnsweredNow(IF k \in lost THEN Never ELSE h, told), c, n2, m2, p)
      BY <2>1, <2>9, FailedAnswers
    <2>11. QED
      BY <1>1, <2>4, <2>10 DEF c, p, n2, m2
  <1>5. QED
    BY <1>4, UnsolvedNext

LEMMA UnsolvedSuccess ==
    ASSUME LoginInvariant, UnsolvedFits, NEW r \in Requests, RecordSuccess(r)
    PROVE  UnsolvedFits'
  <1>1. now' = now /\ End(r)
    BY DEF RecordSuccess
  <1>2. ASSUME NEW k \in LoginKeys, Surface[k[2]] = "Business"
        PROVE  Answers(now', unsolved'[k], buckets'[k], Cardinality((InFlight(k))'),
                       Cardinality((Unasked(k))'), UnsolvedCaps)
    <2> DEFINE h == unsolved[k]
               b == buckets[k]
               p == UnsolvedCaps
               n == Cardinality(InFlight(k))
               n2 == Cardinality((InFlight(k))')
               m == Cardinality(Unasked(k))
               m2 == Cardinality((Unasked(k))')
    <2>1. CapsFit(p) /\ k \in Keys /\ now \in Time /\ FitsAt(now, b)
      BY <1>2, BusinessKeys, BucketsKnown
    <2>2. n \in Nat /\ n2 \in Nat /\ n2 <= n /\ m \in Nat /\ m2 \in Nat /\ m2 <= m
      BY <1>1, FlightCounts, EndFlight
    <2>3. Answers(now, h, b, n, m, p)
      BY <1>2 DEF UnsolvedFits
    <2>4. \/ buckets'[k] = None /\ unsolved'[k] = Never
          \/ buckets'[k] = b /\ unsolved'[k] = h
      BY <2>1, SuccessIs
    <2> HIDE DEF h, b, p, n, n2, m, m2
    <2>5. Answers(now, h, b, n2, m2, p) /\ Answers(now, Never, None, n2, m2, p)
      BY <2>1, <2>2, <2>3, NowFewer, NeverAnswers
    <2>6. QED
      BY <1>1, <2>4, <2>5 DEF p, n2, m2
  <1>3. QED
    BY <1>2, UnsolvedNext

LEMMA UnsolvedTick ==
    ASSUME LoginInvariant, LoginInvariant', UnsolvedFits, Tick
    PROVE  UnsolvedFits'
  <1>1. unsolved' = Recent(unsolved) /\ UNCHANGED logins /\ unsolved \in [Keys -> Histories]
    BY BucketsKnown DEF Tick
  <1>2. ASSUME NEW k \in LoginKeys, Surface[k[2]] = "Business"
        PROVE  Answers(now', unsolved'[k], buckets'[k], Cardinality((InFlight(k))'),
                       Cardinality((Unasked(k))'), UnsolvedCaps)
    <2> DEFINE p == UnsolvedCaps
               n == Cardinality(InFlight(k))
               m == Cardinality(Unasked(k))
    <2>1. CapsFit(p) /\ k \in Keys
      BY <1>2, BusinessKeys
    <2>2. /\ n \in Nat /\ Cardinality((InFlight(k))') = n
          /\ m \in Nat /\ Cardinality((Unasked(k))') = m
      BY <1>1, FlightCounts DEF InFlight, Unasked, logins
    <2>3. Answers(now, unsolved[k], buckets[k], n, m, p)
      BY <1>2 DEF UnsolvedFits
    <2> HIDE DEF p, n, m
    <2>4. Answers(now', Recent(unsolved)[k], buckets'[k], n, m, p)
      BY <1>1, <2>1, <2>2, <2>3, LaterAnswers
    <2>5. QED
      BY <1>1, <2>2, <2>4 DEF p
  <1>3. QED
    BY <1>2, UnsolvedNext

LEMMA UnsolvedRestart ==
    ASSUME LoginInvariant, UnsolvedFits, Restart
    PROVE  UnsolvedFits'
  <1>1. CASE backend = "Memory"
    <2>1. ASSUME NEW k \in LoginKeys
          PROVE  Answers(now', unsolved'[k], buckets'[k], Cardinality((InFlight(k))'),
                         Cardinality((Unasked(k))'), UnsolvedCaps)
      <3>1. unsolved'[k] = Never /\ buckets'[k] = None
        BY <1>1, LoginLimitOf DEF Restart
      <3>2. QED
        BY <3>1, NeverAnswers
    <2>2. QED
      BY <2>1, UnsolvedNext
  <1>2. CASE backend # "Memory"
    <2>1. UNCHANGED <<now, buckets, unsolved>>
      BY <1>2 DEF Restart, protection, history
    <2>2. QED
      BY <2>1, RestartFlight, UnsolvedFewer
  <1>3. QED
    BY <1>1, <1>2

-----------------------------------------------------------------------------
(* Every step, and what the caps come to.                                  *)

\* Inductive together with LoginInvariant.
LimitsKept == GuessesFit /\ UnsolvedFits /\ ServedFits

LEMMA LimitsInit ==
    Init => LimitsKept
  <1> SUFFICES ASSUME Init PROVE LimitsKept
    OBVIOUS
  <1>1. /\ \A k \in Keys : buckets[k] = None /\ guesses[k] = Never /\ unsolved[k] = Never
        /\ \A i \in Ips : rates[i] = None /\ served[i] = Never
        /\ \A k \in LoginKeys : k \in Keys
    BY LoginLimitOf DEF Init
  <1>2. GuessesFit
    BY <1>1, NeverAnswers DEF GuessesFit
  <1>3. UnsolvedFits
    BY <1>1, NeverAnswers DEF UnsolvedFits
  <1>4. ServedFits
    BY <1>1, NeverAnswers DEF ServedFits
  <1>5. QED
    BY <1>2, <1>3, <1>4 DEF LimitsKept

\* Steps of logins leave the other requests alone.
LEMMA LoginStepKept ==
    ASSUME LoginInvariant, LimitsKept, NEW r \in Requests,
           \/ \E k \in LoginKeys : Check(r, k)
           \/ Challenge(r) \/ Verify(r) \/ Drop(r) \/ RecordFailure(r) \/ RecordSuccess(r)
    PROVE  LimitsKept'
  <1>0. GuessesFit /\ UnsolvedFits /\ ServedFits
    BY DEF LimitsKept
  <1>1. UNCHANGED <<backend, now, rates, served>>
    BY DEF Check, Challenge, Verify, Drop, RecordFailure, RecordSuccess, history, protection
  <1>2. ServedFits'
    BY <1>0, <1>1, ServedSame
  <1>3. ASSUME NEW k \in LoginKeys, Check(r, k) PROVE GuessesFit' /\ UnsolvedFits'
    BY <1>0, <1>3, GuessesCheck, UnsolvedCheck
  <1>4. CASE Challenge(r)
    BY <1>0, <1>2, <1>4, GuessesChallenge, UnsolvedChallenge DEF LimitsKept
  <1>5. CASE Verify(r)
    <2>1. UNCHANGED <<now, buckets, guesses, unsolved>>
      BY <1>5 DEF Verify, protection, history
    <2>2. \A k \in Keys : /\ (InFlight(k))' \subseteq InFlight(k)
                          /\ (Unasked(k))' \subseteq Unasked(k)
      BY <1>5, VerifyFlight
    <2>3. QED
      BY <1>0, <1>2, <2>1, <2>2, GuessesFewer, UnsolvedFewer DEF LimitsKept
  <1>6. CASE Drop(r)
    <2>1. UNCHANGED <<now, buckets, guesses, unsolved>> /\ End(r)
      BY <1>6 DEF Drop, protection, history
    <2>2. \A k \in Keys : /\ (InFlight(k))' \subseteq InFlight(k)
                          /\ (Unasked(k))' \subseteq Unasked(k)
      BY <2>1, EndFlight
    <2>3. QED
      BY <1>0, <1>2, <2>1, <2>2, GuessesFewer, UnsolvedFewer DEF LimitsKept
  <1>7. CASE RecordFailure(r)
    BY <1>0, <1>2, <1>7, GuessesFailure, UnsolvedFailure DEF LimitsKept
  <1>8. CASE RecordSuccess(r)
    BY <1>0, <1>2, <1>8, GuessesSuccess, UnsolvedSuccess DEF LimitsKept
  <1>9. QED
    BY <1>2, <1>3, <1>4, <1>5, <1>6, <1>7, <1>8 DEF LimitsKept

\* Nothing about logins changes.
LEMMA SameFlight ==
    ASSUME UNCHANGED logins, NEW k
    PROVE  (InFlight(k))' = InFlight(k) /\ (Unasked(k))' = Unasked(k)
  BY DEF logins, InFlight, Unasked

LEMMA LimitsStep ==
    ASSUME LoginInvariant, LoginInvariant', LimitsKept, [Next]_vars
    PROVE  LimitsKept'
  <1>0. GuessesFit /\ UnsolvedFits /\ ServedFits
    BY DEF LimitsKept
  <1>1. ASSUME NEW r \in Requests,
               \/ \E k \in LoginKeys : Check(r, k)
               \/ Challenge(r) \/ Verify(r) \/ Drop(r) \/ RecordFailure(r) \/ RecordSuccess(r)
        PROVE  LimitsKept'
    BY <1>1, LoginStepKept
  <1>2. ASSUME UNCHANGED logins, UNCHANGED <<now, buckets, guesses, unsolved>>
        PROVE  GuessesFit' /\ UnsolvedFits'
    <2>1. \A k \in Keys : /\ (InFlight(k))' \subseteq InFlight(k)
                          /\ (Unasked(k))' \subseteq Unasked(k)
      BY <1>2, SameFlight
    <2>2. QED
      BY <1>0, <1>2, <2>1, GuessesFewer, UnsolvedFewer
  <1>3. ASSUME NEW i \in Ips, check_security_request(i) PROVE LimitsKept'
    <2>1. UNCHANGED logins /\ UNCHANGED <<now, buckets, guesses, unsolved>>
      BY <1>3 DEF check_security_request
    <2>2. QED
      BY <1>0, <1>2, <1>3, <2>1, ServedRequest DEF LimitsKept
  <1>4. CASE Tick
    BY <1>0, <1>4, GuessesTick, UnsolvedTick, ServedTick DEF LimitsKept
  <1>5. CASE Restart
    BY <1>0, <1>5, GuessesRestart, UnsolvedRestart, ServedRestart DEF LimitsKept
  <1>6. CASE UNCHANGED vars
    <2>1. UNCHANGED logins /\ UNCHANGED <<now, buckets, guesses, unsolved>>
          /\ UNCHANGED <<backend, now, rates, served>>
      BY <1>6 DEF vars, logins
    <2>2. QED
      BY <1>0, <1>2, <2>1, ServedSame DEF LimitsKept
  <1>7. QED
    BY <1>1, <1>3, <1>4, <1>5, <1>6 DEF Next

LEMMA LimitsAlwaysKept == Spec => [](LoginInvariant /\ LimitsKept)
  <1>1. LoginInvariant /\ LoginInvariant' /\ LimitsKept /\ [Next]_vars => LimitsKept'
    BY LimitsStep
  <1>2. QED
    BY <1>1, LimitsInit, InvariantHolds, PTL DEF Spec

\* The bounds, in the words of the caps.
LEMMA CapsCome ==
    ASSUME NEW p
    PROVE  Refilled(p, Window - 1) = p.most + (LocksInWindow - 1) * p.full
  <1> DEFINE q == (Window - 1) \div Lockout
  <1>1. q \in Nat
    <2>1. Window - 1 \in Nat
      BY Durations
    <2>2. QED
      BY <2>1, Durations, Quotient
  <1>2. Refilled(p, Window - 1) = p.most + q * p.full /\ LocksInWindow = q + 1
    BY DEF Refilled, LocksInWindow
  <1> HIDE DEF q
  <1>3. LocksInWindow - 1 = q
    BY <1>1, <1>2
  <1>4. QED
    BY <1>2, <1>3

LEMMA LocksCounted == LocksInWindow \in Nat /\ 1 <= LocksInWindow
  <1>1. Window - 1 \in Nat
    BY Durations
  <1>2. (Window - 1) \div Lockout \in Nat
    BY <1>1, Durations, Quotient
  <1>3. QED
    BY <1>2 DEF LocksInWindow

LEMMA OneMoreOf ==
    ASSUME NEW l \in Nat, 1 <= l, NEW f \in Nat
    PROVE  /\ (l - 1) * f + f = l * f /\ (l + 1) * f = l * f + f
           /\ l * f \in Nat /\ (l - 1) * f \in Nat
  <1> DEFINE j == l - 1
  <1>1. j \in Nat /\ l = j + 1
    OBVIOUS
  <1> HIDE DEF j
  <1>2. (j + 1) * f = j * f + f /\ (l + 1) * f = l * f + f
    BY <1>1, ProductSteps
  <1>3. j * f \in Nat
    BY <1>1, ProductGrows
  <1>4. QED
    BY <1>1, <1>2, <1>3 DEF j

LEMMA GuessesCapped ==
    ASSUME LoginInvariant, GuessesFit
    PROVE  GuessesBounded
  <1>1. ASSUME NEW k \in Keys
        PROVE  Total(guesses[k]) <= Max({LimitOf(k), Cardinality(Requests)}) - 1
                                    + LocksInWindow * (LimitOf(k) + Cardinality(Requests) - 1)
    <2> DEFINE h == guesses[k]
               b == buckets[k]
               p == GuessCaps(k)
               n == Cardinality(InFlight(k))
               L == LocksInWindow
               t == now
    <2>1. /\ CapsFit(p) /\ t \in Nat /\ FitsAt(t, b) /\ n \in Nat
          /\ p.most = Max({LimitOf(k), Cardinality(Requests)}) - 1
          /\ p.full = LimitOf(k) + Cardinality(Requests) - 1
      BY GuessCapsFit, BucketsKnown, TimeIsNatural, FlightCounts
    <2>2. Answers(t, h, b, n, n, p)
      BY DEF GuessesFit
    <2>3. L \in Nat /\ 1 <= L
      BY LocksCounted
    <2> HIDE DEF h, b, p, n, t
    <2>4. Total(h) <= Refilled(p, Window - 1) + p.full
      BY <2>1, <2>2, AnswersCapped
    <2>5. Refilled(p, Window - 1) = p.most + (L - 1) * p.full
      BY CapsCome
    <2>6. p.most \in Nat /\ p.full \in Nat
      BY <2>1, CapsAre
    <2> HIDE DEF L
    <2>7. (L - 1) * p.full + p.full = L * p.full /\ (L - 1) * p.full \in Nat /\ L * p.full \in Nat
      BY <2>3, <2>6, OneMoreOf
    <2>8. (p.most + (L - 1) * p.full) + p.full = p.most + L * p.full
      BY <2>6, <2>7
    <2>9. Total(h) <= p.most + L * p.full
      BY <2>4, <2>5, <2>8
    <2>10. QED
      BY <2>1, <2>9 DEF h, L
  <1>2. QED
    BY <1>1 DEF GuessesBounded

LEMMA UnsolvedCapped ==
    ASSUME LoginInvariant, UnsolvedFits
    PROVE  ChallengedInTime
  <1>1. ASSUME NEW k \in LoginKeys, Surface[k[2]] = "Business"
        PROVE  Total(unsolved[k]) <= (LocksInWindow + 1)
                                     * (TurnstileAfter + Cardinality(Requests) - 1)
    <2> DEFINE h == unsolved[k]
               b == buckets[k]
               p == UnsolvedCaps
               n == Cardinality(InFlight(k))
               m == Cardinality(Unasked(k))
               L == LocksInWindow
               t == now
    <2>1. /\ CapsFit(p) /\ t \in Nat /\ FitsAt(t, b) /\ n \in Nat /\ m \in Nat
          /\ p.most = p.full
          /\ p.full = TurnstileAfter + Cardinality(Requests) - 1
      BY <1>1, UnsolvedCapsFit, BusinessKeys, BucketsKnown, TimeIsNatural, FlightCounts
    <2>2. Answers(t, h, b, n, m, p)
      BY <1>1 DEF UnsolvedFits
    <2>3. L \in Nat /\ 1 <= L
      BY LocksCounted
    <2> HIDE DEF h, b, p, n, m, t
    <2>4. Total(h) <= Refilled(p, Window - 1) + p.full
      BY <2>1, <2>2, AnswersCapped
    <2>5. Refilled(p, Window - 1) = p.most + (L - 1) * p.full
      BY CapsCome
    <2>6. p.most \in Nat /\ p.full \in Nat
      BY <2>1, CapsAre
    <2> HIDE DEF L
    <2>7. /\ (L - 1) * p.full + p.full = L * p.full /\ (L + 1) * p.full = L * p.full + p.full
          /\ (L - 1) * p.full \in Nat /\ L * p.full \in Nat
      BY <2>3, <2>6, OneMoreOf
    <2>8. (p.most + (L - 1) * p.full) + p.full = (L + 1) * p.full
      BY <2>1, <2>6, <2>7
    <2>9. Total(h) <= (L + 1) * p.full
      BY <2>4, <2>5, <2>8
    <2>10. QED
      BY <2>1, <2>9 DEF h, L
  <1>2. QED
    BY <1>1 DEF ChallengedInTime

LEMMA ServedCapped ==
    ASSUME LoginInvariant, ServedFits
    PROVE  RequestsBounded
  <1>1. ASSUME NEW i \in Ips
        PROVE  Total(served[i]) <= (LocksInWindow + 1) * RateLimit
    <2> DEFINE h == served[i]
               b == rates[i]
               p == ServedCaps
               L == LocksInWindow
               t == now
               n == 0
    <2>1. CapsFit(p) /\ t \in Nat /\ FitsAt(t, b) /\ n \in Nat
      BY ServedCapsFit, TimeIsNatural DEF LoginInvariant, ClockTyped, BucketsFit, FittedAt
    <2>2. p.most = p.full /\ p.full <= RateLimit /\ RateLimit \in Nat
      <3>1. RateCap \in Nat /\ RateCap <= RateLimit + 1 /\ RateLimit \in Nat
        BY ServedCapsFit, ProtectionConstants DEF ProtectionConstants
      <3>2. p.most = RateCap - 1 /\ p.full = RateCap - 1
        BY DEF ServedCaps
      <3> HIDE DEF p
      <3>3. QED
        BY <3>1, <3>2
    <2>3. Answers(t, h, b, n, n, p)
      BY DEF ServedFits
    <2>4. L \in Nat /\ 1 <= L
      BY LocksCounted
    <2> HIDE DEF h, b, p, n, t
    <2>5. Total(h) <= Refilled(p, Window - 1) + p.full
      BY <2>1, <2>3, AnswersCapped
    <2>6. Refilled(p, Window - 1) = p.most + (L - 1) * p.full
      BY CapsCome
    <2>7. p.most \in Nat /\ p.full \in Nat
      BY <2>1, CapsAre
    <2> HIDE DEF L
    <2>8. /\ (L - 1) * p.full + p.full = L * p.full /\ (L + 1) * p.full = L * p.full + p.full
          /\ (L - 1) * p.full \in Nat /\ L * p.full \in Nat
      BY <2>4, <2>7, OneMoreOf
    <2>9. Total(h) <= (L + 1) * p.full
      <3>1. (p.most + (L - 1) * p.full) + p.full = (L + 1) * p.full
        BY <2>2, <2>7, <2>8
      <3>2. QED
        BY <2>5, <2>6, <3>1
    <2>10. p.full * (L + 1) <= RateLimit * (L + 1)
      BY <2>2, <2>4, <2>7, ProductGrows
    <2>11. p.full * (L + 1) = (L + 1) * p.full /\ RateLimit * (L + 1) = (L + 1) * RateLimit
      BY <2>2, <2>4, <2>7
    <2>12. Total(h) \in Nat
      <3>1. h \in Histories
        BY <2>3, HistoryOf DEF Answers
      <3>2. DOMAIN h = Time
        BY <3>1 DEF Histories
      <3>3. QED
        BY <3>1, <3>2, SpentNat DEF Total, SumFunction, Spent
    <2>13. /\ (L + 1) * p.full \in Nat /\ (L + 1) * RateLimit \in Nat
      BY <2>2, <2>4, <2>7, ProductGrows
    <2>14. Total(h) <= (L + 1) * RateLimit
      BY <2>9, <2>10, <2>11, <2>12, <2>13
    <2>15. QED
      BY <2>14 DEF h, L
  <1>2. QED
    BY <1>1 DEF RequestsBounded

(***************************************************************************)
(* However many logins are between their check and their record, and       *)
(* however short a lock is, no more wrong passwords of a key are answered  *)
(* in the length of a window than the locks that fit in it let through,    *)
(* and what is left of an earlier window.                                  *)
(***************************************************************************)
THEOREM GuessesAlwaysBounded == Spec => []GuessesBounded
  <1>1. LoginInvariant /\ LimitsKept => GuessesBounded
    BY GuessesCapped DEF LimitsKept
  <1>2. QED
    BY <1>1, LimitsAlwaysKept, PTL

(***************************************************************************)
(* The challenge of the business surface is asked for in time: without it  *)
(* no more than the named number of wrong passwords is answered.           *)
(***************************************************************************)
THEOREM AlwaysChallengedInTime == Spec => []ChallengedInTime
  <1>1. LoginInvariant /\ LimitsKept => ChallengedInTime
    BY UnsolvedCapped DEF LimitsKept
  <1>2. QED
    BY <1>1, LimitsAlwaysKept, PTL

(***************************************************************************)
(* Both stores keep the other requests of an address to two limits in the  *)
(* length of a window, and one more for each further lock that fits in it. *)
(***************************************************************************)
THEOREM RequestsAlwaysBounded == Spec => []RequestsBounded
  <1>1. LoginInvariant /\ LimitsKept => RequestsBounded
    BY ServedCapped DEF LimitsKept
  <1>2. QED
    BY <1>1, LimitsAlwaysKept, PTL
=============================================================================
