----------------------------- MODULE LoginLimits -----------------------------
(***************************************************************************)
(* What the login protection promises, without saying how it is stored:    *)
(* for each key (an address, or a login from an address) the failures of   *)
(* the present window are counted, and the failure that reaches the limit  *)
(* locks the key for the lockout time.  README.md, "Login protection".     *)
(* LoginProtection implements this in both of its stores; where the lock   *)
(* is shorter than the window, they differ in what is left after it.       *)
(***************************************************************************)
EXTENDS Naturals

CONSTANTS
    Keys,     \* what failures are counted for
    Limit,    \* Limit[k]: the failure that locks k
    Window,   \* how long failures are counted together
    Lockout   \* how long a lock lasts

VARIABLES
    now,       \* the time
    tally,     \* the failures of each key, forgotten when they are over
    volatile   \* whether a tally may be lost, and is with the end of its lock

limits_vars == <<now, tally, volatile>>

Zero == [count |-> 0, since |-> 0, until |-> 0]

\* What is left of a tally at time t.  While its lock holds, all of it.  After
\* that the failures are forgotten with their window; where a tally may be
\* lost anyway, they are forgotten with the lock already.
At(t, entry) ==
    IF /\ entry.until <= t
       /\ entry.since + Window <= t \/ (volatile /\ entry.until # 0)
    THEN Zero ELSE entry

\* The entries one more failure may lead to.  While the key is locked it does
\* not count.  A window starts with its first failure, or with a login that
\* was checked shortly before it.
Counted(k, entry) ==
    IF entry.until > now THEN {entry}
    ELSE [count : {entry.count + 1},
          since : IF entry.count = 0 THEN {t \in 0 .. now : t + Window > now} ELSE {entry.since},
          until : {IF entry.count + 1 >= Limit[k] THEN now + Lockout ELSE 0}]

Kept(k, lost) == IF k \in lost THEN Zero ELSE tally[k]

\* A failure counts for several keys at once.
Fail(failed, lost) ==
    /\ lost # {} => volatile
    /\ DOMAIN tally' = Keys
    /\ \A k \in Keys : tally'[k] \in (IF k \in failed THEN Counted(k, Kept(k, lost))
                                                     ELSE {Kept(k, lost)})
    /\ UNCHANGED <<now, volatile>>

\* A login succeeds, and its own tally is cleared.
Clear(k) == tally' = [tally EXCEPT ![k] = Zero] /\ UNCHANGED <<now, volatile>>

\* The process restarts.
Forget ==
    /\ volatile
    /\ tally' = [k \in Keys |-> Zero]
    /\ UNCHANGED <<now, volatile>>

Elapse ==
    /\ now' = now + 1
    /\ tally' = [k \in Keys |-> At(now + 1, tally[k])]
    /\ UNCHANGED volatile

LimitsInit ==
    /\ now \in Nat
    /\ tally = [k \in Keys |-> Zero]
    /\ volatile \in BOOLEAN

LimitsNext ==
    \/ \E failed, lost \in SUBSET Keys : Fail(failed, lost)
    \/ \E k \in Keys : Clear(k)
    \/ Forget
    \/ Elapse

LimitsSpec == LimitsInit /\ [][LimitsNext]_limits_vars
=============================================================================
