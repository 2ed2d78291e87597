-------------------------- MODULE MCLoginProtection --------------------------
(***************************************************************************)
(* Model-checking instance of LoginProtection.                             *)
(***************************************************************************)
EXTENDS LoginProtection, TLC

CONSTANTS mail, token

MCSurface == [l \in Logins |-> IF l = mail THEN "Business" ELSE "Platform"]

\* Logins in flight are interchangeable.
Symmetry == Permutations(Requests)

\* Logins and other requests share nothing but the clock: one kind at a time.
OneKind ==
    \/ \A i \in Ips : rates[i] = None
    \/ \A k \in Keys : buckets[k] = None /\ \A r \in Requests : pc[r] = "idle"
=============================================================================
