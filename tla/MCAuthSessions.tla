--------------------------- MODULE MCAuthSessions ---------------------------
(***************************************************************************)
(* Model-checking instance of AuthSessions.                                *)
(***************************************************************************)
EXTENDS AuthSessions, TLC

\* Users are interchangeable.
Symmetry == Permutations(Users)

\* What the invariants and EndedStaysEnded tell apart: not which family a dead
\* token was presented of.
View == <<memory, rows, age, issued, history, leaving, uncertain>>
=============================================================================
