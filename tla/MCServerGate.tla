---------------------------- MODULE MCServerGate ----------------------------
(***************************************************************************)
(* Model-checking instance of ServerGate.                                  *)
(***************************************************************************)
EXTENDS ServerGate, TLC

\* The requests are interchangeable.
Symmetry == Permutations(Requests)
=============================================================================
