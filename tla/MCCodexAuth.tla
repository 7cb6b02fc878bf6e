---------------------------- MODULE MCCodexAuth ----------------------------
(* CodexAuth for TLC. *)
EXTENDS CodexAuth, TLC

\* The callers are alike.
Symmetry == Permutations(Callers)
============================================================================
