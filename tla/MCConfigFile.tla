---------------------------- MODULE MCConfigFile ----------------------------
(* ConfigFile for TLC. *)
EXTENDS ConfigFile, TLC

\* The runs are alike.
Symmetry == Permutations(Runs)
=============================================================================
