--------------------------- MODULE MCSessionStore ---------------------------
(* SessionStore with two handlers, two sessions that are saved and one that *)
(* is not, because its file name is not a local one.                        *)
EXTENDS SessionStore, TLC

CONSTANTS c1, c2, chat, global, odd, chatFile, globalFile, oddFile, m1, m2

MCFileName == chat :> chatFile @@ global :> globalFile @@ odd :> oddFile

MCSymmetry == Permutations({c1, c2}) \union Permutations({m1, m2})
=============================================================================
