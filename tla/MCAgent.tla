------------------------------ MODULE MCAgent ------------------------------
(* Agent with two requests in one chat and one in another.                  *)
EXTENDS Agent, TLC

CONSTANTS r1, r2, r3, telegram, whatsapp

MCChatOf == r1 :> telegram @@ r2 :> telegram @@ r3 :> whatsapp

MCSymmetry == Permutations({r1, r2})
=============================================================================
