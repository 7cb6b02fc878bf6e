---------------------------- MODULE MCChatSystem ----------------------------
(* ChatSystem with two requests in one chat. *)
EXTENDS ChatSystem, TLC

CONSTANTS r1, r2, chat, chatFile, globalFile

MCChatOf == r1 :> chat @@ r2 :> chat
MCFileName == chat :> chatFile @@ Global :> globalFile
MCSymmetry == Permutations({r1, r2})
=============================================================================
