---------------------------- MODULE AgentClaims ----------------------------
(***************************************************************************)
(* What the README and the configuration say of the agent, where the code  *)
(* does something else.                                                    *)
(***************************************************************************)
EXTENDS MCAgent

\* README: "Shared memory across Telegram and WhatsApp".  A conversation
\* would show the model what the other channels had said so far; the code
\* keeps the global log, but reads the log of the chat alone.
SharedMemory ==
  [][\A r \in Requests :
       pc[r] = "dispatch" /\ pc'[r] = "complete"
         => Range(sessions[Global]) \subseteq Range(history'[r])]_vars
=============================================================================
