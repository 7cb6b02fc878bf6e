----------------------------- MODULE DurableLog -----------------------------
(***************************************************************************)
(* What the session store promises its callers: for every key an           *)
(* append-only log in memory, and on disk a saved copy that is always one  *)
(* complete earlier state of that log.  How the copy is written, and by    *)
(* how many goroutines at once, is left to SessionStore, which implements  *)
(* this specification.                                                     *)
(*                                                                         *)
(* The copy may lag, and a save may even replace it by an older state of   *)
(* the log: the store does not order the saves of one key.  What it never  *)
(* does is save something the log was not, or half of it.                  *)
(***************************************************************************)
EXTENDS Naturals, Sequences

CONSTANTS Keys,      \* session keys
          Messages   \* message values

VARIABLES running,   \* the process is up and has loaded its sessions
          log,       \* the log of each key in memory, << >> if it has none
          saved      \* the copy of each key on disk, << >> if it has none

vars == <<running, log, saved>>

TypeOK == /\ running \in BOOLEAN
          /\ log \in [Keys -> Seq(Messages)]
          /\ saved \in [Keys -> Seq(Messages)]

Init == /\ running = TRUE
        /\ log = [k \in Keys |-> << >>]
        /\ saved = [k \in Keys |-> << >>]

\* A message is added to the log of k.
Add(k, m) == /\ running
             /\ log' = [log EXCEPT ![k] = Append(@, m)]
             /\ UNCHANGED <<running, saved>>

\* The saved copy of k becomes the first n messages of its log.
Persist(k, n) == /\ running
                 /\ saved' = [saved EXCEPT ![k] = SubSeq(log[k], 1, n)]
                 /\ UNCHANGED <<running, log>>

\* The process stops: only the saved copies remain.
Stop == /\ running
        /\ running' = FALSE
        /\ log' = [k \in Keys |-> << >>]
        /\ UNCHANGED saved

\* The process starts again from the saved copies, except those in lost,
\* which it could not read.
Recover(lost) == /\ ~ running
                 /\ running' = TRUE
                 /\ log' = [k \in Keys |-> IF k \in lost THEN << >> ELSE saved[k]]
                 /\ UNCHANGED saved

Next == \/ \E k \in Keys, m \in Messages : Add(k, m)
        \/ \E k \in Keys : \E n \in 1 .. Len(log[k]) : Persist(k, n)
        \/ Stop
        \/ \E lost \in SUBSET Keys : Recover(lost)

Spec == Init /\ [][Next]_vars
=============================================================================
