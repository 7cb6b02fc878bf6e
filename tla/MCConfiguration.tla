-------------------------- MODULE MCConfiguration --------------------------
(***************************************************************************)
(* Setup and Config for TLC: the configuration file comes from the wizard, *)
(* or from a person who edits it.  A behaviour is of one of the two, so    *)
(* that their states are not multiplied.  Config has one or two settings   *)
(* of each kind, and the defaults of the code for the numbers.             *)
(***************************************************************************)
EXTENDS Config, TLC

VARIABLES by,  \* "wizard" or "editor"
          question, cfg, ended, exists, keyInEnv, service  \* see Setup

W == INSTANCE Setup

dialogue == <<question, cfg, ended, exists, keyInEnv, service>>
allVars == <<by, dialogue, vars>>

MCTexts == {"provider", "session_dir"}
MCNumbers == {"timeout_seconds"}
MCLists == {"allow_list"}
MCProfileLines == <<100, 250>>
MCDefault ==
  [f \in MCTexts |-> "default"] @@ [f \in MCLists |-> "empty"] @@
  [timeout_seconds |-> 60, temperature |-> 1,
   default_log_lines |-> 80, max_log_lines |-> 200]

MCInit ==
  /\ by \in {"wizard", "editor"}
  /\ Init /\ W!Init
  /\ by = "editor" => exists /\ keyInEnv

MCNext ==
  \/ by = "wizard" /\ W!Next /\ UNCHANGED <<by, vars>>
  \/ by = "editor" /\ Next /\ UNCHANGED <<by, dialogue>>

MCSpec ==
  /\ MCInit /\ [][MCNext]_allVars
  /\ WF_allVars(by = "wizard" /\ W!Save /\ UNCHANGED <<by, vars>>)
  /\ \A q \in W!Questions :
       WF_allVars(by = "wizard" /\ W!Blank(q) /\ UNCHANGED <<by, vars>>)

\* See Setup: the warnings of the wizard and the demands of the service agree,
\* a declined tool leaves no list, and the wizard ends with its input.
WarnedOrStarts == W!WarnedOrStarts
DeclinedListsAreEmpty == W!DeclinedListsAreEmpty
WizardEnds == by = "wizard" => W!WizardEnds
=============================================================================
