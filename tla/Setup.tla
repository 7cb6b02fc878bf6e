------------------------------- MODULE Setup -------------------------------
(***************************************************************************)
(* A run of the setup wizard (internal/setup/wizard.go), and the start of  *)
(* the service with the configuration it has written (main of              *)
(* cmd/clawkangsar/main.go).                                               *)
(*                                                                         *)
(* The wizard asks one question after another.  A line of input is blank,  *)
(* which takes the default, or gives a value, or is refused, which asks    *)
(* again and changes nothing.  Once the input has ended every line is      *)
(* blank (readLine).  Of a text or a list the model keeps whether it is    *)
(* empty.                                                                  *)
(***************************************************************************)
EXTENDS Naturals

VARIABLES
  question,  \* what the wizard asks, or how it ended
  cfg,       \* the configuration it builds
  ended,     \* the input has ended
  exists,    \* there was a configuration file, and no --force
  keyInEnv,  \* the environment of the service has the API key
  service    \* how the service has started

vars == <<question, cfg, ended, exists, keyInEnv, service>>

Profiles == {"systemd-first", "docker-first", "home-assistant"}
Providers == {"disabled", "codex_oauth", "openai_compat"}

\* The questions, by the prompt that asks them.
YesNo == {"telegram", "whatsapp", "loginNow", "useEnv", "shell", "systemctl",
          "docker", "journal", "health", "overwrite"}
Choices == {"profile", "provider"}
CommaLists == {"allowList", "services", "containers", "units"}
Lines == {"token", "dsn", "authPath", "baseURL", "envName", "host", "port"}
Required == {"model", "apiKey"}
Questions == YesNo \cup Choices \cup CommaLists \cup Lines \cup Required
Ends == {"wrote", "failed"}

\* The settings that the answers are stored in, and the named commands of the
\* shell, tools.shell_commands, which no question is about.
Settings == (Questions \ {"loginNow", "useEnv", "overwrite", "profile"}) \cup {"commands"}
Values == {"yes", "no", "set", "empty"} \cup Providers

\* config.Default, of which a profile changes the tools.
DefaultConfig ==
  [s \in Settings |->
     CASE s = "provider" -> "disabled"
       [] s = "health" -> "yes"
       [] s \in YesNo \ {"health"} -> "no"
       [] s \in {"dsn", "baseURL", "envName", "host", "port"} -> "set"
       [] OTHER -> "empty"]

ProfileConfig(p) ==
  [s \in Settings |->
     CASE s \in {"shell", "systemctl", "journal"} -> "yes"
       [] s \in {"commands", "services", "units"} -> "set"
       [] s = "docker" /\ p # "systemd-first" -> "yes"
       [] s = "containers" /\ p # "systemd-first" -> "set"
       [] OTHER -> DefaultConfig[s]]

Init ==
  /\ question = "profile"
  /\ cfg = DefaultConfig
  /\ ended = FALSE
  /\ exists \in BOOLEAN
  /\ keyInEnv \in BOOLEAN
  /\ service = "down"

-----------------------------------------------------------------------------
(* The dialogue *)

\* A variant with a bug: the default provider is codex_oauth, though none is enabled.
DefaultProvider(q) ==
  CASE q = "profile" -> "systemd-first"
    [] q \in {"telegram", "useEnv"} -> "yes"
    [] q \in {"whatsapp", "loginNow", "overwrite"} -> "no"
    [] q = "provider" -> "codex_oauth"
    [] OTHER -> cfg[q]

\* What a blank line stands for.
DefaultAnswer(q) ==
  CASE q = "profile" -> "systemd-first"
    [] q \in {"telegram", "useEnv"} -> "yes"
    [] q \in {"whatsapp", "loginNow", "overwrite"} -> "no"
    [] OTHER -> cfg[q]

\* What another line can stand for; a list of commas is empty.
Answers(q) ==
  CASE q = "profile"  -> Profiles
    [] q = "provider" -> Providers
    [] q \in YesNo    -> {"yes", "no"}
    [] q \in CommaLists    -> {"set", "empty"}
    [] OTHER          -> {"set"}

\* The question that follows the answer v to q.
Follow(q, v) ==
  CASE q = "profile"   -> "telegram"
    [] q = "telegram"  -> IF v = "yes" THEN "token" ELSE "whatsapp"
    [] q = "token"     -> "allowList"
    [] q = "allowList" -> "whatsapp"
    [] q = "whatsapp"  -> IF v = "yes" THEN "dsn" ELSE "provider"
    [] q = "dsn"       -> "provider"
    [] q = "provider"  -> [disabled |-> "shell", codex_oauth |-> "model",
                            openai_compat |-> "baseURL"][v]
    [] q = "baseURL"   -> "model"
    [] q = "model"     -> IF cfg["provider"] = "codex_oauth" THEN "authPath" ELSE "useEnv"
    [] q = "authPath"  -> "loginNow"
    [] q = "useEnv"    -> IF v = "yes" THEN "envName" ELSE "apiKey"
    [] q \in {"loginNow", "envName", "apiKey"} -> "shell"
    [] q = "shell"      -> "systemctl"
    [] q = "systemctl"  -> IF v = "yes" THEN "services" ELSE "docker"
    [] q = "services"   -> "docker"
    [] q = "docker"     -> IF v = "yes" THEN "containers" ELSE "journal"
    [] q = "containers" -> "journal"
    [] q = "journal"    -> IF v = "yes" THEN "units" ELSE "health"
    [] q = "units"      -> "health"
    [] q = "health"     -> IF v = "yes" THEN "host"
                           ELSE IF exists THEN "overwrite" ELSE "save"
    [] q = "host"       -> "port"
    [] q = "port"       -> IF exists THEN "overwrite" ELSE "save"
    [] q = "overwrite"  -> IF v = "yes" THEN "save" ELSE "failed"

\* A variant with a bug: the lists of a profile outlive the tools.
ClearsKey(q, v) == IF q = "envName" THEN {"apiKey"} ELSE {}

\* The settings that the answer v to q empties.  Without the shell its commands
\* stay, unlike the lists of the other tools.
Clears(q, v) ==
  CASE q = "telegram" /\ v = "no"  -> {"token", "allowList"}
    [] q = "shell" /\ v = "no"     -> {}
    [] q = "systemctl" /\ v = "no" -> {"services"}
    [] q = "docker" /\ v = "no"    -> {"containers"}
    [] q = "journal" /\ v = "no"   -> {"units"}
    [] q = "envName"               -> {"apiKey"}
    [] OTHER                       -> {}

Store(q, v) ==
  cfg' = IF q = "profile" THEN ProfileConfig(v)
         ELSE [s \in Settings |-> CASE s = q -> v
                                    [] s \in Clears(q, v) -> "empty"
                                    [] OTHER -> cfg[s]]

Take(q, v) ==
  /\ question = q
  /\ question' = Follow(q, v)
  /\ Store(q, v)
  /\ UNCHANGED <<ended, exists, keyInEnv, service>>

Answer(q) == ~ended /\ \E v \in Answers(q) : Take(q, v)

\* A required value is asked for again when the line, and the default, are blank.
Blank(q) == ~(q \in Required /\ cfg[q] = "empty") /\ Take(q, DefaultAnswer(q))

\* The login that the wizard offers fails, or the input cannot be read.
Abort ==
  /\ question \in Questions
  /\ question' = "failed"
  /\ UNCHANGED <<cfg, ended, exists, keyInEnv, service>>

EndInput ==
  /\ ~ended /\ question \in Questions
  /\ ended' = TRUE
  /\ UNCHANGED <<question, cfg, exists, keyInEnv, service>>

\* prepareConfigPath and Save, as in ConfigFile.
Save ==
  /\ question = "save"
  /\ \E end \in Ends : question' = end
  /\ UNCHANGED <<cfg, ended, exists, keyInEnv, service>>
-----------------------------------------------------------------------------
(* What the wizard says in the end, and what the service makes of the file *)

\* A variant with a bug: only the model is looked at.
WarningsOfModel ==
  IF cfg["provider"] # "disabled" /\ cfg["model"] = "empty" THEN {"model"} ELSE {}

\* printWarnings; without any, "Config looks complete enough to start."
Warnings ==
  LET telegram == cfg["telegram"] = "yes" IN
  {w \in {"token", "allowList", "model", "key"} :
     CASE w = "token"     -> telegram /\ cfg["token"] = "empty"
       [] w = "allowList" -> telegram /\ cfg["allowList"] = "empty"
       [] w = "model"     -> cfg["provider"] # "disabled" /\ cfg["model"] = "empty"
       [] w = "key"       -> /\ cfg["provider"] = "openai_compat"
                             /\ cfg["apiKey"] = "empty" /\ cfg["envName"] = "empty"}

HasKey == cfg["apiKey"] = "set" \/ (cfg["envName"] = "set" /\ keyInEnv)

\* The constructors of the provider and of the Telegram gateway want these.
Startable ==
  /\ cfg["telegram"] = "yes" => cfg["token"] = "set"
  /\ cfg["provider"] # "disabled" => cfg["model"] = "set"
  /\ cfg["provider"] = "openai_compat" => cfg["baseURL"] = "set" /\ HasKey

\* The gateways also need what is not of the configuration: the Telegram API
\* and the database of WhatsApp.
Start ==
  /\ question = "wrote" /\ service = "down"
  /\ \/ ~Startable /\ service' = "refused"
     \/ Startable /\ service' = "running"
     \/ /\ Startable /\ "yes" \in {cfg["telegram"], cfg["whatsapp"]}
        /\ service' = "unavailable"
  /\ UNCHANGED <<question, cfg, ended, exists, keyInEnv>>

Next ==
  \/ \E q \in Questions : Answer(q) \/ Blank(q)
  \/ Abort \/ EndInput \/ Save \/ Start

\* The wizard goes on by itself when lines are blank and files are written.
Fairness == WF_vars(Save) /\ \A q \in Questions : WF_vars(Blank(q))

Spec == Init /\ [][Next]_vars /\ Fairness

-----------------------------------------------------------------------------
(* Properties *)

\* When the wizard has written a configuration without a warning, the service
\* starts with it, as far as that depends on the configuration.  The wizard
\* cannot see the environment of the service: a key that is to come from there
\* may be missing.
WarnedOrStarts ==
  service = "refused" =>
    \/ Warnings # {}
    \/ cfg["provider"] = "openai_compat" /\ cfg["envName"] = "set" /\ ~keyInEnv

\* The wizard suggests what a profile allows; of the services, containers and
\* units of a tool that was declined none is left in the file.  (The named
\* commands of the shell are: with the shell declined they stay in the file,
\* switched off by shell_enabled alone.)
DeclinedListsAreEmpty ==
  question = "wrote" =>
    /\ cfg["systemctl"] = "no" => cfg["services"] = "empty"
    /\ cfg["docker"] = "no" => cfg["containers"] = "empty"
    /\ cfg["journal"] = "no" => cfg["units"] = "empty"

\* When the input ends the wizard comes to an end too, by the defaults, unless
\* it is about to ask for a value that has no default: then it asks forever.
\* That takes a provider chosen before the input ended; by default there is none.
WizardEnds ==
  ended /\ question \notin {"baseURL", "model", "apiKey"} ~> question \in Ends
=============================================================================
