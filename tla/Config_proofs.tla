--------------------------- MODULE Config_proofs ---------------------------
(***************************************************************************)
(* What Normalize does to any settings, and the properties of Config for   *)
(* any settings, defaults and edits.  Then the properties of Setup, the    *)
(* instance W of MCConfiguration, for every dialogue; and those of         *)
(* ConfigFile, for any number of runs of the wizard and seconds.           *)
(***************************************************************************)
EXTENDS MCConfiguration, ConfigFile, TLAPS

\* Settings that Normalize makes, and leaves alone.
Normal(c) ==
  /\ DOMAIN c = Settings
  /\ \A f \in Settings : Proper(f, c[f])
  /\ c["max_log_lines"] >= c["default_log_lines"]

\* Numbers are integers, as the parser of the file makes sure.
Typed(c) == \A f \in (Positive \cup {"temperature"}) \cap DOMAIN c : c[f] \in Int

\* The two log lines are settings of the kind of numbers.
LEMMA LogLines ==
  /\ {"default_log_lines", "max_log_lines"} \subseteq Positive
  /\ Positive \subseteq Settings
  /\ \A v : Proper("max_log_lines", v) <=> v > 0
  /\ \A v : Proper("default_log_lines", v) <=> v > 0
BY ConfigAssumption DEF Positive, Settings, Proper

\* What Filled does to settings of integers.
LEMMA FilledProper ==
  ASSUME NEW c, Typed(c), DOMAIN c = Settings
  PROVE  /\ Filled(c) = [f \in Settings |-> Filled(c)[f]]
         /\ \A f \in Settings : Proper(f, Filled(c)[f])
         /\ \A f \in Settings : Proper(f, c[f]) => Filled(c)[f] = c[f]
         /\ Typed(Filled(c))
<1>1. /\ "max_log_lines" \in Settings /\ "default_log_lines" \in Settings
      /\ "max_log_lines" \in Positive /\ "default_log_lines" \in Positive
  BY LogLines
<1>2. \A f \in Settings : Filled(c)[f] = IF Proper(f, c[f]) THEN c[f] ELSE Default[f]
  BY DEF Filled
<1>3. \A f \in Settings : Proper(f, Filled(c)[f])
  BY <1>2, ConfigAssumption
<1>4. Typed(Filled(c))
  BY <1>2, ConfigAssumption DEF Typed, Filled, Settings
<1> QED BY <1>2, <1>3, <1>4 DEF Filled

\* Normalize makes normal settings of any, keeps what is proper, and raises
\* the limit of log lines but never lowers it.
LEMMA NormalizeNormal ==
  ASSUME NEW c, Typed(c), DOMAIN c = Settings
  PROVE  /\ Normal(Normalize(c)) /\ Typed(Normalize(c))
         /\ \A f \in Settings : Proper(f, c[f]) =>
              \/ Normalize(c)[f] = c[f]
              \/ f = "max_log_lines" /\ c[f] < Normalize(c)["default_log_lines"]
<1> DEFINE F == Filled(c)
           N == Normalize(c)
<1> USE LogLines, FilledProper
<1>1. /\ DOMAIN N = Settings
      /\ \A f \in Settings \ {"max_log_lines"} : N[f] = F[f]
      /\ N["max_log_lines"] = IF F["max_log_lines"] < F["default_log_lines"]
                                THEN F["default_log_lines"] ELSE F["max_log_lines"]
  <2>1. F = [f \in Settings |-> F[f]] /\ "max_log_lines" \in Settings
    OBVIOUS
  <2> HIDE DEF F
  <2>2. N = [F EXCEPT !["max_log_lines"] = IF F["max_log_lines"] < F["default_log_lines"]
                                THEN F["default_log_lines"] ELSE F["max_log_lines"]]
    BY <2>1 DEF Normalize, F
  <2> HIDE DEF N
  <2> QED BY <2>1, <2>2
<1> HIDE DEF N, F
<1>2. "default_log_lines" \in Settings \ {"max_log_lines"}
  BY LogLines
<1>3. /\ F["max_log_lines"] \in Int /\ F["default_log_lines"] \in Int
      /\ F["max_log_lines"] > 0 /\ F["default_log_lines"] > 0
  BY <1>2 DEF F, Typed, Filled
<1>4. N["max_log_lines"] >= N["default_log_lines"] /\ N["max_log_lines"] > 0
  BY <1>1, <1>2, <1>3
<1>5. \A f \in Settings : Proper(f, N[f])
  BY <1>1, <1>4 DEF F
<1>6. \A f \in Settings : Proper(f, c[f]) =>
        \/ N[f] = c[f]
        \/ f = "max_log_lines" /\ c[f] < N["default_log_lines"]
  BY <1>1, <1>2, <1>3 DEF F
<1>7. Typed(N)
  <2>1. Typed(F) /\ DOMAIN F = Settings
    BY DEF F, Filled
  <2> QED BY <1>1, <1>3, <2>1 DEF Typed
<1> QED BY <1>1, <1>4, <1>5, <1>6, <1>7 DEF Normal, N

-----------------------------------------------------------------------------
\* The files and what is loaded are of these kinds.
Inv ==
  /\ Typed(file) /\ DOMAIN file \subseteq Settings
  /\ Normal(loaded)

\* The settings that the wizard saves are settings of integers.
LEMMA SavedTyped ==
  ASSUME NEW a \in Int, NEW b \in Int
  PROVE  LET c == [Default EXCEPT !["default_log_lines"] = a, !["max_log_lines"] = b]
         IN  Typed(c) /\ DOMAIN c = Settings
BY ConfigAssumption DEF Typed

\* What is loaded from a file is normal, and has what the file sets properly.
LEMMA LoadNormal ==
  ASSUME Typed(file), DOMAIN file \subseteq Settings
  PROVE  /\ Normal(LoadOf(file))
         /\ \A f \in DOMAIN file : Proper(f, file[f]) =>
              \/ LoadOf(file)[f] = file[f]
              \/ f = "max_log_lines" /\ file[f] < LoadOf(file)["default_log_lines"]
<1> DEFINE c == [f \in Settings |-> IF f \in DOMAIN file THEN file[f] ELSE Default[f]]
<1>1. DOMAIN c = Settings /\ \A f \in DOMAIN file : c[f] = file[f]
  OBVIOUS
<1>2. Typed(c)
  BY ConfigAssumption DEF Typed
<1>3. LoadOf(file) = Normalize(c)
  BY DEF LoadOf
<1> HIDE DEF c
<1> QED BY <1>1, <1>2, <1>3, NormalizeNormal

LEMMA InitInv == Init => Inv
<1> SUFFICES ASSUME Init PROVE Inv
  OBVIOUS
<1>1. Typed(file) /\ DOMAIN file \subseteq Settings
  BY ConfigAssumption DEF Init, Typed
<1>2. Normal(loaded)
  BY ConfigAssumption DEF Init, Normal
<1> QED BY <1>1, <1>2 DEF Inv

LEMMA NextInv == Inv /\ [Next]_vars => Inv'
<1> SUFFICES ASSUME Inv, [Next]_vars PROVE Inv'
  OBVIOUS
<1>1. ASSUME NEW f \in Settings, Edit(f) PROVE Inv'
  <2>1. loaded' = loaded
    BY <1>1 DEF Edit
  <2>2. CASE \E v \in ValuesOf(f) :
               file' = [g \in DOMAIN file \cup {f} |-> IF g = f THEN v ELSE file[g]]
    <3>1. PICK v \in ValuesOf(f) :
                 file' = [g \in DOMAIN file \cup {f} |-> IF g = f THEN v ELSE file[g]]
      BY <2>2
    <3>2. f \in Positive \cup {"temperature"} => v \in Int
      <4>1. CASE f = "temperature"
        BY <3>1, <4>1, ConfigAssumption DEF ValuesOf
      <4>2. CASE f \in Positive
        BY <3>1, <4>2, ConfigAssumption DEF ValuesOf
      <4> QED BY <4>1, <4>2
    <3> QED BY <2>1, <3>1, <3>2 DEF Inv, Typed, Normal
  <2>3. CASE file' = [g \in DOMAIN file \ {f} |-> file[g]]
    BY <2>1, <2>3 DEF Inv, Typed, Normal
  <2> QED BY <1>1, <2>2, <2>3 DEF Edit
<1>2. CASE Load
  BY <1>2, LoadNormal DEF Load, Inv, Normal, Typed
<1>3. CASE Save
  <2>1. PICK lines \in {<<Default["default_log_lines"], Default["max_log_lines"]>>, ProfileLines} :
          file' = Normalize([Default EXCEPT !["default_log_lines"] = lines[1],
                                            !["max_log_lines"] = lines[2]])
    BY <1>3 DEF Save
  <2>2. lines[1] \in Int /\ lines[2] \in Int
    BY LogLines, ConfigAssumption
  <2> DEFINE c == [Default EXCEPT !["default_log_lines"] = lines[1],
                                  !["max_log_lines"] = lines[2]]
  <2>3. Typed(c) /\ DOMAIN c = Settings
    BY <2>2, SavedTyped
  <2> HIDE DEF c
  <2>4. Typed(Normalize(c)) /\ Normal(Normalize(c))
    BY <2>3, NormalizeNormal
  <2>5. file' = Normalize(c) /\ loaded' = loaded
    BY <1>3, <2>1 DEF c, Save
  <2> QED BY <2>4, <2>5 DEF Inv, Normal
<1>4. CASE UNCHANGED vars
  BY <1>4 DEF vars, Inv, Typed, Normal
<1> QED BY <1>1, <1>2, <1>3, <1>4 DEF Next

\* Whatever the file says, the service runs with proper settings.
THEOREM AlwaysUsable == Spec => []Usable
<1>1. Inv => Usable
  BY DEF Inv, Normal, Usable
<1> QED BY <1>1, InitInv, NextInv, PTL DEF Spec

\* What the file sets properly is what the service gets, but for the limit of
\* log lines that is raised.
THEOREM EditsAreTaken == Spec => EditsTakeEffect
<1>1. ASSUME Inv, [Next]_vars, loaded' # loaded, NEW f \in DOMAIN file, Proper(f, file[f])
      PROVE  \/ loaded'[f] = file[f]
             \/ f = "max_log_lines" /\ file[f] < loaded'["default_log_lines"]
  <2>1. loaded' = LoadOf(file)
    BY <1>1 DEF Next, vars, Edit, Load, Save
  <2> QED BY <1>1, <2>1, LoadNormal DEF Inv
<1>2. Inv /\ [Next]_vars =>
        [loaded' # loaded =>
           \A f \in DOMAIN file : Proper(f, file[f]) =>
             \/ loaded'[f] = file[f]
             \/ f = "max_log_lines" /\ file[f] < loaded'["default_log_lines"]]_vars
  BY <1>1
<1> QED BY <1>2, InitInv, NextInv, PTL DEF Spec, EditsTakeEffect
-----------------------------------------------------------------------------
(***************************************************************************)
(* Setup                                                                   *)
(***************************************************************************)
\* What each setting can be.
SettingType(s) ==
  IF s = "provider" THEN W!Providers
  ELSE IF s = "baseURL" THEN {"set"}
  ELSE IF s \in W!YesNo THEN {"yes", "no"}
  ELSE {"set", "empty"}

\* The list of a tool that is off is empty, and it is asked for only if the
\* tool is on.
OffIsEmpty(switch, settings) ==
  /\ cfg[switch] = "no" => \A s \in settings : cfg[s] = "empty"
  /\ question \in settings => cfg[switch] = "yes"

SetupInv ==
  /\ question \in W!Questions \cup W!Ends \cup {"save"}
  /\ DOMAIN cfg = W!Settings /\ \A s \in W!Settings : cfg[s] \in SettingType(s)
  /\ OffIsEmpty("systemctl", {"services"})
  /\ OffIsEmpty("docker", {"containers"})
  /\ OffIsEmpty("journal", {"units"})
  /\ service # "down" => question = "wrote"
  /\ W!WarnedOrStarts

\* What an answer to each question can be.
AnswerType(q) ==
  IF q = "profile" THEN W!Profiles
  ELSE IF q \in {"loginNow", "useEnv", "overwrite"} THEN {"yes", "no"}
  ELSE SettingType(q)

\* A line that is given, or the default that stands for a blank one.
LEMMA AnswersTyped ==
  ASSUME SetupInv, NEW q \in W!Questions
  PROVE  /\ \A v \in W!Answers(q) : v \in AnswerType(q)
         /\ W!DefaultAnswer(q) \in AnswerType(q)
<1>1. \A s \in W!Settings : cfg[s] \in SettingType(s)
  BY DEF SetupInv
<1>2. \A v \in W!Answers(q) : v \in AnswerType(q)
  BY DEF W!Answers, AnswerType, SettingType, W!Questions, W!YesNo, W!Choices, W!CommaLists,
     W!Lines, W!Required
<1>3. W!DefaultAnswer(q) \in AnswerType(q)
  BY <1>1 DEF W!DefaultAnswer, AnswerType, SettingType, W!Settings, W!Questions, W!YesNo,
     W!Choices, W!CommaLists, W!Lines, W!Required, W!Profiles
<1> QED BY <1>2, <1>3

\* An answer is stored, and empties what its Clears says.
LEMMA StoreSettings ==
  ASSUME NEW q, q # "profile", NEW v, W!Store(q, v)
  PROVE  /\ DOMAIN cfg' = W!Settings
         /\ \A s \in W!Settings :
              cfg'[s] = IF s = q THEN v ELSE IF s \in W!Clears(q, v) THEN "empty" ELSE cfg[s]
<1>1. cfg' = [s \in W!Settings |-> CASE s = q -> v
                                     [] s \in W!Clears(q, v) -> "empty"
                                     [] OTHER -> cfg[s]]
  BY DEF W!Store
<1>2. ASSUME NEW s \in W!Settings
      PROVE  cfg'[s] = IF s = q THEN v ELSE IF s \in W!Clears(q, v) THEN "empty" ELSE cfg[s]
  <2>1. cfg'[s] = CASE s = q -> v
                    [] s \in W!Clears(q, v) -> "empty"
                    [] OTHER -> cfg[s]
    BY <1>1
  <2>2. q \notin W!Clears(q, v)
    BY DEF W!Clears
  <2>3. CASE s = q
    BY <2>1, <2>2, <2>3
  <2>4. CASE s # q /\ s \in W!Clears(q, v)
    BY <2>1, <2>4
  <2>5. CASE s # q /\ s \notin W!Clears(q, v)
    BY <2>1, <2>5
  <2> QED BY <2>3, <2>4, <2>5
<1>3. DOMAIN cfg' = W!Settings
  BY <1>1
<1> QED BY <1>2, <1>3

\* The profile is asked first, and changes the tools only.
LEMMA ProfileIsSafe ==
  ASSUME SetupInv, NEW v \in W!Profiles, W!Take("profile", v)
  PROVE  SetupInv'
<1>1. question = "profile" /\ question' = "telegram" /\ service' = service /\ service = "down"
  BY DEF W!Take, W!Follow, SetupInv
<1>2. cfg' = W!ProfileConfig(v)
  BY DEF W!Take, W!Store
<1>3. DOMAIN cfg' = W!Settings /\ \A s \in W!Settings : cfg'[s] \in SettingType(s)
  BY <1>2 DEF W!ProfileConfig, W!DefaultConfig, SettingType, W!Settings, W!Questions, W!YesNo,
     W!Choices, W!CommaLists, W!Lines, W!Required, W!Providers
<1>4. /\ cfg'["systemctl"] = "yes" /\ cfg'["journal"] = "yes"
      /\ cfg'["docker"] = "no" => cfg'["containers"] = "empty"
  BY <1>2 DEF W!ProfileConfig, W!DefaultConfig, W!Settings, W!Questions, W!YesNo,
     W!Choices, W!CommaLists, W!Lines, W!Required
<1> QED BY <1>1, <1>3, <1>4 DEF SetupInv, OffIsEmpty, W!Questions, W!YesNo, W!WarnedOrStarts

\* A list that is asked for when its switch is on, and emptied when that is
\* turned off.
LEMMA SwitchIsSafe ==
  ASSUME NEW switch \in W!Settings, NEW settings \in SUBSET W!Settings, switch \notin settings,
         OffIsEmpty(switch, settings),
         NEW q, q # "profile", NEW v, question = q, W!Store(q, v),
         q = switch /\ v = "no" => settings \subseteq W!Clears(q, v),
         switch \notin W!Clears(q, v),
         question' \in settings => question \in settings \/ (q = switch /\ v = "yes")
  PROVE  OffIsEmpty(switch, settings)'
<1>1. /\ DOMAIN cfg' = W!Settings
      /\ \A s \in W!Settings :
           cfg'[s] = IF s = q THEN v ELSE IF s \in W!Clears(q, v) THEN "empty" ELSE cfg[s]
  BY StoreSettings
<1>2. ASSUME cfg'[switch] = "no", NEW s \in settings PROVE cfg'[s] = "empty"
  <2>1. CASE q = switch
    BY <1>1, <1>2, <2>1
  <2>2. CASE q # switch
    BY <1>1, <1>2, <2>2 DEF OffIsEmpty
  <2> QED BY <2>1, <2>2
<1>3. ASSUME question' \in settings PROVE cfg'[switch] = "yes"
  BY <1>1, <1>3 DEF OffIsEmpty
<1> QED BY <1>2, <1>3 DEF OffIsEmpty

\* The questions that follow one another.
LEMMA FollowOrder ==
  ASSUME NEW q \in W!Questions \ {"profile"}, NEW v \in AnswerType(q),
         question = q, question' = W!Follow(q, v)
  PROVE  /\ question' \in W!Questions \cup W!Ends \cup {"save"}
         /\ question' = "services" => q = "systemctl" /\ v = "yes"
         /\ question' = "containers" => q = "docker" /\ v = "yes"
         /\ question' = "units" => q = "journal" /\ v = "yes"
         /\ question' # "wrote"
<1>1. q \in {"telegram", "token", "allowList", "whatsapp", "dsn", "provider", "baseURL", "model",
            "authPath", "useEnv", "loginNow", "envName", "apiKey", "shell", "systemctl", "services",
            "docker", "containers", "journal", "units", "health", "host", "port", "overwrite"}
  BY DEF W!Questions, W!YesNo, W!Choices, W!CommaLists, W!Lines, W!Required
<1>2. ASSUME q = "provider" PROVE v \in {"disabled", "codex_oauth", "openai_compat"}
  <2>1. AnswerType("provider") = W!Providers
    BY DEF AnswerType, SettingType
  <2> QED BY <1>2, <2>1 DEF W!Providers
<1>3. /\ question' = "services" => q = "systemctl" /\ v = "yes"
      /\ question' = "containers" => q = "docker" /\ v = "yes"
      /\ question' = "units" => q = "journal" /\ v = "yes"
  BY <1>1, <1>2 DEF W!Follow
<1>4. question' \in {"save", "failed", "telegram", "token", "allowList", "whatsapp", "dsn",
          "provider", "baseURL", "model", "authPath", "useEnv", "loginNow", "envName", "apiKey",
          "shell", "systemctl", "services", "docker", "containers", "journal", "units", "health",
          "host", "port", "overwrite"}
  BY <1>1, <1>2 DEF W!Follow
<1>5. question' \in W!Questions \cup W!Ends \cup {"save"}
  BY <1>4 DEF W!Questions, W!YesNo, W!Choices, W!CommaLists, W!Lines, W!Required, W!Ends
<1> QED BY <1>3, <1>4, <1>5

\* An answer to any other question.
LEMMA TakeIsSafe ==
  ASSUME SetupInv, NEW q \in W!Questions \ {"profile"}, NEW v \in AnswerType(q), W!Take(q, v)
  PROVE  SetupInv'
<1>1. question = q /\ question' = W!Follow(q, v) /\ W!Store(q, v) /\ service' = service
  BY DEF W!Take
<1>2. /\ DOMAIN cfg' = W!Settings
      /\ \A s \in W!Settings :
           cfg'[s] = IF s = q THEN v ELSE IF s \in W!Clears(q, v) THEN "empty" ELSE cfg[s]
  BY <1>1, StoreSettings
<1>3. /\ {"systemctl", "services", "docker", "containers", "journal", "units"} \subseteq W!Settings
      /\ q \in W!Settings => AnswerType(q) = SettingType(q)
  BY DEF W!Settings, W!Questions, W!YesNo, W!Choices, W!CommaLists, W!Lines, W!Required,
     AnswerType
<1>4. ASSUME NEW s \in W!Clears(q, v)
      PROVE  s \in {"token", "allowList", "services", "containers", "units", "apiKey"}
  BY DEF W!Clears
<1>5. \A s \in W!Settings : cfg'[s] \in SettingType(s)
  <2>1. \A s \in W!Clears(q, v) : SettingType(s) = {"set", "empty"}
    BY <1>4 DEF SettingType, W!YesNo
  <2>2. ASSUME NEW s \in W!Settings PROVE cfg'[s] \in SettingType(s)
    <3>1. CASE s = q
      BY <1>2, <1>3, <3>1
    <3>2. CASE s # q /\ s \in W!Clears(q, v)
      BY <1>2, <2>1, <3>2
    <3>3. CASE s # q /\ s \notin W!Clears(q, v)
      BY <1>2, <3>3 DEF SetupInv
    <3> QED BY <3>1, <3>2, <3>3
  <2> QED BY <2>2
<1>6. OffIsEmpty("systemctl", {"services"})'
  BY <1>1, <1>3, <1>4, SwitchIsSafe, FollowOrder DEF SetupInv, W!Clears
<1>7. OffIsEmpty("docker", {"containers"})'
  BY <1>1, <1>3, <1>4, SwitchIsSafe, FollowOrder DEF SetupInv, W!Clears
<1>8. OffIsEmpty("journal", {"units"})'
  BY <1>1, <1>3, <1>4, SwitchIsSafe, FollowOrder DEF SetupInv, W!Clears
<1>9. (service # "down" => question = "wrote")' /\ W!WarnedOrStarts'
  <2>1. service = "down"
    BY <1>1 DEF SetupInv, W!Questions, W!YesNo, W!Choices, W!CommaLists, W!Lines, W!Required
  <2> QED BY <1>1, <2>1 DEF W!WarnedOrStarts
<1>10. question' \in W!Questions \cup W!Ends \cup {"save"}
  BY <1>1, FollowOrder
<1> QED BY <1>2, <1>5, <1>6, <1>7, <1>8, <1>9, <1>10 DEF SetupInv

\* The steps that leave the configuration as it is.
LEMMA KeepsSettings ==
  ASSUME SetupInv, cfg' = cfg, UNCHANGED <<service, keyInEnv>>, service = "down",
         question' \in {question} \cup W!Ends
  PROVE  SetupInv'
<1>1. W!Ends = {"wrote", "failed"}
  BY DEF W!Ends
<1>2. W!WarnedOrStarts'
  BY DEF W!WarnedOrStarts
<1> QED BY <1>1, <1>2 DEF SetupInv, OffIsEmpty

\* The service refuses to start only for what the wizard warns of, or for a
\* key that is not in the environment.
LEMMA StartIsSafe ==
  ASSUME SetupInv, W!Start
  PROVE  SetupInv'
<1>1. question = "wrote" /\ UNCHANGED <<question, cfg, keyInEnv>>
  BY DEF W!Start
<1>2. ASSUME service' = "refused"
      PROVE  W!Warnings # {} \/ (cfg["provider"] = "openai_compat" /\ cfg["envName"] = "set" /\ ~keyInEnv)
  <2>1. ~ W!Startable
    BY <1>2 DEF W!Start
  <2>2. /\ cfg["token"] \in {"set", "empty"} /\ cfg["model"] \in {"set", "empty"}
        /\ cfg["apiKey"] \in {"set", "empty"} /\ cfg["envName"] \in {"set", "empty"}
        /\ cfg["baseURL"] = "set"
    BY DEF SetupInv, SettingType, W!Settings, W!Questions, W!YesNo, W!Choices, W!CommaLists,
       W!Lines, W!Required
  <2>3. CASE cfg["telegram"] = "yes" /\ cfg["token"] # "set"
    <3>1. "token" \in W!Warnings
      BY <2>2, <2>3 DEF W!Warnings
    <3> QED BY <3>1
  <2>4. CASE cfg["provider"] # "disabled" /\ cfg["model"] # "set"
    <3>1. "model" \in W!Warnings
      BY <2>2, <2>4 DEF W!Warnings
    <3> QED BY <3>1
  <2>5. CASE cfg["provider"] = "openai_compat" /\ ~ W!HasKey
    <3>1. cfg["envName"] = "empty" => "key" \in W!Warnings
      BY <2>2, <2>5 DEF W!Warnings, W!HasKey
    <3> QED BY <2>2, <2>5, <3>1 DEF W!HasKey
  <2> QED BY <2>1, <2>2, <2>3, <2>4, <2>5 DEF W!Startable
<1>3. W!Warnings' = W!Warnings
  BY <1>1 DEF W!Warnings
<1>4. W!WarnedOrStarts'
  BY <1>1, <1>2, <1>3 DEF W!WarnedOrStarts
<1> QED BY <1>1, <1>4 DEF SetupInv, OffIsEmpty

LEMMA SetupInvariant == W!Spec => []SetupInv
<1>1. W!Init => SetupInv
  <2> SUFFICES ASSUME W!Init PROVE SetupInv
    OBVIOUS
  <2>1. question = "profile" /\ service = "down" /\ cfg = W!DefaultConfig
    BY DEF W!Init
  <2>2. DOMAIN cfg = W!Settings /\ \A s \in W!Settings : cfg[s] \in SettingType(s)
    BY <2>1 DEF W!DefaultConfig, SettingType, W!Settings, W!Questions, W!YesNo,
       W!Choices, W!CommaLists, W!Lines, W!Required, W!Providers
  <2>3. \A s \in {"services", "containers", "units"} : cfg[s] = "empty"
    BY <2>1 DEF W!DefaultConfig, W!Settings, W!Questions, W!YesNo, W!Choices, W!CommaLists,
       W!Lines, W!Required
  <2> QED BY <2>1, <2>2, <2>3 DEF SetupInv, OffIsEmpty, W!Questions, W!Choices,
          W!WarnedOrStarts
<1>2. SetupInv /\ [W!Next]_W!vars => SetupInv'
  <2> SUFFICES ASSUME SetupInv, [W!Next]_W!vars PROVE SetupInv'
    OBVIOUS
  <2>1. ASSUME NEW q \in W!Questions, NEW v \in AnswerType(q), W!Take(q, v) PROVE SetupInv'
    BY <2>1, ProfileIsSafe, TakeIsSafe DEF AnswerType
  <2>2. ASSUME NEW q \in W!Questions, W!Answer(q) \/ W!Blank(q) PROVE SetupInv'
    BY <2>1, <2>2, AnswersTyped DEF W!Answer, W!Blank
  <2>3. question \in W!Questions \cup {"save"} => service = "down"
    BY DEF SetupInv, W!Questions, W!YesNo, W!Choices, W!CommaLists, W!Lines, W!Required
  <2>4. CASE W!Abort
    BY <2>3, <2>4, KeepsSettings DEF W!Abort, W!Ends
  <2>5. CASE W!EndInput
    BY <2>3, <2>5, KeepsSettings DEF W!EndInput
  <2>6. CASE W!Save
    BY <2>3, <2>6, KeepsSettings DEF W!Save
  <2>7. CASE W!Start
    BY <2>7, StartIsSafe
  <2>8. CASE UNCHANGED W!vars
    <3>1. UNCHANGED <<question, cfg, service, keyInEnv>>
      BY <2>8 DEF W!vars
    <3>2. W!WarnedOrStarts'
      <4>1. W!Warnings' = W!Warnings
        BY <3>1 DEF W!Warnings
      <4> QED BY <3>1, <4>1 DEF SetupInv, W!WarnedOrStarts
    <3> QED BY <3>1, <3>2 DEF SetupInv, OffIsEmpty
  <2> QED BY <2>2, <2>4, <2>5, <2>6, <2>7, <2>8 DEF W!Next
<1> QED BY <1>1, <1>2, PTL DEF W!Spec

\* printWarnings warns of whatever the constructors that main calls refuse, but
\* for a key that the environment lacks: for every dialogue, however it ends.
THEOREM RefusedOnlyIfWarned == W!Spec => []WarnedOrStarts
<1>1. SetupInv => WarnedOrStarts
  BY DEF SetupInv, WarnedOrStarts
<1> QED BY <1>1, SetupInvariant, PTL

\* In every dialogue, whatever the profile suggests and however often a question
\* is asked again: the wizard writes no list of services, containers or units
\* for a tool that was declined.
THEOREM DeclinedListsAreCleared == W!Spec => []DeclinedListsAreEmpty
<1>1. SetupInv => DeclinedListsAreEmpty
  BY DEF SetupInv, OffIsEmpty, DeclinedListsAreEmpty, W!DeclinedListsAreEmpty
<1> QED BY <1>1, SetupInvariant, PTL

-----------------------------------------------------------------------------
(***************************************************************************)
(* ConfigFile.  Why nothing is lost: a run writes to a backup that nobody  *)
(* else uses, so the backup is whole before the run touches the            *)
(* configuration file; and while it is the only run under way, the file it *)
(* replaces is the one it has read.                                        *)
(***************************************************************************)
\* A temporary file is renamed, or is about to be, only when it is whole.
TempWhole ==
  \A w \in Runs : pc[w] \in {"rename", "remove", "retry"} => temp[w] = w

\* The configuration file holds what a run has put there, or is absent for a
\* cause.
PathOK ==
  /\ path \in published \cup {Absent}
  /\ path = Absent => AbsentForCause

\* Which runs have a name for their backup.
Named ==
  \A w \in Runs : /\ pc[w] \in {"stat", "confirm", "name"} => backupPath[w] = NoBackup
                  /\ pc[w] \in {"read", "backup", "fill"} => backupPath[w] # NoBackup

\* The name of the backup of w is that of no other run.
OwnName(w) == \A v \in Runs : ~Clash(v, w)

\* A backup is empty until its run fills it.
Truncated ==
  \A w \in Runs : pc[w] = "fill" /\ OwnName(w) => backups[backupPath[w]] = Torn

\* Runs follow one another, each with a backup of its own.
InTurn == ~overlapped /\ \A w \in Runs : OwnName(w)

\* Then one run is under way at a time;
OneUnderWay == ~overlapped => \A v, w \in Runs : UnderWay(v) /\ UnderWay(w) => v = w

\* nobody has a backup that no run has written;
BackupsOfRuns ==
  \A s \in Seconds : backups[s] # Absent =>
    \E v \in Runs : backupPath[v] = s /\ pc[v] \notin {"read", "backup"}

\* and the configuration that a run is to replace is the one that it has read.
ReplacesCopy ==
  ~overlapped => \A w \in Runs :
    /\ pc[w] \in {"backup", "fill"} => path = copy[w]
    /\ pc[w] \in {"create", "write", "rename", "remove", "retry"} =>
         path = Absent \/ (backupPath[w] # NoBackup /\ path = copy[w])

FileInv ==
  /\ TypeOK /\ TempWhole /\ PathOK /\ Named /\ Truncated /\ FoundIsKept
  /\ OneUnderWay /\ BackupsOfRuns /\ ReplacesCopy /\ NothingLost

-----------------------------------------------------------------------------
\* The invariant holds before the first run.
LEMMA FileInitInv == FileInit => FileInv
<1> SUFFICES ASSUME FileInit PROVE FileInv
  OBVIOUS
<1> USE ConfigFileAssumption DEF FileInit
<1>1. TypeOK
  <2>1. path \in Configs \cup {Absent, Torn} /\ published \subseteq Configs
    BY DEF Configs
  <2>2. second \in Seconds
    BY DEF Seconds
  <2> QED BY <2>1, <2>2 DEF TypeOK, Steps
<1>2. TempWhole /\ PathOK /\ Named /\ Truncated /\ FoundIsKept
  BY DEF TempWhole, PathOK, AbsentForCause, Named, Truncated, FoundIsKept, BackedUp
<1>3. OneUnderWay /\ BackupsOfRuns /\ ReplacesCopy
  BY DEF OneUnderWay, UnderWay, BackupsOfRuns, ReplacesCopy, Steps
<1>4. NothingLost
  BY DEF NothingLost, Kept
<1> QED BY <1>1, <1>2, <1>3, <1>4 DEF FileInv

-----------------------------------------------------------------------------
(* What a step of one run preserves, a part of the invariant at a time. *)

LEMMA TypeStep ==
  ASSUME FileInv, NEW w \in Runs, Step(w)
  PROVE  TypeOK'
<1> USE ConfigFileAssumption DEF FileInv, TypeOK, GoTo, files, history, Steps, Ends
<1>1. CASE Stat(w)
  BY <1>1 DEF Stat
<1>2. CASE Confirm(w)
  BY <1>2 DEF Confirm
<1>3. CASE NameBackup(w)
  BY <1>3 DEF NameBackup
<1>4. CASE ReadConfig(w)
  BY <1>4 DEF ReadConfig, PathOK, Configs
<1>5. CASE OpenBackup(w)
  BY <1>5 DEF OpenBackup, Named
<1>6. CASE FillBackup(w)
  BY <1>6 DEF FillBackup, Named
<1>7. CASE CreateTemp(w)
  BY <1>7 DEF CreateTemp
<1>8. CASE WriteTemp(w)
  BY <1>8 DEF WriteTemp, Configs
<1>9. CASE Rename(w)
  BY <1>9 DEF Rename, Configs
<1>10. CASE RenameRefused(w)
  BY <1>10 DEF RenameRefused
<1>11. CASE Remove(w)
  BY <1>11 DEF Remove
<1>12. CASE StepFails(w)
  BY <1>12 DEF StepFails, Fail
<1>13. CASE Crash(w)
  BY <1>13 DEF Crash, UnderWay
<1> QED BY <1>1, <1>2, <1>3, <1>4, <1>5, <1>6, <1>7, <1>8, <1>9, <1>10, <1>11, <1>12, <1>13 DEF Step

LEMMA TempStep ==
  ASSUME FileInv, NEW w \in Runs, Step(w)
  PROVE  TempWhole'
<1> USE ConfigFileAssumption DEF FileInv, TypeOK, GoTo, files, history, TempWhole
<1>1. CASE Stat(w)
  BY <1>1 DEF Stat
<1>2. CASE Confirm(w)
  BY <1>2 DEF Confirm
<1>3. CASE NameBackup(w)
  BY <1>3 DEF NameBackup
<1>4. CASE ReadConfig(w)
  BY <1>4 DEF ReadConfig
<1>5. CASE OpenBackup(w)
  BY <1>5 DEF OpenBackup
<1>6. CASE FillBackup(w)
  BY <1>6 DEF FillBackup
<1>7. CASE CreateTemp(w)
  BY <1>7 DEF CreateTemp
<1>8. CASE WriteTemp(w)
  BY <1>8 DEF WriteTemp
<1>9. CASE Rename(w)
  BY <1>9 DEF Rename
<1>10. CASE RenameRefused(w)
  BY <1>10 DEF RenameRefused
<1>11. CASE Remove(w)
  BY <1>11 DEF Remove
<1>12. CASE StepFails(w)
  BY <1>12 DEF StepFails, Fail
<1>13. CASE Crash(w)
  BY <1>13 DEF Crash, UnderWay
<1> QED BY <1>1, <1>2, <1>3, <1>4, <1>5, <1>6, <1>7, <1>8, <1>9, <1>10, <1>11, <1>12, <1>13 DEF Step


LEMMA PathStep ==
  ASSUME FileInv, NEW w \in Runs, Step(w)
  PROVE  PathOK'
<1> USE ConfigFileAssumption DEF FileInv, TypeOK, GoTo, files, history, PathOK, AbsentForCause, TempWhole, Configs
<1>1. CASE Stat(w)
  BY <1>1 DEF Stat
<1>2. CASE Confirm(w)
  BY <1>2 DEF Confirm
<1>3. CASE NameBackup(w)
  BY <1>3 DEF NameBackup
<1>4. CASE ReadConfig(w)
  BY <1>4 DEF ReadConfig
<1>5. CASE OpenBackup(w)
  BY <1>5 DEF OpenBackup
<1>6. CASE FillBackup(w)
  BY <1>6 DEF FillBackup
<1>7. CASE CreateTemp(w)
  BY <1>7 DEF CreateTemp
<1>8. CASE WriteTemp(w)
  BY <1>8 DEF WriteTemp
<1>9. CASE Rename(w)
  BY <1>9 DEF Rename
<1>10. CASE RenameRefused(w)
  BY <1>10 DEF RenameRefused
<1>11. CASE Remove(w)
  BY <1>11 DEF Remove
<1>12. CASE StepFails(w)
  BY <1>12 DEF StepFails, Fail
<1>13. CASE Crash(w)
  BY <1>13 DEF Crash, UnderWay
<1> QED BY <1>1, <1>2, <1>3, <1>4, <1>5, <1>6, <1>7, <1>8, <1>9, <1>10, <1>11, <1>12, <1>13 DEF Step


LEMMA NamedStep ==
  ASSUME FileInv, NEW w \in Runs, Step(w)
  PROVE  Named'
<1> USE ConfigFileAssumption DEF FileInv, TypeOK, GoTo, files, history, Named, Steps, Seconds, NoBackup
<1>1. CASE Stat(w)
  BY <1>1 DEF Stat
<1>2. CASE Confirm(w)
  BY <1>2 DEF Confirm
<1>3. CASE NameBackup(w)
  BY <1>3 DEF NameBackup
<1>4. CASE ReadConfig(w)
  BY <1>4 DEF ReadConfig
<1>5. CASE OpenBackup(w)
  BY <1>5 DEF OpenBackup
<1>6. CASE FillBackup(w)
  BY <1>6 DEF FillBackup
<1>7. CASE CreateTemp(w)
  BY <1>7 DEF CreateTemp
<1>8. CASE WriteTemp(w)
  BY <1>8 DEF WriteTemp
<1>9. CASE Rename(w)
  BY <1>9 DEF Rename
<1>10. CASE RenameRefused(w)
  BY <1>10 DEF RenameRefused
<1>11. CASE Remove(w)
  BY <1>11 DEF Remove
<1>12. CASE StepFails(w)
  BY <1>12 DEF StepFails, Fail
<1>13. CASE Crash(w)
  BY <1>13 DEF Crash, UnderWay
<1> QED BY <1>1, <1>2, <1>3, <1>4, <1>5, <1>6, <1>7, <1>8, <1>9, <1>10, <1>11, <1>12, <1>13 DEF Step


LEMMA TruncatedStep ==
  ASSUME FileInv, NEW w \in Runs, Step(w)
  PROVE  Truncated'
<1> USE ConfigFileAssumption DEF FileInv, TypeOK, GoTo, files, history, Named, Truncated, OwnName, Clash
<1>1. CASE Stat(w)
  BY <1>1 DEF Stat
<1>2. CASE Confirm(w)
  BY <1>2 DEF Confirm
<1>3. CASE NameBackup(w)
  BY <1>3 DEF NameBackup
<1>4. CASE ReadConfig(w)
  BY <1>4 DEF ReadConfig
<1>5. CASE OpenBackup(w)
  BY <1>5 DEF OpenBackup
<1>6. CASE FillBackup(w)
  BY <1>6 DEF FillBackup
<1>7. CASE CreateTemp(w)
  BY <1>7 DEF CreateTemp
<1>8. CASE WriteTemp(w)
  BY <1>8 DEF WriteTemp
<1>9. CASE Rename(w)
  BY <1>9 DEF Rename
<1>10. CASE RenameRefused(w)
  BY <1>10 DEF RenameRefused
<1>11. CASE Remove(w)
  BY <1>11 DEF Remove
<1>12. CASE StepFails(w)
  BY <1>12 DEF StepFails, Fail
<1>13. CASE Crash(w)
  BY <1>13 DEF Crash, UnderWay
<1> QED BY <1>1, <1>2, <1>3, <1>4, <1>5, <1>6, <1>7, <1>8, <1>9, <1>10, <1>11, <1>12, <1>13 DEF Step


LEMMA FoundStep ==
  ASSUME FileInv, NEW w \in Runs, Step(w)
  PROVE  FoundIsKept'
<1> USE ConfigFileAssumption DEF FileInv, TypeOK, GoTo, files, history, Named, Truncated, OwnName, Clash, FoundIsKept, BackedUp
<1>1. CASE Stat(w)
  BY <1>1 DEF Stat
<1>2. CASE Confirm(w)
  BY <1>2 DEF Confirm
<1>3. CASE NameBackup(w)
  BY <1>3 DEF NameBackup
<1>4. CASE ReadConfig(w)
  BY <1>4 DEF ReadConfig
<1>5. CASE OpenBackup(w)
  BY <1>5 DEF OpenBackup
<1>6. CASE FillBackup(w)
  BY <1>6 DEF FillBackup
<1>7. CASE CreateTemp(w)
  BY <1>7 DEF CreateTemp
<1>8. CASE WriteTemp(w)
  BY <1>8 DEF WriteTemp
<1>9. CASE Rename(w)
  BY <1>9 DEF Rename
<1>10. CASE RenameRefused(w)
  BY <1>10 DEF RenameRefused
<1>11. CASE Remove(w)
  BY <1>11 DEF Remove
<1>12. CASE StepFails(w)
  BY <1>12 DEF StepFails, Fail
<1>13. CASE Crash(w)
  BY <1>13 DEF Crash, UnderWay
<1> QED BY <1>1, <1>2, <1>3, <1>4, <1>5, <1>6, <1>7, <1>8, <1>9, <1>10, <1>11, <1>12, <1>13 DEF Step


LEMMA OneStep ==
  ASSUME FileInv, NEW w \in Runs, Step(w)
  PROVE  OneUnderWay'
<1> USE ConfigFileAssumption DEF FileInv, TypeOK, GoTo, files, history, OneUnderWay, UnderWay, Steps, Ends
<1>1. CASE Stat(w)
  <2>1. \A v \in Runs \ {w} : pc'[v] = pc[v]
    BY <1>1 DEF Stat
  <2>2. ~overlapped' => ~overlapped /\ \A v \in Runs \ {w} : ~UnderWay(v)
    BY <1>1 DEF Stat
  <2> QED BY <2>1, <2>2
<1>2. CASE Confirm(w)
  BY <1>2 DEF Confirm
<1>3. CASE NameBackup(w)
  BY <1>3 DEF NameBackup
<1>4. CASE ReadConfig(w)
  BY <1>4 DEF ReadConfig
<1>5. CASE OpenBackup(w)
  BY <1>5 DEF OpenBackup
<1>6. CASE FillBackup(w)
  BY <1>6 DEF FillBackup
<1>7. CASE CreateTemp(w)
  BY <1>7 DEF CreateTemp
<1>8. CASE WriteTemp(w)
  BY <1>8 DEF WriteTemp
<1>9. CASE Rename(w)
  BY <1>9 DEF Rename
<1>10. CASE RenameRefused(w)
  BY <1>10 DEF RenameRefused
<1>11. CASE Remove(w)
  BY <1>11 DEF Remove
<1>12. CASE StepFails(w)
  BY <1>12 DEF StepFails, Fail
<1>13. CASE Crash(w)
  BY <1>13 DEF Crash, UnderWay
<1> QED BY <1>1, <1>2, <1>3, <1>4, <1>5, <1>6, <1>7, <1>8, <1>9, <1>10, <1>11, <1>12, <1>13 DEF Step


LEMMA OfRunsStep ==
  ASSUME FileInv, NEW w \in Runs, Step(w)
  PROVE  BackupsOfRuns'
<1> USE ConfigFileAssumption DEF FileInv, TypeOK, GoTo, files, history, BackupsOfRuns, Named, Seconds, NoBackup
<1>1. CASE Stat(w)
  BY <1>1 DEF Stat
<1>2. CASE Confirm(w)
  BY <1>2 DEF Confirm
<1>3. CASE NameBackup(w)
  BY <1>3 DEF NameBackup
<1>4. CASE ReadConfig(w)
  BY <1>4 DEF ReadConfig
<1>5. CASE OpenBackup(w)
  BY <1>5 DEF OpenBackup
<1>6. CASE FillBackup(w)
  BY <1>6 DEF FillBackup
<1>7. CASE CreateTemp(w)
  BY <1>7 DEF CreateTemp
<1>8. CASE WriteTemp(w)
  BY <1>8 DEF WriteTemp
<1>9. CASE Rename(w)
  BY <1>9 DEF Rename
<1>10. CASE RenameRefused(w)
  BY <1>10 DEF RenameRefused
<1>11. CASE Remove(w)
  BY <1>11 DEF Remove
<1>12. CASE StepFails(w)
  BY <1>12 DEF StepFails, Fail
<1>13. CASE Crash(w)
  BY <1>13 DEF Crash, UnderWay
<1> QED BY <1>1, <1>2, <1>3, <1>4, <1>5, <1>6, <1>7, <1>8, <1>9, <1>10, <1>11, <1>12, <1>13 DEF Step


LEMMA CopyStep ==
  ASSUME FileInv, NEW w \in Runs, Step(w)
  PROVE  ReplacesCopy'
<1> USE ConfigFileAssumption DEF FileInv, TypeOK, GoTo, files, history, ReplacesCopy, OneUnderWay, UnderWay, Steps, Ends, Named
<1>1. CASE Stat(w)
  BY <1>1 DEF Stat
<1>2. CASE Confirm(w)
  BY <1>2 DEF Confirm
<1>3. CASE NameBackup(w)
  BY <1>3 DEF NameBackup
<1>4. CASE ReadConfig(w)
  BY <1>4 DEF ReadConfig
<1>5. CASE OpenBackup(w)
  BY <1>5 DEF OpenBackup
<1>6. CASE FillBackup(w)
  BY <1>6 DEF FillBackup
<1>7. CASE CreateTemp(w)
  BY <1>7 DEF CreateTemp
<1>8. CASE WriteTemp(w)
  BY <1>8 DEF WriteTemp
<1>9. CASE Rename(w)
  BY <1>9 DEF Rename
<1>10. CASE RenameRefused(w)
  BY <1>10 DEF RenameRefused
<1>11. CASE Remove(w)
  BY <1>11 DEF Remove
<1>12. CASE StepFails(w)
  BY <1>12 DEF StepFails, Fail
<1>13. CASE Crash(w)
  BY <1>13 DEF Crash, UnderWay
<1> QED BY <1>1, <1>2, <1>3, <1>4, <1>5, <1>6, <1>7, <1>8, <1>9, <1>10, <1>11, <1>12, <1>13 DEF Step


LEMMA LostStep ==
  ASSUME FileInv, NEW w \in Runs, Step(w)
  PROVE  NothingLost'
<1> USE ConfigFileAssumption DEF FileInv, TypeOK, GoTo, files, history
<1> SUFFICES ASSUME InTurn', NEW c \in published' PROVE Kept(c)'
  BY DEF NothingLost, InTurn, OwnName
\* Runs that have a name keep it, and nobody forgets an overlap.
<1>1. InTurn
  <2>1. CASE NameBackup(w)
    BY <2>1 DEF NameBackup, InTurn, OwnName, Clash, Named
  <2>2. CASE ~NameBackup(w)
    <3>1. backupPath' = backupPath
      BY <2>2 DEF Step, Stat, Confirm, ReadConfig, OpenBackup, FillBackup, CreateTemp,
                  WriteTemp, Rename, RenameRefused, Remove, StepFails, Fail, Crash
    <3>2. overlapped => overlapped'
      BY <2>2 DEF Step, Stat, Confirm, ReadConfig, OpenBackup, FillBackup, CreateTemp,
                  WriteTemp, Rename, RenameRefused, Remove, StepFails, Fail, Crash
    <3> QED BY <3>1, <3>2 DEF InTurn, OwnName, Clash
  <2> QED BY <2>1, <2>2
<1>2. \A d \in published : Kept(d)
  BY <1>1 DEF NothingLost, InTurn, OwnName
<1>3. CASE UNCHANGED <<path, backups, published>>
  BY <1>2, <1>3 DEF Kept
\* The backup that is truncated held nothing.
<1>4. CASE OpenBackup(w)
  <2>1. backups[backupPath[w]] = Absent
    BY <1>1, <1>4 DEF OpenBackup, BackupsOfRuns, InTurn, OwnName, Clash, Named, Seconds, NoBackup
  <2> QED BY <1>2, <1>4, <2>1 DEF OpenBackup, Kept, Configs
<1>5. CASE FillBackup(w)
  <2>1. backups[backupPath[w]] = Torn
    BY <1>1, <1>5 DEF FillBackup, Truncated, InTurn
  <2> QED BY <1>2, <1>5, <2>1 DEF FillBackup, Kept, Configs
\* The file that is replaced, or removed, is in the backup of w.
<1>6. ASSUME pc[w] \in {"rename", "remove", "retry"}, path # Absent
      PROVE  \E s \in Seconds : backups[s] = path
  BY <1>1, <1>6 DEF ReplacesCopy, FoundIsKept, BackedUp, InTurn, OwnName
<1>7. CASE Rename(w)
  <2>1. path' = w /\ published' = published \cup {w} /\ backups' = backups
    BY <1>7 DEF Rename, TempWhole
  <2> QED BY <1>2, <1>6, <1>7, <2>1 DEF Rename, Kept, Configs
<1>8. CASE Remove(w)
  BY <1>2, <1>6, <1>8 DEF Remove, Kept, Configs
<1>9. UNCHANGED <<path, backups, published>> \/ OpenBackup(w) \/ FillBackup(w)
        \/ Rename(w) \/ Remove(w)
  BY DEF Step, Stat, Confirm, NameBackup, ReadConfig, CreateTemp, WriteTemp,
         RenameRefused, StepFails, Fail, Crash
<1> QED BY <1>3, <1>4, <1>5, <1>7, <1>8, <1>9

-----------------------------------------------------------------------------
\* Neither the clock nor the start of the service disturbs the invariant.
LEMMA OtherStep ==
  ASSUME FileInv, LoadConfig \/ Tick \/ UNCHANGED fileVars
  PROVE  FileInv'
<1> USE ConfigFileAssumption DEF FileInv, files, history
<1>1. /\ UNCHANGED <<path, backups, temp, pc, copy, backupPath, published, removed, overlapped>>
      /\ second' \in Seconds
      /\ inForce' \in Configs \cup {Absent, Defaults, Refused}
  <2>1. CASE LoadConfig
    BY <2>1 DEF LoadConfig, TypeOK
  <2>2. CASE Tick
    BY <2>2 DEF Tick, TypeOK, Seconds
  <2>3. CASE UNCHANGED fileVars
    BY <2>3 DEF fileVars, TypeOK
  <2> QED BY <2>1, <2>2, <2>3
<1>2. TypeOK'
  BY <1>1 DEF TypeOK
<1>3. TempWhole' /\ PathOK' /\ Named' /\ BackupsOfRuns'
  BY <1>1 DEF TempWhole, PathOK, AbsentForCause, Named, BackupsOfRuns
<1>4. Truncated' /\ FoundIsKept' /\ NothingLost'
  BY <1>1 DEF Truncated, FoundIsKept, BackedUp, OwnName, Clash, NothingLost, Kept
<1>5. OneUnderWay' /\ ReplacesCopy'
  BY <1>1 DEF OneUnderWay, UnderWay, ReplacesCopy
<1> QED BY <1>2, <1>3, <1>4, <1>5

\* The invariant holds of every execution.
THEOREM FileInvariance == FileSpec => []FileInv
<1>1. ASSUME FileInv, [FileNext]_fileVars PROVE FileInv'
  <2>1. CASE \E w \in Runs : Step(w)
    BY <1>1, <2>1, TypeStep, TempStep, PathStep, NamedStep, TruncatedStep, FoundStep,
       OneStep, OfRunsStep, CopyStep, LostStep DEF FileInv
  <2> QED BY <1>1, <2>1, OtherStep DEF FileNext
<1> QED BY FileInitInv, <1>1, PTL DEF FileSpec

-----------------------------------------------------------------------------
(* The theorems of the runs. *)

\* Every value has its type, for any number of runs.
THEOREM FileTypeCorrect == FileSpec => []TypeOK
BY FileInvariance, PTL DEF FileInv

\* The configuration file is never a part of a configuration.
THEOREM ConfigWhole == FileSpec => []PathWhole
<1>1. FileInv => PathWhole
  BY DEF FileInv, TypeOK, PathOK, PathWhole
<1> QED BY <1>1, FileInvariance, PTL

\* What a run is about to replace is whole in its backup, however runs
\* overlap, if no other run makes a backup in the same second.
THEOREM FoundKept == FileSpec => []FoundIsKept
BY FileInvariance, PTL DEF FileInv

\* Runs that follow one another, with a second between their backups, lose
\* nothing, wherever they fail or are killed.
THEOREM NoneLost == FileSpec => []NothingLost
BY FileInvariance, PTL DEF FileInv

\* The service starts with the defaults only where it must.
THEOREM StartsOnlyForCause == FileSpec => StartsForCause
<1>1. ASSUME FileInv, [FileNext]_fileVars
      PROVE  inForce' # inForce =>
               \/ inForce' \in published
               \/ inForce' = Defaults /\ path = Absent /\ AbsentForCause
  <2> SUFFICES ASSUME inForce' # inForce
               PROVE  \/ inForce' \in published
                      \/ inForce' = Defaults /\ path = Absent /\ AbsentForCause
    OBVIOUS
  <2>1. LoadConfig
    BY <1>1 DEF FileNext, fileVars, Step, Stat, Confirm, NameBackup, ReadConfig, OpenBackup,
         FillBackup, CreateTemp, WriteTemp, Rename, RenameRefused, Remove, StepFails,
         Fail, Crash, Tick
  <2>2. path # Torn
    BY <1>1, ConfigFileAssumption DEF FileInv, TypeOK, PathOK
  <2> QED BY <1>1, <2>1, <2>2 DEF LoadConfig, FileInv, PathOK
<1> QED BY <1>1, FileInvariance, PTL DEF FileSpec, StartsForCause
============================================================================
