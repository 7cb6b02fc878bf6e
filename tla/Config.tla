------------------------------- MODULE Config -------------------------------
(***************************************************************************)
(* The settings (internal/config/config.go): the defaults, Normalize, and  *)
(* loading a file that a person has edited, which need not have every      *)
(* setting, or saving one that has.                                        *)
(***************************************************************************)
EXTENDS Integers

CONSTANTS
  Texts,      \* the settings that are text
  Numbers,    \* those that are numbers, temperature and the log lines apart
  Lists,      \* those that are lists or maps
  Given,      \* what a text or a list is when it is given
  Default,    \* config.Default
  ProfileLines, \* the log lines, and their limit, of the profile home-assistant
  MaxEdits    \* bound: how often the file is edited

Positive == Numbers \cup {"default_log_lines", "max_log_lines"}
Settings == Texts \cup Lists \cup Positive \cup {"temperature"}

Blank == ""    \* of a text
Nil == "nil"   \* of a list or a map: null in the file

Proper(f, v) ==
  CASE f \in Texts       -> v # Blank
    [] f \in Lists       -> v # Nil
    [] f = "temperature" -> v >= 0
    [] f \in Positive    -> v > 0

ASSUME ConfigAssumption ==
  /\ Texts \cap Lists = {}
  /\ (Texts \cup Lists) \cap (Positive \cup {"temperature"}) = {}
  /\ "temperature" \notin Positive
  /\ {"default_log_lines", "max_log_lines"} \cap Numbers = {}
  /\ DOMAIN Default = Settings
  /\ \A f \in Positive \cup {"temperature"} : Default[f] \in Int
  /\ \A f \in Settings : Proper(f, Default[f])
  /\ Default["max_log_lines"] >= Default["default_log_lines"]
  /\ ProfileLines \in Int \X Int

VARIABLES file,   \* the settings that the file has
          loaded, \* the configuration of the service
          edits   \* counts the edits

vars == <<file, loaded, edits>>

\* A variant with a bug: the limits are compared before the defaults are put in.
NormalizeLimitsFirst(c) ==
  [f \in Settings |->
     LET v == IF f = "max_log_lines" /\ c[f] < c["default_log_lines"]
                THEN c["default_log_lines"] ELSE c[f]
     IN IF Proper(f, v) THEN v ELSE Default[f]]

\* A variant with a bug: the number of lines is cut to the limit.
NormalizeCuts(c) ==
  LET fill == [f \in Settings |-> IF Proper(f, c[f]) THEN c[f] ELSE Default[f]]
  IN IF fill["max_log_lines"] < fill["default_log_lines"]
       THEN [fill EXCEPT !["default_log_lines"] = fill["max_log_lines"]]
       ELSE fill

\* What is not proper gives way to its default; then the limit of log lines is
\* raised to what is shown without one.
Filled(c) == [f \in Settings |-> IF Proper(f, c[f]) THEN c[f] ELSE Default[f]]
Normalize(c) ==
  [Filled(c) EXCEPT !["max_log_lines"] =
     IF @ < Filled(c)["default_log_lines"] THEN Filled(c)["default_log_lines"] ELSE @]

\* The file is read over the defaults: a setting that it lacks has its default.
LoadOf(content) ==
  Normalize([f \in Settings |-> IF f \in DOMAIN content THEN content[f] ELSE Default[f]])

ValuesOf(f) ==
  CASE f \in Texts       -> {Blank, Given}
    [] f \in Lists       -> {Nil, Given}
    [] f = "temperature" -> {-1, 0, 2}
    [] f \in Positive    -> {-1, 0, 1, 3 * Default[f]}

Init ==
  /\ file = Default
  /\ loaded = Default
  /\ edits = 0

\* A person sets, or takes out, one setting.
Edit(f) ==
  /\ edits < MaxEdits
  /\ edits' = edits + 1
  /\ \/ \E v \in ValuesOf(f) : file' = [g \in DOMAIN file \cup {f} |-> IF g = f THEN v ELSE file[g]]
     \/ file' = [g \in DOMAIN file \ {f} |-> file[g]]
  /\ UNCHANGED loaded

Load == loaded' = LoadOf(file) /\ UNCHANGED <<file, edits>>

\* The wizard saves the defaults with its answers and the log lines of a
\* profile: Save normalises, and writes every setting.
Save ==
  /\ \E lines \in {<<Default["default_log_lines"], Default["max_log_lines"]>>, ProfileLines} :
       file' = Normalize([Default EXCEPT !["default_log_lines"] = lines[1],
                                         !["max_log_lines"] = lines[2]])
  /\ UNCHANGED <<loaded, edits>>

Next == (\E f \in Settings : Edit(f)) \/ Load \/ Save

Spec == Init /\ [][Next]_vars

-----------------------------------------------------------------------------
(* Properties *)

\* Whatever has been done to the file, the service runs with settings that are
\* proper, and with a limit of log lines that the lines shown by default keep.
\* What the components put in place of a zero of their own (NewServerControl,
\* NewWebFetcher) is never needed.
Usable ==
  /\ DOMAIN loaded = Settings
  /\ \A f \in Settings : Proper(f, loaded[f])
  /\ loaded["max_log_lines"] >= loaded["default_log_lines"]

\* What the file sets properly is what the service gets, but for a limit of
\* log lines below the lines shown by default, which is not kept but raised.
EditsTakeEffect ==
  [][loaded' # loaded =>
       \A f \in DOMAIN file : Proper(f, file[f]) =>
         \/ loaded'[f] = file[f]
         \/ f = "max_log_lines" /\ file[f] < loaded'["default_log_lines"]]_vars
=============================================================================
