---------------------------- MODULE MCAgentTools ----------------------------
(***************************************************************************)
(* An instance of AgentTools and of ServerControl behind it: three         *)
(* spellings of one service, two of which have the suffix and differ in    *)
(* case, a second name, and two numbers.                                   *)
(***************************************************************************)
EXTENDS AgentTools

CONSTANTS web, webService, WEBService, db, three, many,
          kWeb, kWebService, kDb, kThree, kMany, c1, c2

MCNames == {web, webService, WEBService, db, three, many}
MCKeys == {kWeb, kWebService, kDb, kThree, kMany}
MCKey == [n \in MCNames |-> CASE n = web -> kWeb
                              [] n = db -> kDb
                              [] n = three -> kThree
                              [] n = many -> kMany
                              [] OTHER -> kWebService]
MCBase == [k \in MCKeys |-> IF k = kWebService THEN kWeb ELSE k]
MCNumber == [t \in {three, many} |-> IF t = three THEN 3 ELSE 9]

SeqsUpTo(S, n) == UNION {[1 .. k -> S] : k \in 0 .. n}

\* Allow-lists of at most three entries for systemctl, of two for the others;
\* commands of which two names have one key; limits below, at and above the
\* defaults, and not configured at all; some of the tools, with lists that
\* are empty, or that have an alias before or after the entry of its name.
MCConfigs ==
  LET Empty == [enabled |-> Tools, services |-> << >>, containers |-> << >>,
                units |-> << >>, commands |-> << >>, defaultLines |-> 0, maxLines |-> 0]
      Spellings == {web, webService, WEBService}
      CommandNames == {webService, WEBService, db}
  IN  {[Empty EXCEPT !.services = s] : s \in SeqsUpTo(Spellings, 3)}
      \union {[Empty EXCEPT !.containers = s, !.units = s] : s \in SeqsUpTo(Spellings \union {db}, 2)}
      \union {[Empty EXCEPT !.containers = <<db>>, !.units = <<db>>,
                            !.defaultLines = d, !.maxLines = m] :
                d \in {-1, 0, 1, 5}, m \in {-1, 0, 1, 3}}
      \union {[Empty EXCEPT !.commands = c] :
                c \in UNION {[names -> {c1, c2}] : names \in SUBSET CommandNames}}
      \union {[enabled |-> tools, services |-> list, containers |-> list, units |-> list,
               commands |-> [n \in {list[i] : i \in DOMAIN list} |-> c1],
               defaultLines |-> 2, maxLines |-> 4] :
                tools \in {{}, {"shell", "journal"}, {"systemctl", "docker"}, {"docker"}},
                list \in {<< >>, <<web>>, <<web, WEBService>>, <<WEBService, web>>}}

\* The name in the field of one tool or of another, in several spellings or
\* not a string at all; with an action or none; with lines of every type.
MCValues == {[type |-> "string", text |-> n] : n \in {web, webService, WEBService, db, three}}
              \union {[type |-> "other"]}
MCActions == {[type |-> "string", text |-> a] : a \in {"start", "reload"}}
MCLineValues == {[type |-> "number", halves |-> n] : n \in {-3, -2, 1, 6, 7, 18, 200}}
                  \union {[type |-> "string", text |-> t] : t \in {web, three, many}}
                  \union {[type |-> "other"]}

MCArguments ==
  {[f \in {field} |-> v] : field \in Fields \ {"action", "lines"}, v \in MCValues}
    \union {[f \in {"service", "action"} |-> IF f = "action" THEN a ELSE v] :
              a \in MCActions, v \in MCValues}
    \union {[f \in {field, "lines"} |-> IF f = "lines" THEN l ELSE v] :
              field \in {"container", "unit"}, l \in MCLineValues, v \in MCValues}
    \union {<< >>}

MCTexts ==
  LET names == {web, webService, WEBService, db}
      counts == {three, many, web}
  IN  {<<"/service", "status">>, <<"/docker", "ps">>, <<"/docker", "logs">>,
         <<"/docker", "rm", web>>, <<"/service", "reload", web>>}
        \union {<<"/cmd", n>> : n \in names}
        \union {<<"/service", a, n>> : a \in {"status", "start", "stop", "restart"}, n \in names}
        \union {<<"/docker", "logs", n>> : n \in names} \union {<<"/logs", n>> : n \in names}
        \union {<<"/docker", "logs", n, t>> : n \in names, t \in counts}
        \union {<<"/logs", n, t>> : n \in names, t \in counts}
=============================================================================
