--------------------------- MODULE MCConversions ---------------------------
(***************************************************************************)
(* Provider and WebFetch for TLC: what goes to the model and comes back,   *)
(* and what comes from a page.  A behaviour is of one of the two, so that  *)
(* their states are not multiplied.                                        *)
(*                                                                         *)
(* The conversations begin with a first question, or one that comes after  *)
(* an answer, with and without a system prompt.  The pages are all those   *)
(* of up to five tokens.                                                   *)
(***************************************************************************)
EXTENDS Provider

CONSTANTS MaxTokens, MaxChars, MaxRedirects  \* see WebFetch

VARIABLES with,  \* "model" or "page"
          fetch, requests, page, html, text  \* see WebFetch

W == INSTANCE WebFetch WITH pc <- fetch

ASSUME LimitAssumption == MaxChars \in Nat

fetchVars == <<fetch, requests, page, html, text>>
allVars == <<with, fetchVars, vars>>

MCParts == {"p"}

MCHistories ==
  LET question == Message("user", <<"p">>)
      answer == Message("assistant", <<"p">>)
      prompt == Message("system", <<"p">>)
  IN  {<<question>>, <<prompt, question>>, <<prompt, question, answer, question>>}

MCInit ==
  /\ with \in {"model", "page"}
  /\ Init /\ W!Init
  /\ with = "page" => provider = "codex_oauth" /\ Len(messages) = 1

MCNext ==
  \/ with = "model" /\ Next /\ UNCHANGED <<with, fetchVars>>
  \/ with = "page" /\ W!Next /\ UNCHANGED <<with, vars>>

MCSpec == MCInit /\ [][MCNext]_allVars

\* See WebFetch: the text of a page has the words that a reader sees.
WordsVisible == W!WordsVisible
=============================================================================
