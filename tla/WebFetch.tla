------------------------------ MODULE WebFetch ------------------------------
(***************************************************************************)
(* internal/tools/webfetch.go: one page is fetched within a deadline, and  *)
(* its text is taken out of the HTML with regular expressions.             *)
(*                                                                         *)
(* A page is a sequence of tokens; a token at place i of it is <<token,    *)
(* i>> in the text, so that words are told apart.                          *)
(***************************************************************************)
EXTENDS Naturals, FiniteSetsExt, SequencesExt

CONSTANTS
  MaxTokens,    \* bound on the length of a page, for model checking
  MaxChars,     \* w.maxChars, in tokens
  MaxRedirects  \* requests of one fetch: 5 in CheckRedirect

\* "tag" is any tag that is not named here; "html" is <html> or <!doctype.
Tokens == {"word", "space", "newline", "tag", "html",
           "script", "/script", "style", "/style"}

Blank == {"space", "newline"}
Tags == Tokens \ ({"word"} \union Blank)

VARIABLES
  pc,        \* "idle", "requesting" or "done"
  requests,  \* requests made, the redirected ones included
  page,      \* the body, once it is read
  html,      \* its Content-Type is text/html
  text       \* what Fetch returned: a text, or << >> with an error

vars == <<pc, requests, page, html, text>>

-----------------------------------------------------------------------------
(***************************************************************************)
(* stripHTML                                                               *)
(***************************************************************************)
\* The tokens at some places of a sequence.
Keep(tokens, places) ==
  FlattenSeq([i \in DOMAIN tokens |-> IF i \in places THEN <<tokens[i]>> ELSE << >>])

\* A variant with a bug: the expression is greedy.
RemoveElementsGreedy(tokens, open, close) ==
  Keep(tokens, {k \in DOMAIN tokens :
    ~ \E i, j \in DOMAIN tokens :
        i <= k /\ k <= j /\ i < j /\ tokens[i][1] = open /\ tokens[j][1] = close})

\* Without the matches of `<open[\s\S]*?</close>`: from an opening tag that
\* is ever closed to the first closing tag.
RemoveElements(tokens, open, close) ==
  LET inside[i \in 0 .. Len(tokens)] ==  \* a match goes on after token i
        IF i = 0 THEN FALSE
        ELSE IF inside[i - 1] THEN tokens[i][1] # close
        ELSE tokens[i][1] = open /\ \E j \in DOMAIN tokens : j > i /\ tokens[j][1] = close
  IN  Keep(tokens, {i \in DOMAIN tokens : ~ inside[i - 1] /\ ~ inside[i]})

\* The other expressions and the loop over the lines come to this: a tag is a
\* newline, and of blanks in a row a newline stays if there is one, else one
\* space, but for those at the ends.
Mark(token) == IF token[1] \in Tags THEN <<"newline", token[2]>> ELSE token

Add(out, token) ==
  IF token[1] = "word" \/ (out # << >> /\ Last(out)[1] = "word") THEN Append(out, token)
  ELSE IF out # << >> /\ token[1] = "newline" THEN Append(Front(out), token)
  ELSE out

Squeeze(tokens) ==
  LET lines[i \in 0 .. Len(tokens)] ==
        IF i = 0 THEN << >> ELSE Add(lines[i - 1], Mark(tokens[i]))
      all == lines[Len(tokens)]
  IN  IF all # << >> /\ Last(all)[1] # "word" THEN Front(all) ELSE all

\* Tokens carry their places.
Placed(tokens) == [i \in DOMAIN tokens |-> <<tokens[i], i>>]

StripHTML(tokens) ==
  Squeeze(RemoveElements(RemoveElements(Placed(tokens), "script", "/script"), "style", "/style"))

\* strings.TrimSpace
TrimSpace(tokens) ==
  LET dark == {i \in DOMAIN tokens : tokens[i][1] \notin Blank}
  IN  IF dark = {} THEN << >> ELSE SubSeq(tokens, Min(dark), Max(dark))

LooksLikeHTML(tokens) == TrimSpace(tokens) # << >> /\ TrimSpace(tokens)[1][1] = "html"

IsHTML(tokens, declared) == declared \/ LooksLikeHTML(Placed(tokens))

TextOf(tokens, isHTML) == IF isHTML THEN StripHTML(tokens) ELSE TrimSpace(Placed(tokens))

-----------------------------------------------------------------------------
Init ==
  /\ pc = "idle"
  /\ requests = 0
  /\ page = << >>
  /\ html = FALSE
  /\ text = << >>

\* normalizeWebURL accepts the URL, ...
Fetch ==
  /\ pc = "idle"
  /\ pc' = "requesting"
  /\ requests' = 1
  /\ UNCHANGED <<page, html, text>>

\* ... or there is none in it: blank, no host, another scheme.
Refuse ==
  /\ pc = "idle"
  /\ pc' = "done"
  /\ UNCHANGED <<requests, page, html, text>>

\* CheckRedirect is asked before each request but the first.
Redirect ==
  /\ pc = "requesting"
  /\ IF requests >= MaxRedirects
     THEN pc' = "done" /\ UNCHANGED requests
     ELSE requests' = requests + 1 /\ UNCHANGED pc
  /\ UNCHANGED <<page, html, text>>

\* The request fails, or its status is not 2xx, or the deadline passes
\* before the body is read.
FetchFails ==
  /\ pc = "requesting"
  /\ pc' = "done"
  /\ UNCHANGED <<requests, page, html, text>>

\* The body is read.  Without a text it is an error, else the text is cut.
Respond(body, declared) ==
  /\ pc = "requesting"
  /\ pc' = "done"
  /\ page' = body /\ html' = declared
  /\ LET all == TextOf(body, IsHTML(body, declared))
     IN  text' = SubSeq(all, 1, Min({Len(all), MaxChars}))
  /\ UNCHANGED requests

Bodies == UNION {[1 .. n -> Tokens] : n \in 0 .. MaxTokens}

Next ==
  \/ Fetch \/ Refuse \/ Redirect \/ FetchFails
  \/ pc = "requesting" /\ \E body \in Bodies, declared \in BOOLEAN : Respond(body, declared)

Spec == Init /\ [][Next]_vars

-----------------------------------------------------------------------------
(***************************************************************************)
(* Properties                                                              *)
(***************************************************************************)
\* Whether the token at i is inside an element that is closed after it.
Within(i, open, close) ==
  \E o, c \in DOMAIN page :
    /\ o < i /\ i < c /\ page[o] = open /\ page[c] = close
    /\ \A k \in o + 1 .. i : page[k] # close

Script(i) == Within(i, "script", "/script")
Style(i) == Within(i, "style", "/style")

\* No script has a style's tag inside, nor a style a script's.
Separate ==
  \A i \in DOMAIN page : /\ page[i] \in {"style", "/style"} => ~ Script(i)
                         /\ page[i] \in {"script", "/script"} => ~ Style(i)

\* The words of the page that a reader sees, by their places.
Visible ==
  Keep(Placed(page), {i \in DOMAIN page :
    page[i] = "word" /\ ~ (IsHTML(page, html) /\ (Script(i) \/ Style(i)))})

\* What the expressions leave of a page, one replaced after the other, is all
\* its words in order but those in scripts and styles, up to the length at
\* which the text is cut: an element that is never closed hides nothing, and
\* of two scripts the text between them stays.
WordsVisible ==
  pc = "done" /\ page # << >> /\ Separate =>
    LET words == Keep(text, {i \in DOMAIN text : text[i][1] = "word"})
    IN  /\ IsPrefix(words, Visible)
        /\ Len(text) < MaxChars => words = Visible
=============================================================================
