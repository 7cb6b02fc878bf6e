--------------------------- MODULE BrowserClaims ---------------------------
(* What the description of the browser tool says, where the code does       *)
(* something else.                                                          *)
EXTENDS MCBrowser

\* browser_browse: "Open a URL in the headless browser and return visible
\* page text", that is, the text of the page it opened.  The calls share one
\* tab (Browse runs on b.browserCtx itself), and nothing keeps one from
\* navigating between another's Navigate and its Evaluate.
OwnPage == \A c \in Calls : body[c] \in {c, None}
=============================================================================
