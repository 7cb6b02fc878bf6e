----------------------------- MODULE MCBrowser -----------------------------
(* Browser with two concurrent calls.                                       *)
EXTENDS Browser

CONSTANTS c1, c2, x1, x2, x3
=============================================================================
