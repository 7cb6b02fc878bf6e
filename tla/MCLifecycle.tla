---------------------------- MODULE MCLifecycle ----------------------------
(* Lifecycle with both gateways, one message and one request for /status. *)
EXTENDS Lifecycle

CONSTANTS telegram, whatsapp, h1, r1
=============================================================================
