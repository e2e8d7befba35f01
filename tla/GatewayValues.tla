----------------------------- MODULE GatewayValues -----------------------------
(***************************************************************************)
(* What the parts of the gateway's model share.                            *)
(***************************************************************************)
CONSTANT None    \* no child, no subject, no request
=============================================================================
