----------------------------- MODULE MCWsServer -----------------------------
(***************************************************************************)
(* An instance of WsServer for TLC: a client that reads and one that may   *)
(* stop reading and never sends a subscription.                            *)
(***************************************************************************)
EXTENDS WsServer, TLC

CONSTANTS reader, sluggard

MCFirstMessages == (reader :> {"hash", "full", "other", "malformed"}) @@ (sluggard :> {})
=============================================================================
