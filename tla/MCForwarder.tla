----------------------------- MODULE MCForwarder -----------------------------
(***************************************************************************)
(* Instances of Forwarder for TLC. Transactions are strings, because the   *)
(* idle tasks and the deduplicator's initial record hold "none".           *)
(***************************************************************************)
EXTENDS Forwarder
=============================================================================
