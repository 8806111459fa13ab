--------------------------- MODULE MCRebroadcast ---------------------------
(* Two blocks of one chain, announced in any order and more than once. *)
EXTENDS Rebroadcast

CONSTANTS b1, b2, p1, p2

MCNumberOf == b1 :> 1 @@ b2 :> 2
=============================================================================
