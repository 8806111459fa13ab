---------------------------- MODULE MCBlockStore ----------------------------
(***************************************************************************)
(* Instances of BlockStore for TLC: a chain of three blocks and a sibling  *)
(* of the second one.                                                      *)
(***************************************************************************)
EXTENDS BlockStore

CONSTANTS a1, a2, a3, b2

Chain == {a1, a2, a3}
ForkedChain == {a1, a2, a3, b2}
Numbers == (a1 :> 1) @@ (a2 :> 2) @@ (a3 :> 3)
ForkedNumbers == Numbers @@ (b2 :> 2)
=============================================================================
