----------------------------- MODULE MCTxDedup -----------------------------
(* Model-checking instance of TxDedup. *)
EXTENDS TxDedup, TLC

HashSymmetry == Permutations(Hash)
=============================================================================
