---------------------------- MODULE BlockImport ----------------------------
(***************************************************************************)
(* block_import.rs: CachingBlockImport, which the network manager calls on *)
(* every block announcement. It caches the block and queues it for the     *)
(* rebroadcast task (network.rs). The announced hash is that of the        *)
(* announced header. A NewBlockHashes announcement changes nothing, so it  *)
(* has no action.                                                          *)
(***************************************************************************)
EXTENDS BlockCache, Sequences

VARIABLES
    cache,            \* the shared BlockCache
    rebroadcast_rx    \* the unbounded channel to the rebroadcast task

on_new_block(block) ==
    /\ cache' = insert(cache, block, block, block)
    /\ rebroadcast_rx' = Append(rebroadcast_rx, block)
=============================================================================
