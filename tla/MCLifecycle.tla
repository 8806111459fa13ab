---------------------------- MODULE MCLifecycle ----------------------------
(***************************************************************************)
(* An instance of Lifecycle for TLC with small integer widths. The         *)
(* transactions are those that differ in one field from one that costs     *)
(* exactly U256Max, or in any of the fields its cost is made of.           *)
(***************************************************************************)
EXTENDS Lifecycle

Sizes(capacity, buffer, cache, blocks, chain) ==
    [cli |-> FALSE, websocket |-> TRUE, ws_capacity |-> capacity, buffer_size |-> buffer,
     cache_size |-> cache, block_cache_size |-> blocks, chain_id |-> chain]

\* A configuration that works, one bad size each, and another chain.
MCFileConfigs == {Sizes(1, 1, 1, 0, 1), Sizes(0, 1, 1, 1, 1), Sizes(1, 3, 1, 1, 1),
                  Sizes(1, 1, 0, 1, 2)}
MCClocks == {-1, 0, 4, 6, 7}

Base == [is_create |-> FALSE, chain_id |-> {1}, gas_limit |-> MAX_TX_GAS_LIMIT,
         max_fee |-> U128Max, max_priority_fee |-> {U128Max},
         value |-> U256Max - MAX_TX_GAS_LIMIT * U128Max, sender |-> "alice",
         nonce |-> U64Max - 1]

Near ==
    [is_create : BOOLEAN, chain_id : {{}, {1}, {2}},
     gas_limit : {MIN_TX_GAS_LIMIT - 1, MIN_TX_GAS_LIMIT, MAX_TX_GAS_LIMIT,
                  MAX_TX_GAS_LIMIT + 1},
     max_fee : {0, 1, U128Max - 1, U128Max}, max_priority_fee : {{}, {1}, {U128Max}},
     value : {0, Base.value, Base.value + 1, U256Max}, sender : Address,
     nonce : {0, U64Max - 1, U64Max}]

Differs(t) == {f \in DOMAIN Base : t[f] # Base[f]}
MCTxs == {t \in Near : \/ Cardinality(Differs(t)) <= 1
                       \/ Differs(t) \subseteq {"gas_limit", "max_fee", "value"}}
MCRestoredHeads == {{}, {4}}
=============================================================================
