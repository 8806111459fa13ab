----------------------------- MODULE Validator -----------------------------
(***************************************************************************)
(* validator.rs: StatelessValidator, the pure decision on a transaction    *)
(* that comes in from the network. The widths of the integers are          *)
(* constants; U256 multiplication wraps around, as ruint's operator does.  *)
(* An Option is a set of at most one element.                              *)
(***************************************************************************)
EXTENDS Integers, FiniteSets

CONSTANTS
    U64Max, U128Max, U256Max,      \* the largest values of the integer types
    MIN_TX_GAS_LIMIT, MAX_TX_GAS_LIMIT,
    Address, ZeroAddress

\* What the proof needs of the widths: 64 and 128 bits multiply into 256.
ASSUME WidthAssumption ==
    /\ U64Max \in Nat /\ U128Max \in Nat /\ U256Max \in Nat
    /\ U64Max * U128Max <= U256Max
    /\ MIN_TX_GAS_LIMIT \in 0 .. U64Max /\ MAX_TX_GAS_LIMIT \in 0 .. U64Max

Option(S) == {{}} \cup {{v} : v \in S}

\* What the validator reads of a transaction. A legacy transaction may have no
\* chain ID and has no priority fee; its max_fee_per_gas is its gas price.
Transaction ==
    [is_create : BOOLEAN, chain_id : Option(0 .. U64Max), gas_limit : 0 .. U64Max,
     max_fee : 0 .. U128Max, max_priority_fee : Option(0 .. U128Max),
     value : 0 .. U256Max, sender : Address, nonce : 0 .. U64Max]

U256Mul(a, b) == (a * b) % (U256Max + 1)

\* A mutant of cost_overflows: the addition wraps around as well.
cost_overflows_wraps(tx) ==
    (tx.value + U256Mul(tx.gas_limit, tx.max_fee)) % (U256Max + 1) > U256Max

\* value.checked_add(max_gas_cost).is_none()
cost_overflows(tx) == tx.value + U256Mul(tx.gas_limit, tx.max_fee) > U256Max

\* A mutant of wrong_chain: a transaction without a chain ID is refused.
wrong_chain_required(tx, chain_id) == tx.chain_id # {chain_id}

\* if let Some(tx_chain_id): without one there is nothing to compare.
wrong_chain(tx, chain_id) == \E id \in tx.chain_id : id # chain_id

\* The checks of validate_stateless in their order: what each one refuses.
checks(tx, chain_id) ==
    << [refuses |-> tx.is_create,                             reason |-> "create"],
       [refuses |-> wrong_chain(tx, chain_id),                reason |-> "chain_id"],
       [refuses |-> tx.gas_limit < MIN_TX_GAS_LIMIT,          reason |-> "gas_low"],
       [refuses |-> tx.gas_limit > MAX_TX_GAS_LIMIT,          reason |-> "gas_high"],
       [refuses |-> \E fee \in tx.max_priority_fee : fee > tx.max_fee,
                                                              reason |-> "priority_fee"],
       [refuses |-> tx.max_fee = 0,                           reason |-> "gas_price"],
       [refuses |-> cost_overflows(tx),                       reason |-> "overflow"],
       [refuses |-> tx.sender = ZeroAddress,                  reason |-> "sender"],
       [refuses |-> tx.nonce = U64Max,                        reason |-> "nonce"] >>

\* The reason of the first check that refuses; none: Ok(()).
validate_stateless(tx, chain_id) ==
    {checks(tx, chain_id)[k].reason :
        k \in {m \in 1 .. 9 : /\ checks(tx, chain_id)[m].refuses
                              /\ \A j \in 1 .. m - 1 : ~checks(tx, chain_id)[j].refuses}}

\* TransactionValidationOutcome: an accepted transaction is given all the
\* balance there is and its own nonce, a refused one is a bad transaction.
validate_transaction(tx, chain_id) ==
    LET reason == validate_stateless(tx, chain_id)
    IN [valid |-> reason = {}, reason |-> reason, balance |-> U256Max, state_nonce |-> tx.nonce]

-----------------------------------------------------------------------------
\* The cost of a transaction, on unbounded integers.
Cost(tx) == tx.value + tx.gas_limit * tx.max_fee

\* The transactions the module's documentation describes as valid.
Acceptable(tx, chain_id) ==
    /\ ~tx.is_create /\ tx.chain_id \subseteq {chain_id}
    /\ tx.gas_limit \in MIN_TX_GAS_LIMIT .. MAX_TX_GAS_LIMIT
    /\ tx.max_fee > 0 /\ tx.max_priority_fee \subseteq 0 .. tx.max_fee
    /\ Cost(tx) <= U256Max
    /\ tx.sender # ZeroAddress /\ tx.nonce # U64Max
=============================================================================
