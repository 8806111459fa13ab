-------------------------- MODULE LifecycleProofs --------------------------
(***************************************************************************)
(* Proofs about Validator and Lifecycle, for all widths of the integers,   *)
(* all configurations and any number of starts: the validator is exact, the *)
(* node keeps its identity, a key that cannot be read was torn, the head   *)
(* estimate is the current slot, and the types.                            *)
(***************************************************************************)
EXTENDS Lifecycle, FiniteSetTheorems, TLAPS

\* A u64 times a u128 fits into a U256: the multiplication of the cost never
\* wraps around.
LEMMA GasCostFits ==
    ASSUME NEW g \in 0 .. U64Max, NEW f \in 0 .. U128Max
    PROVE  g * f \in Nat /\ U256Mul(g, f) = g * f
  <1> USE WidthAssumption
  <1>1. g * f \in Nat
    OBVIOUS
  <1>2. g * f <= U64Max * U128Max
    <2>1. g * f <= g * U128Max
      OBVIOUS
    <2>2. g * U128Max <= U64Max * U128Max
      OBVIOUS
    <2>3. g * U128Max \in Int /\ U64Max * U128Max \in Int
      OBVIOUS
    <2>4. QED
      BY <1>1, <2>1, <2>2, <2>3
  <1>3. g * f <= U256Max
    <2>1. U64Max * U128Max \in Int
      OBVIOUS
    <2>2. QED
      BY <1>1, <1>2, <2>1
  <1>4. \A p, q \in Nat : p <= q => p % (q + 1) = p
    OBVIOUS
  <1>5. QED
    BY <1>1, <1>3, <1>4 DEF U256Mul

\* No reason is given exactly when none of the nine checks refuses.
LEMMA NoReason ==
    ASSUME NEW t, NEW c
    PROVE  validate_stateless(t, c) = {} <=> \A k \in 1 .. 9 : ~checks(t, c)[k].refuses
  <1> DEFINE R(k) == checks(t, c)[k].refuses
             First == {m \in 1 .. 9 : R(m) /\ \A j \in 1 .. m - 1 : ~R(j)}
  <1> HIDE DEF R
  <1>1. First = {} <=> \A k \in 1 .. 9 : ~R(k)
    <2>1. ASSUME First = {} PROVE \A k \in 1 .. 9 : ~R(k)
      <3>1. ~R(1)
        BY <2>1
      <3>2. ~R(2)
        BY <2>1, <3>1
      <3>3. ~R(3)
        BY <2>1, <3>1, <3>2
      <3>4. ~R(4)
        BY <2>1, <3>1, <3>2, <3>3
      <3>5. ~R(5)
        BY <2>1, <3>1, <3>2, <3>3, <3>4
      <3>6. ~R(6)
        BY <2>1, <3>1, <3>2, <3>3, <3>4, <3>5
      <3>7. ~R(7)
        BY <2>1, <3>1, <3>2, <3>3, <3>4, <3>5, <3>6
      <3>8. ~R(8)
        BY <2>1, <3>1, <3>2, <3>3, <3>4, <3>5, <3>6, <3>7
      <3>9. ~R(9)
        BY <2>1, <3>1, <3>2, <3>3, <3>4, <3>5, <3>6, <3>7, <3>8
      <3>10. QED
        BY <3>1, <3>2, <3>3, <3>4, <3>5, <3>6, <3>7, <3>8, <3>9
    <2>2. QED
      BY <2>1
  <1>2. validate_stateless(t, c) = {checks(t, c)[k].reason : k \in First}
    BY DEF validate_stateless, R
  <1>3. QED
    BY <1>1, <1>2 DEF R

\* The validator accepts a transaction exactly when it is acceptable, for all
\* widths in which a u64 times a u128 fits into a U256.
THEOREM ValidatorExact ==
    ASSUME NEW t \in Transaction, NEW c
    PROVE  validate_transaction(t, c).valid <=> Acceptable(t, c)
  <1> USE WidthAssumption
  <1>1. /\ t.gas_limit \in 0 .. U64Max /\ t.max_fee \in 0 .. U128Max
        /\ t.max_priority_fee \in Option(0 .. U128Max) /\ t.value \in 0 .. U256Max
    BY DEF Transaction
  <1>2. cost_overflows(t) <=> ~(Cost(t) <= U256Max)
    BY <1>1, GasCostFits DEF cost_overflows, Cost
  <1>3. wrong_chain(t, c) <=> ~(t.chain_id \subseteq {c})
    BY DEF wrong_chain
  <1>4. (\E fee \in t.max_priority_fee : fee > t.max_fee)
            <=> ~(t.max_priority_fee \subseteq 0 .. t.max_fee)
    BY <1>1 DEF Option
  <1>5. (\A k \in 1 .. 9 : ~checks(t, c)[k].refuses) <=>
            /\ ~t.is_create /\ ~wrong_chain(t, c)
            /\ ~(t.gas_limit < MIN_TX_GAS_LIMIT) /\ ~(t.gas_limit > MAX_TX_GAS_LIMIT)
            /\ ~\E fee \in t.max_priority_fee : fee > t.max_fee
            /\ t.max_fee # 0 /\ ~cost_overflows(t)
            /\ t.sender # ZeroAddress /\ t.nonce # U64Max
    <2>1. checks(t, c)[1].refuses = t.is_create
      BY DEF checks
    <2>2. checks(t, c)[2].refuses = wrong_chain(t, c)
      BY DEF checks
    <2>3. checks(t, c)[3].refuses = (t.gas_limit < MIN_TX_GAS_LIMIT)
      BY DEF checks
    <2>4. checks(t, c)[4].refuses = (t.gas_limit > MAX_TX_GAS_LIMIT)
      BY DEF checks
    <2>5. checks(t, c)[5].refuses = (\E fee \in t.max_priority_fee : fee > t.max_fee)
      BY DEF checks
    <2>6. checks(t, c)[6].refuses = (t.max_fee = 0)
      BY DEF checks
    <2>7. checks(t, c)[7].refuses = cost_overflows(t)
      BY DEF checks
    <2>8. checks(t, c)[8].refuses = (t.sender = ZeroAddress)
      BY DEF checks
    <2>9. checks(t, c)[9].refuses = (t.nonce = U64Max)
      BY DEF checks
    <2>10. 1 .. 9 = {1, 2, 3, 4, 5, 6, 7, 8, 9}
      OBVIOUS
    <2>11. QED
      BY <2>1, <2>2, <2>3, <2>4, <2>5, <2>6, <2>7, <2>8, <2>9, <2>10, Zenon
  <1>6. t.gas_limit \in MIN_TX_GAS_LIMIT .. MAX_TX_GAS_LIMIT <=>
            ~(t.gas_limit < MIN_TX_GAS_LIMIT) /\ ~(t.gas_limit > MAX_TX_GAS_LIMIT)
    BY <1>1
  <1>7. t.max_fee > 0 <=> t.max_fee # 0
    BY <1>1
  <1>8. validate_transaction(t, c).valid <=> validate_stateless(t, c) = {}
    BY DEF validate_transaction
  <1>9. QED
    BY <1>2, <1>3, <1>4, <1>5, <1>6, <1>7, <1>8, NoReason DEF Acceptable

-----------------------------------------------------------------------------
\* The outcome on record is that of the configuration in force: a transaction
\* is forgotten before the configuration can change.
ValidInv ==
    /\ process = "off" => tx = {}
    /\ \A u \in tx : \E t \in Transaction : \E subscribed, fate :
          u = [tx |-> t, outcome |-> validate_transaction(t, config.chain_id),
               subscribed |-> subscribed, fate |-> fate]

\* Every transaction a running node lets through or refuses is judged exactly,
\* over all restarts with other configurations.
THEOREM ValidationCorrect == Spec => []ValidatedExactly
  <1>1. Init => ValidInv
    BY DEF Init, ValidInv
  <1>2. ValidInv /\ [Next]_vars => ValidInv'
    <2> SUFFICES ASSUME ValidInv, [Next]_vars PROVE ValidInv'
      OBVIOUS
    <2>1. ASSUME NEW cfg, start(cfg) PROVE ValidInv'
      BY <2>1 DEF ValidInv, start, taskVars
    <2>2. ASSUME NEW how, End(how) PROVE ValidInv'
      BY <2>2 DEF ValidInv, End
    <2>3. ASSUME NEW t \in Txs, validate(t) PROVE ValidInv'
      <3>1. PICK subscribed, fate :
               tx' = {[tx |-> t, outcome |-> validate_transaction(t, config.chain_id),
                       subscribed |-> subscribed, fate |-> fate]}
        BY <2>3 DEF validate
      <3>2. t \in Transaction
        BY LifecycleAssumption
      <3>3. process' # "off" /\ config' = config
        BY <2>3 DEF validate, OnNetwork, startVars
      <3>4. QED
        BY <3>1, <3>2, <3>3 DEF ValidInv
    <2>4. CASE forward
      <3>1. PICK u, fate : u \in tx /\ tx' = {[u EXCEPT !.fate = fate]}
        BY <2>4 DEF forward
      <3>2. PICK t, subscribed, was :
               /\ t \in Transaction
               /\ u = [tx |-> t, outcome |-> validate_transaction(t, config.chain_id),
                       subscribed |-> subscribed, fate |-> was]
        BY <3>1 DEF ValidInv
      <3>3. tx' = {[tx |-> t, outcome |-> validate_transaction(t, config.chain_id),
                    subscribed |-> subscribed, fate |-> fate]}
        <4> DEFINE outcome == validate_transaction(t, config.chain_id)
        <4> HIDE DEF outcome
        <4>1. [u EXCEPT !.fate = fate] = [tx |-> t, outcome |-> outcome,
                                          subscribed |-> subscribed, fate |-> fate]
          BY <3>2 DEF outcome
        <4>2. QED
          BY <3>1, <4>1 DEF outcome
      <3>4. tx # {} /\ process' = process /\ config' = config
        BY <2>4 DEF forward, startVars
      <3>5. QED
        BY <3>2, <3>3, <3>4 DEF ValidInv
    <2>5. CASE UNCHANGED <<tx, config>> /\ (process' = "off" => process = "off")
      BY <2>5 DEF ValidInv
    <2>6. CASE UNCHANGED vars
      BY <2>6 DEF ValidInv, vars, startVars, taskVars
    <2>7. QED
      BY <2>1, <2>2, <2>3, <2>4, <2>5, <2>6
         DEF Next, Main, Proceed, handler_waits, loop_starts, start_ws_server,
             ws_capacity_panics, load_key, load_key_fails, generate_key, write_key, key_written,
             new_forwarder, buffer_size_panics, block_cache_size_panics, estimate_panics,
             choose_head, spawn_network, spawn_listener, Listener, listener_subscribes,
             listener_stops, main_fails, ctrl_c, killed, stop_network, main_returns,
             Finished, startVars, taskVars
  <1>3. ValidInv => ValidatedExactly
    <2> SUFFICES ASSUME ValidInv, NEW u \in tx
                 PROVE  u.outcome.valid <=> Acceptable(u.tx, config.chain_id)
      BY DEF ValidatedExactly
    <2>1. PICK t \in Transaction :
             u.tx = t /\ u.outcome = validate_transaction(t, config.chain_id)
      BY DEF ValidInv
    <2>2. QED
      BY <2>1, ValidatorExact
  <1>4. QED
    BY <1>1, <1>2, <1>3, PTL DEF Spec

-----------------------------------------------------------------------------
\* node.key holds the key k, whole.
Holds(k) == key_file = {[key |-> k, len |-> KeyLen]}

\* The inductive invariant behind SameIdentity: a key gets into memory only
\* when the file holds it whole, and onto the network only from memory; the
\* file is written only while the node has no identity yet.
IdentityInv ==
    /\ key_file = {} \/ \E k, n : key_file = {[key |-> k, len |-> n]}
    /\ identities = {} \/ \E k : identities = {k} /\ Holds(k)
    /\ process = "write_key" => identities = {} /\ key_file # {}
    /\ process \in {"forwarder", "network", "connecting", "fetch_client", "running",
                    "stopping"} => \E k : secret_key = {k} /\ Holds(k)
    /\ process \in {"connecting", "fetch_client", "running", "stopping"} =>
          identities = secret_key

\* load_or_generate gives a key that the file holds whole.
LEMMA KeyStepsKeepIdentity ==
    IdentityInv /\ (load_key \/ generate_key \/ write_key \/ key_written) => IdentityInv'
  <1> SUFFICES ASSUME IdentityInv, load_key \/ generate_key \/ write_key \/ key_written
               PROVE  IdentityInv'
    OBVIOUS
  <1>1. CASE load_key
    <2>1. PICK k, n : key_file = {[key |-> k, len |-> n]}
      BY <1>1 DEF load_key, exists, IdentityInv
    <2>2. n = KeyLen /\ secret_key' = {k} /\ Holds(k)'
      BY <1>1, <2>1 DEF load_key, decodes, Holds
    <2>3. QED
      BY <1>1, <2>1, <2>2 DEF load_key, Proceed, IdentityInv, Holds, historyVars
  <1>2. CASE generate_key
    <2>1. key_file = {} /\ identities = {}
      BY <1>2 DEF generate_key, exists, IdentityInv, Holds
    <2>2. QED
      BY <1>2, <2>1 DEF generate_key, Proceed, created, IdentityInv, Holds, historyVars
  <1>3. CASE write_key
    <2>1. PICK n : key_file' = longer(key_file, n)
      BY <1>3 DEF write_key
    <2>2. \E k : key_file' = {[key |-> k, len |-> n]}
      <3>1. PICK k, m : key_file = {[key |-> k, len |-> m]}
        BY <1>3 DEF write_key, IdentityInv
      <3>2. key_file' = {[key |-> k, len |-> n]}
        BY <2>1, <3>1 DEF longer
      <3>3. QED
        BY <3>2
    <2>3. /\ process' = "write_key" /\ identities' = {}
          /\ key_file' # {}
      BY <1>3, <2>2 DEF write_key, IdentityInv, historyVars
    <2>4. QED
      BY <2>2, <2>3 DEF IdentityInv
  <1>4. CASE key_written
    <2>1. key_file # {}
      BY <1>4 DEF key_written, Proceed, IdentityInv
    <2>2. PICK k, n : key_file = {[key |-> k, len |-> n]}
      BY <2>1 DEF IdentityInv
    <2>3. n = KeyLen /\ secret_key' = {k} /\ Holds(k)'
      BY <1>4, <2>2 DEF key_written, written, encoded_len, Holds
    <2>4. QED
      BY <1>4, <2>3 DEF key_written, Proceed, IdentityInv, Holds, historyVars
  <1>5. QED
    BY <1>1, <1>2, <1>3, <1>4

\* The network is started under the key of the file, which is the one of all
\* earlier networks.
LEMMA NetworkKeepsIdentity == IdentityInv /\ choose_head => IdentityInv'
  <1> SUFFICES ASSUME IdentityInv, choose_head PROVE IdentityInv'
    OBVIOUS
  <1>1. PICK k : secret_key = {k} /\ Holds(k)
    BY DEF choose_head, Proceed, IdentityInv
  <1>2. identities \subseteq {k}
    <2>1. ASSUME NEW j, Holds(j) PROVE j = k
      <3>1. [key |-> j, len |-> KeyLen] = [key |-> k, len |-> KeyLen]
        BY <1>1, <2>1 DEF Holds
      <3>2. QED
        BY <3>1
    <2>2. QED
      BY <2>1 DEF IdentityInv
  <1>3. identities' = {k} /\ secret_key' = {k} /\ Holds(k)'
    BY <1>1, <1>2 DEF choose_head, keyVars, Holds
  <1>4. QED
    BY <1>3 DEF choose_head, Proceed, IdentityInv, Holds

\* Over any number of starts, crashes and failed writes the node appears on the
\* network under one key, the one its file holds.
THEOREM IdentityCorrect == Spec => []SameIdentity
  <1>1. Init => IdentityInv
    BY DEF Init, IdentityInv
  <1>2. IdentityInv /\ [Next]_vars => IdentityInv'
    <2> SUFFICES ASSUME IdentityInv, [Next]_vars PROVE IdentityInv'
      OBVIOUS
    <2>1. CASE load_key \/ generate_key \/ write_key \/ key_written
      BY <2>1, KeyStepsKeepIdentity
    <2>2. CASE choose_head
      BY <2>2, NetworkKeepsIdentity
    <2>3. ASSUME NEW how, End(how) PROVE IdentityInv'
      BY <2>3 DEF End, IdentityInv, Holds
    <2>4. CASE spawn_network \/ spawn_listener \/ stop_network
      BY <2>4 DEF spawn_network, spawn_listener, stop_network, Proceed, IdentityInv, Holds,
                  keyVars, historyVars
    <2>5. ASSUME NEW cfg, start(cfg) PROVE IdentityInv'
      BY <2>5 DEF start, IdentityInv, Holds, keyVars, historyVars
    <2>6. CASE start_ws_server
      BY <2>6 DEF start_ws_server, Proceed, IdentityInv, Holds, keyVars, historyVars
    <2>7. CASE new_forwarder
      BY <2>7 DEF new_forwarder, Proceed, IdentityInv, Holds, keyVars, historyVars
    <2>8. CASE UNCHANGED <<process, key_file, secret_key, identities>>
      BY <2>8 DEF IdentityInv, Holds
    <2>9. QED
      BY <2>1, <2>2, <2>3, <2>4, <2>5, <2>6, <2>7, <2>8
         DEF Next, Main, handler_waits, loop_starts, ws_capacity_panics, load_key_fails,
             buffer_size_panics, block_cache_size_panics, estimate_panics, main_fails, validate,
             Listener, listener_subscribes, listener_stops, forward, ctrl_c, killed,
             main_returns, Finished, vars, keyVars, historyVars
  <1>3. IdentityInv => SameIdentity
    <2> SUFFICES ASSUME IdentityInv PROVE SameIdentity
      OBVIOUS
    <2>1. CASE identities = {}
      <3>1. Cardinality(identities) = 0
        BY <2>1, FS_EmptySet
      <3>2. QED
        BY <2>1, <3>1 DEF IdentityInv, SameIdentity
    <2>2. CASE \E k : identities = {k} /\ Holds(k)
      <3>1. Cardinality(identities) = 1
        BY <2>2, FS_Singleton
      <3>2. QED
        BY <2>2, <3>1 DEF SameIdentity, Holds
    <2>3. QED
      BY <2>1, <2>2 DEF IdentityInv
  <1>4. QED
    BY <1>1, <1>2, <1>3, PTL DEF Spec

-----------------------------------------------------------------------------
\* Some key is in the file, but not all of it.
TornFile == \E k, n : key_file = {[key |-> k, len |-> n]} /\ n # KeyLen

\* The inductive invariant behind BadKeyWasTorn: a torn file is the work of the
\* process that writes it or of one that ended there, and no process gets past
\* a torn file or near the writing of another.
CauseInv ==
    /\ key_file = {} \/ \E k, n : key_file = {[key |-> k, len |-> n]}
    /\ TornFile => torn \/ process = "write_key"
    /\ torn => /\ TornFile /\ identities = {} /\ secret_key = {}
               /\ process \in {"off", "websocket", "load_key"}
    /\ process = "write_key" => key_file # {} /\ identities = {}
    /\ identities # {} => key_file # {} /\ ~TornFile
    /\ process \in {"forwarder", "network"} => ~TornFile /\ key_file # {}
    /\ ended = "bad_key" => torn

\* A file that does not decode is torn, one that is written is not.
LEMMA TornOrWhole ==
    ASSUME CauseInv
    PROVE  /\ TornFile <=> key_file # {} /\ ~decodes(key_file)
           /\ key_file # {} => (written(key_file) <=> ~TornFile)
  <1>1. CASE key_file = {}
    BY <1>1 DEF TornFile
  <1>2. CASE key_file # {}
    <2>1. PICK k, n : key_file = {[key |-> k, len |-> n]}
      BY <1>2 DEF CauseInv
    <2>2. decodes(key_file) <=> n = KeyLen
      BY <2>1 DEF decodes
    <2>3. written(key_file) <=> n = KeyLen
      BY <2>1 DEF written, encoded_len
    <2>4. TornFile <=> n # KeyLen
      <3>1. ASSUME NEW j, NEW m, key_file = {[key |-> j, len |-> m]} PROVE m = n
        <4>1. [key |-> j, len |-> m] = [key |-> k, len |-> n]
          BY <2>1, <3>1
        <4>2. QED
          BY <4>1
      <3>2. ASSUME TornFile PROVE n # KeyLen
        <4>1. PICK j, m : key_file = {[key |-> j, len |-> m]} /\ m # KeyLen
          BY <3>2, Zenon DEF TornFile
        <4>2. QED
          BY <3>1, <4>1
      <3>3. ASSUME n # KeyLen PROVE TornFile
        <4>1. key_file = {[key |-> k, len |-> n]} /\ n # KeyLen
          BY <2>1, <3>3
        <4>2. \E j, m : key_file = {[key |-> j, len |-> m]} /\ m # KeyLen
          <5> WITNESS k, n
          <5> QED BY <4>1
        <4>3. QED
          BY <4>2, Zenon DEF TornFile
      <3>4. QED
        BY <3>2, <3>3
    <2>5. QED
      BY <1>2, <2>2, <2>3, <2>4
  <1>3. QED
    BY <1>1, <1>2

\* However the process ends, it ends for its cause.
LEMMA EndKeepsCause ==
    ASSUME CauseInv, NEW how, End(how),
           how = "bad_key" => TornFile /\ process = "load_key"
    PROVE  CauseInv'
  <1>1. /\ process' = "off" /\ ended' = how /\ secret_key' = {}
        /\ torn' = (torn \/ (process = "write_key" /\ ~written(key_file)))
        /\ UNCHANGED <<key_file, identities>>
    BY DEF End
  <1>2. torn' <=> TornFile
    BY <1>1, TornOrWhole DEF CauseInv
  <1>3. TornFile' <=> TornFile
    BY <1>1 DEF TornFile
  <1>4. TornFile => identities = {}
    BY DEF CauseInv
  <1>5. QED
    BY <1>1, <1>2, <1>3, <1>4 DEF CauseInv

\* The steps on node.key.
LEMMA KeyStepsKeepCause ==
    CauseInv /\ (load_key \/ generate_key \/ write_key \/ key_written) => CauseInv'
  <1> SUFFICES ASSUME CauseInv, load_key \/ generate_key \/ write_key \/ key_written
               PROVE  CauseInv'
    OBVIOUS
  <1>1. UNCHANGED <<ended, torn, identities>>
    BY DEF load_key, generate_key, write_key, key_written, historyVars
  <1>2. CASE load_key
    <2>1. /\ key_file # {} /\ decodes(key_file) /\ process' = "forwarder" /\ key_file' = key_file
      BY <1>2 DEF load_key, exists, Proceed
    <2>2. ~TornFile
      BY <2>1, TornOrWhole
    <2>3. TornFile' <=> TornFile
      BY <2>1 DEF TornFile
    <2>4. QED
      BY <1>1, <2>1, <2>2, <2>3 DEF CauseInv
  <1>3. CASE generate_key
    <2>1. /\ key_file = {} /\ process' = "write_key" /\ key_file' = {[key |-> starts, len |-> 0]}
          /\ secret_key' = secret_key
      BY <1>3 DEF generate_key, exists, Proceed, created
    <2>2. ~TornFile
      BY <2>1 DEF TornFile
    <2>3. identities = {} /\ ~torn
      BY <2>1, <2>2 DEF CauseInv
    <2>4. QED
      BY <1>1, <2>1, <2>3 DEF CauseInv
  <1>4. CASE write_key
    <2>1. process = "write_key" /\ process' = "write_key"
      BY <1>4 DEF write_key
    <2>2. \E k, n : key_file' = {[key |-> k, len |-> n]}
      <3>1. PICK k, m : key_file = {[key |-> k, len |-> m]}
        BY <2>1 DEF CauseInv
      <3>2. PICK n : key_file' = longer(key_file, n)
        BY <1>4 DEF write_key
      <3>3. key_file' = {[key |-> k, len |-> n]}
        BY <3>1, <3>2 DEF longer
      <3>4. QED
        BY <3>3
    <2>3. key_file' # {}
      BY <2>2
    <2>4. identities = {} /\ ~torn
      BY <2>1 DEF CauseInv
    <2>5. QED
      BY <1>1, <2>1, <2>2, <2>3, <2>4 DEF CauseInv
  <1>5. CASE key_written
    <2>1. /\ written(key_file) /\ process = "write_key" /\ process' = "forwarder"
          /\ key_file' = key_file
      BY <1>5 DEF key_written, Proceed
    <2>2. key_file # {} /\ ~TornFile
      BY <2>1, TornOrWhole DEF CauseInv
    <2>3. TornFile' <=> TornFile
      BY <2>1 DEF TornFile
    <2>4. QED
      BY <1>1, <2>1, <2>2, <2>3 DEF CauseInv
  <1>6. QED
    BY <1>2, <1>3, <1>4, <1>5

\* A start that cannot read its key follows one that died writing it, and no
\* start after that one gets to the network, for all configurations and histories.
THEOREM BadKeyCorrect == Spec => []BadKeyWasTorn
  <1>1. Init => CauseInv
    <2> SUFFICES ASSUME Init PROVE CauseInv
      OBVIOUS
    <2>1. ~TornFile
      BY DEF Init, TornFile
    <2>2. QED
      BY <2>1 DEF Init, CauseInv
  <1>2. CauseInv /\ [Next]_vars => CauseInv'
    <2> SUFFICES ASSUME CauseInv, [Next]_vars PROVE CauseInv'
      OBVIOUS
    <2>1. CASE load_key \/ generate_key \/ write_key \/ key_written
      BY <2>1, KeyStepsKeepCause
    <2>2. CASE choose_head
      <3>1. /\ process = "network" /\ process' = "connecting"
            /\ identities' = identities \cup secret_key
            /\ UNCHANGED <<key_file, secret_key, ended, torn>>
        BY <2>2 DEF choose_head, Proceed, keyVars
      <3>2. TornFile' <=> TornFile
        BY <3>1 DEF TornFile
      <3>3. QED
        BY <3>1, <3>2 DEF CauseInv
    <2>3. ASSUME NEW cfg, start(cfg) PROVE CauseInv'
      <3>1. /\ process = "off" /\ process' = "websocket"
            /\ UNCHANGED <<key_file, secret_key, identities, ended, torn>>
        BY <2>3 DEF start, keyVars, historyVars
      <3>2. TornFile' <=> TornFile
        BY <3>1 DEF TornFile
      <3>3. QED
        BY <3>1, <3>2 DEF CauseInv
    <2>4. CASE load_key_fails
      BY <2>4, EndKeepsCause, TornOrWhole DEF load_key_fails, exists
    <2>5. CASE ws_capacity_panics \/ buffer_size_panics \/ block_cache_size_panics
                  \/ estimate_panics
      BY <2>5, EndKeepsCause
         DEF ws_capacity_panics, buffer_size_panics, block_cache_size_panics, estimate_panics
    <2>6. CASE main_fails \/ killed \/ main_returns
      BY <2>6, EndKeepsCause DEF main_fails, killed, main_returns
    <2>7. ASSUME UNCHANGED <<key_file, secret_key, identities, ended, torn>>,
                 \/ process' = process
                 \/ process = "websocket" /\ process' = "load_key"
                 \/ process = "forwarder" /\ process' = "network"
                 \/ process = "connecting" /\ process' = "fetch_client"
                 \/ process = "fetch_client" /\ process' = "running"
                 \/ process = "running" /\ process' = "stopping"
          PROVE  CauseInv'
      <3>1. TornFile' <=> TornFile
        BY <2>7 DEF TornFile
      <3>2. QED
        BY <2>7, <3>1 DEF CauseInv
    <2>8. QED
      BY <2>1, <2>2, <2>3, <2>4, <2>5, <2>6, <2>7
         DEF Next, Main, handler_waits, loop_starts, start_ws_server, new_forwarder,
             spawn_network, spawn_listener, stop_network, Proceed, Listener,
             listener_subscribes, listener_stops, validate, forward, ctrl_c, Finished, vars,
             keyVars, historyVars, startVars
  <1>3. CauseInv => BadKeyWasTorn
    BY DEF CauseInv, BadKeyWasTorn
  <1>4. QED
    BY <1>1, <1>2, <1>3, PTL DEF Spec

-----------------------------------------------------------------------------
(***************************************************************************)
(* The head of the start. Division by the slot time, and the types.        *)
(***************************************************************************)

\* The slots that have begun are those up to the quotient.
LEMMA QuotientCounts ==
    ASSUME NEW d \in Nat, NEW s \in Nat \ {0}, NEW k \in Nat
    PROVE  d \div s \in Nat /\ d \div s <= d /\ (k * s <= d <=> k <= d \div s)
  <1>1. PICK q \in Int, r \in Int : q = d \div s /\ r = d % s
    OBVIOUS
  <1>2. d = s * q + r /\ 0 <= r /\ r < s
    BY <1>1
  <1>3. q >= 0
    <2>1. CASE q <= -1
      <3>1. s * q <= s * (-1)
        BY <2>1
      <3>2. s * q \in Int
        OBVIOUS
      <3>3. QED
        BY <1>2, <3>1, <3>2
    <2>2. QED
      BY <2>1
  <1>4. q <= d
    <2>1. q <= s * q /\ s * q \in Int
      BY <1>3
    <2>2. QED
      BY <1>2, <2>1
  <1>5. k <= q => k * s <= d
    <2>1. ASSUME k <= q PROVE k * s <= d
      <3>1. k * s <= s * q /\ k * s \in Int /\ s * q \in Int
        BY <2>1
      <3>2. QED
        BY <1>2, <3>1
    <2>2. QED
      BY <2>1
  <1>6. ~(k <= q) => ~(k * s <= d)
    <2>1. ASSUME ~(k <= q) PROVE ~(k * s <= d)
      <3>1. k >= q + 1
        BY <2>1
      <3>2. k * s >= (q + 1) * s
        BY <1>3, <3>1
      <3>3. (q + 1) * s = s * q + s
        OBVIOUS
      <3>4. k * s \in Int /\ s * q \in Int
        OBVIOUS
      <3>5. QED
        BY <1>2, <3>2, <3>3, <3>4
    <2>2. QED
      BY <2>1
  <1>7. QED
    BY <1>1, <1>3, <1>4, <1>5, <1>6

\* The estimate of start_sentry_network on a clock not before the anchor.
LEMMA EstimateCountsSlots ==
    ASSUME NEW now \in 0 .. U64Max, now >= AnchorTime
    PROVE  estimated_number(now) = (AnchorNumber + SlotsBegun(now)) % (U64Max + 1)
  <1> USE LifecycleAssumption, WidthAssumption
  <1>1. PICK d \in 0 .. U64Max : d = now - AnchorTime
    OBVIOUS
  <1>2. d % (U64Max + 1) = d
    OBVIOUS
  <1>3. PICK q \in 0 .. U64Max : q = d \div SlotTime
    <2>1. d \div SlotTime \in Nat /\ d \div SlotTime <= d
      BY QuotientCounts
    <2>2. QED
      BY <2>1
  <1>4. {k \in 1 .. U64Max : AnchorTime + k * SlotTime <= now} = 1 .. q
    <2>1. ASSUME NEW k \in 1 .. U64Max PROVE AnchorTime + k * SlotTime <= now <=> k <= q
      <3>1. k * SlotTime <= d <=> k <= q
        BY <1>3, QuotientCounts
      <3>2. k * SlotTime \in Int
        OBVIOUS
      <3>3. QED
        BY <1>1, <3>1, <3>2
    <2>2. QED
      BY <2>1
  <1>5. SlotsBegun(now) = q
    <2>1. Cardinality(1 .. q) = q
      BY FS_Interval
    <2>2. QED
      BY <1>4, <2>1 DEF SlotsBegun
  <1>6. q + AnchorNumber = AnchorNumber + q
    OBVIOUS
  <1>7. QED
    BY <1>1, <1>2, <1>3, <1>5, <1>6 DEF estimated_number

\* The head of a start that read the number n from the cache.
Restored(restored, n) == [restored |-> restored, now |-> {}, number |-> n]

\* The head of a start that read the clock.
Estimated(now) == [restored |-> {}, now |-> {now}, number |-> estimated_number(now)]

\* What choose_head leaves in head: it was read from the cache, or from a clock
\* that did not make the estimate panic.
HeadInv ==
  /\ head = {} \/ \E h : head = {h}
  /\ \A h \in head :
        \/ \E restored \in RestoredHeads : \E n \in restored : h = Restored(restored, n)
        \/ \E now \in Clocks : now >= 0 /\ {} \in RestoredHeads /\ h = Estimated(now)

\* The head of every start is as choose_head computes it.
LEMMA HeadHolds == Spec => []HeadInv
  <1>1. Init => HeadInv
    BY DEF Init, HeadInv
  <1>2. HeadInv /\ [Next]_vars => HeadInv'
    <2> SUFFICES ASSUME HeadInv, [Next]_vars PROVE HeadInv'
      OBVIOUS
    <2>1. CASE choose_head
      <3>1. CASE \E restored \in RestoredHeads : \E n \in restored :
                    head' = {Restored(restored, n)}
        BY <3>1 DEF HeadInv
      <3>2. CASE /\ {} \in RestoredHeads
                 /\ \E now \in Clocks, checked \in OverflowChecks :
                      ~clock_panics(now, checked) /\ head' = {Estimated(now)}
        <4>1. PICK now \in Clocks, checked \in OverflowChecks :
                 ~clock_panics(now, checked) /\ head' = {Estimated(now)}
          BY <3>2
        <4>2. now >= 0
          BY <4>1, LifecycleAssumption DEF clock_panics
        <4>3. QED
          BY <3>2, <4>1, <4>2 DEF HeadInv
      <3>3. QED
        BY <2>1, <3>1, <3>2, Zenon DEF choose_head, Restored, Estimated
    <2>2. ASSUME NEW how, End(how) PROVE HeadInv'
      BY <2>2 DEF HeadInv, End
    <2>3. CASE UNCHANGED head
      BY <2>3 DEF HeadInv
    <2>4. QED
      BY <2>1, <2>2, <2>3
         DEF Next, Main, start, handler_waits, loop_starts, start_ws_server, ws_capacity_panics,
             load_key, load_key_fails, generate_key, write_key, key_written, new_forwarder,
             buffer_size_panics, block_cache_size_panics, estimate_panics, spawn_network,
             spawn_listener, Listener, listener_subscribes, listener_stops, main_fails,
             validate, forward, ctrl_c, killed, stop_network, main_returns, Finished,
             taskVars, vars
  <1>3. QED
    BY <1>1, <1>2, PTL DEF Spec

\* A restored block has a u64 for its number, and so has every estimate.
LEMMA HeadNumbers ==
    /\ \A restored \in RestoredHeads : \A n \in restored : n \in 0 .. U64Max /\ restored = {n}
    /\ \A now \in Clocks : estimated_number(now) \in 0 .. U64Max
  <1>1. ASSUME NEW restored \in RestoredHeads, NEW n \in restored
        PROVE  n \in 0 .. U64Max /\ restored = {n}
    BY LifecycleAssumption DEF Option
  <1>2. ASSUME NEW now \in Clocks PROVE estimated_number(now) \in 0 .. U64Max
    <2>1. PICK since \in 0 .. U64Max : since = (now - AnchorTime) % (U64Max + 1)
      BY LifecycleAssumption, WidthAssumption
    <2>2. since \div SlotTime + AnchorNumber \in Int
      BY LifecycleAssumption, WidthAssumption
    <2>3. \A n \in Int : n % (U64Max + 1) \in 0 .. U64Max
      BY WidthAssumption
    <2>4. QED
      BY <2>1, <2>2, <2>3 DEF estimated_number
  <1>3. QED
    BY <1>1, <1>2

\* The head shown at the start is the restored one, or the block of the slot
\* in which the clock stands, for all widths, slot times and clocks.
THEOREM HeadCorrect == Spec => []HeadIsCurrentSlot
  <1>1. HeadInv => HeadIsCurrentSlot
    <2> SUFFICES ASSUME HeadInv, NEW h \in head
                 PROVE  /\ h.restored # {} => {h.number} = h.restored
                        /\ \A now \in h.now : now >= AnchorTime =>
                             h.number = (AnchorNumber + SlotsBegun(now)) % (U64Max + 1)
      BY DEF HeadIsCurrentSlot
    <2>1. CASE \E restored \in RestoredHeads : \E n \in restored : h = Restored(restored, n)
      <3>1. PICK restored, n : restored \in RestoredHeads /\ n \in restored
                               /\ h = Restored(restored, n)
        BY <2>1
      <3>2. h.restored = restored /\ h.number = n /\ h.now = {}
        BY <3>1 DEF Restored
      <3>3. QED
        BY <3>1, <3>2, HeadNumbers
    <2>2. CASE \E now \in Clocks : now >= 0 /\ h = Estimated(now)
      <3>1. PICK now \in Clocks : now >= 0 /\ h = Estimated(now)
        BY <2>2
      <3>2. h.restored = {} /\ h.number = estimated_number(now) /\ h.now = {now}
        BY <3>1 DEF Estimated
      <3>3. now \in 0 .. U64Max
        BY <3>1, LifecycleAssumption
      <3>4. QED
        BY <3>2, <3>3, EstimateCountsSlots
    <2>3. QED
      BY <2>1, <2>2 DEF HeadInv
  <1>2. QED
    BY <1>1, HeadHolds, PTL

\* A transaction of the running node.
Recorded(t, outcome, subscribed, fate) ==
    [tx |-> t, outcome |-> outcome, subscribed |-> subscribed, fate |-> fate]

\* TypeOK without the head, in a form a step keeps: a process that runs was
\* started, and there is one transaction at most.
TypeInv ==
    /\ process \in Step /\ config \in Config /\ starts \in 0 .. MaxStarts
    /\ process # "off" => starts > 0
    /\ handler \in BOOLEAN /\ shutdown \in BOOLEAN /\ interrupted \in BOOLEAN
    /\ key_file \in Option([key : 1 .. MaxStarts, len : 0 .. KeyLen])
    /\ secret_key \in Option(1 .. MaxStarts)
    /\ fwd_loop \in {"none", "spawned", "alive", "dead"}
    /\ listener \in {"none", "spawned", "subscribed", "stopped"}
    /\ tx = {} \/ \E t \in Txs : \E outcome, subscribed, fate :
                     tx = {Recorded(t, outcome, subscribed, fate)}
    /\ ended \in {"never", "panic", "bad_key", "io_error", "killed", "clean"}
    /\ torn \in BOOLEAN /\ identities \subseteq 1 .. MaxStarts

\* The key in memory is that of a file.
LEMMA KeyOfFile ==
    ASSUME NEW file \in Option([key : 1 .. MaxStarts, len : 0 .. KeyLen])
    PROVE  /\ {f.key : f \in file} \in Option(1 .. MaxStarts)
           /\ \A n \in 0 .. KeyLen :
                longer(file, n) \in Option([key : 1 .. MaxStarts, len : 0 .. KeyLen])
  <1>1. CASE file = {}
    BY <1>1 DEF Option, longer
  <1>2. CASE file # {}
    <2>1. PICK v \in [key : 1 .. MaxStarts, len : 0 .. KeyLen] : file = {v}
      BY <1>2 DEF Option
    <2>2. {f.key : f \in file} = {v.key} /\ v.key \in 1 .. MaxStarts
      BY <2>1
    <2>3. ASSUME NEW n \in 0 .. KeyLen
          PROVE  longer(file, n) \in Option([key : 1 .. MaxStarts, len : 0 .. KeyLen])
      <3>1. longer(file, n) = {[key |-> v.key, len |-> n]}
        BY <2>1 DEF longer
      <3>2. QED
        BY <2>2, <3>1 DEF Option
    <2>4. QED
      BY <2>2, <2>3 DEF Option
  <1>3. QED
    BY <1>1, <1>2

\* The steps on node.key.
LEMMA KeyStepsKeepTypes ==
    TypeInv /\ (load_key \/ generate_key \/ write_key \/ key_written) => TypeInv'
  <1> SUFFICES ASSUME TypeInv, load_key \/ generate_key \/ write_key \/ key_written
               PROVE  TypeInv'
    OBVIOUS
  <1>1. UNCHANGED <<config, starts, handler, shutdown, interrupted, fwd_loop, listener, tx,
                    ended, torn, identities>>
    BY DEF load_key, generate_key, write_key, key_written, startVars, signalVars, taskVars,
           historyVars
  <1>2. process' \in Step /\ process' # "off" /\ process # "off"
    BY DEF load_key, generate_key, write_key, key_written, Proceed, Step
  <1>3. key_file' \in Option([key : 1 .. MaxStarts, len : 0 .. KeyLen])
    <2>1. CASE generate_key
      <3>1. key_file' = {[key |-> starts, len |-> 0]}
        BY <2>1 DEF generate_key, created
      <3>2. starts \in 1 .. MaxStarts /\ 0 \in 0 .. KeyLen
        BY <1>2, KeyLenAssumption, LifecycleAssumption DEF TypeInv
      <3>3. [key |-> starts, len |-> 0] \in [key : 1 .. MaxStarts, len : 0 .. KeyLen]
        BY <3>2
      <3>4. QED
        BY <3>1, <3>3 DEF Option
    <2>2. CASE write_key
      <3>1. PICK n \in 1 .. encoded_len : key_file' = longer(key_file, n)
        BY <2>2 DEF write_key
      <3>2. n \in 0 .. KeyLen
        BY KeyLenAssumption DEF encoded_len
      <3>3. QED
        BY <3>1, <3>2, KeyOfFile DEF TypeInv
    <2>3. CASE load_key \/ key_written
      BY <2>3 DEF load_key, key_written, TypeInv
    <2>4. QED
      BY <2>1, <2>2, <2>3
  <1>4. secret_key' \in Option(1 .. MaxStarts)
    <2>1. secret_key' = secret_key \/ secret_key' = {f.key : f \in key_file}
      BY DEF load_key, generate_key, write_key, key_written
    <2>2. QED
      BY <2>1, KeyOfFile DEF TypeInv
  <1>5. QED
    BY <1>1, <1>2, <1>3, <1>4 DEF TypeInv

\* The types, and that the head number stays a u64 for every clock, for any
\* widths and constants.
THEOREM LifecycleTypeCorrect == Spec => []TypeOK
  <1>1. Init => TypeInv
    <2> SUFFICES ASSUME Init PROVE TypeInv
      OBVIOUS
    <2>1. NoConfig \in Config
      BY WidthAssumption DEF NoConfig, Config
    <2>2. {} \in Option([key : 1 .. MaxStarts, len : 0 .. KeyLen]) /\ {} \in Option(1 .. MaxStarts)
      BY DEF Option
    <2>3. 0 \in 0 .. MaxStarts
      BY LifecycleAssumption
    <2>4. QED
      BY <2>1, <2>2, <2>3 DEF Init, TypeInv, Step
  <1>2. TypeInv /\ [Next]_vars => TypeInv'
    <2> SUFFICES ASSUME TypeInv, [Next]_vars PROVE TypeInv'
      OBVIOUS
    <2>1. CASE load_key \/ generate_key \/ write_key \/ key_written
      BY <2>1, KeyStepsKeepTypes
    <2>2. ASSUME NEW how \in {"panic", "bad_key", "io_error", "killed", "clean"}, End(how)
          PROVE  TypeInv'
      <3>1. {} \in Option(1 .. MaxStarts)
        BY DEF Option
      <3>2. torn' \in BOOLEAN
        BY <2>2 DEF End
      <3>3. QED
        BY <2>2, <3>1, <3>2 DEF End, TypeInv, Step, startVars
    <2>3. ASSUME NEW cfg \in Config, start(cfg) PROVE TypeInv'
      <3>1. starts' \in 0 .. MaxStarts /\ starts' > 0
        BY <2>3, LifecycleAssumption DEF start, TypeInv
      <3>2. QED
        BY <2>3, <3>1 DEF start, TypeInv, Step, signalVars, keyVars, taskVars, historyVars
    <2>4. ASSUME NEW cfg \in FileConfigs, start(cfg) PROVE TypeInv'
      BY <2>3, <2>4, LifecycleAssumption
    <2>5. ASSUME NEW chain_id \in ChainIds, NEW no_ws \in BOOLEAN, NEW size \in BlockCacheSizes,
                 start(cli_config(chain_id, no_ws, size))
          PROVE  TypeInv'
      <3>1. cli_config(chain_id, no_ws, size) \in Config
        <4>1. chain_id \in 0 .. U64Max /\ size \in Nat /\ DefaultSize \in Nat
          BY LifecycleAssumption
        <4>2. QED
          BY <4>1 DEF cli_config, Config
      <3>2. QED
        BY <2>3, <2>5, <3>1
    <2>6. CASE choose_head
      <3>1. /\ identities' = identities \cup secret_key
            /\ process = "network" /\ process' = "connecting"
        BY <2>6 DEF choose_head, Proceed
      <3>2. identities' \subseteq 1 .. MaxStarts
        BY <3>1 DEF TypeInv, Option
      <3>3. QED
        BY <2>6, <3>1, <3>2
           DEF choose_head, TypeInv, Step, startVars, signalVars, keyVars
    <2>7. ASSUME NEW t \in Txs, validate(t) PROVE TypeInv'
      <3>1. \E outcome, subscribed, fate : tx' = {Recorded(t, outcome, subscribed, fate)}
        BY <2>7 DEF validate, Recorded
      <3>2. QED
        BY <2>7, <3>1 DEF validate, TypeInv, startVars, signalVars, keyVars, historyVars
    <2>8. CASE forward
      <3>1. PICK u, fate : u \in tx /\ tx' = {[u EXCEPT !.fate = fate]}
        BY <2>8 DEF forward
      <3>2. PICK t \in Txs : \E outcome, subscribed, was :
               u = Recorded(t, outcome, subscribed, was)
        BY <3>1 DEF TypeInv
      <3>3. \E outcome, subscribed : tx' = {Recorded(t, outcome, subscribed, fate)}
        BY <3>1, <3>2 DEF Recorded
      <3>4. QED
        BY <2>8, <3>3 DEF forward, TypeInv, startVars, signalVars, keyVars, historyVars
    <2>9. CASE ctrl_c \/ handler_waits
      <3>1. handler' \in BOOLEAN /\ shutdown' \in BOOLEAN /\ interrupted' \in BOOLEAN
        BY <2>9 DEF ctrl_c, handler_waits, cancels, TypeInv
      <3>2. UNCHANGED <<process, startVars, keyVars, taskVars, historyVars>>
        BY <2>9 DEF ctrl_c, handler_waits
      <3>3. QED
        BY <3>1, <3>2 DEF TypeInv, startVars, keyVars, taskVars, historyVars
    <2>10. CASE loop_starts \/ new_forwarder
      <3>1. fwd_loop' \in {"none", "spawned", "alive", "dead"}
        BY <2>10 DEF loop_starts, new_forwarder
      <3>2. process' \in Step /\ (process' # "off" => process # "off")
        BY <2>10 DEF loop_starts, new_forwarder, Proceed, TypeInv, Step
      <3>3. UNCHANGED <<startVars, signalVars, keyVars, listener, head, tx, historyVars>>
        BY <2>10 DEF loop_starts, new_forwarder
      <3>4. QED
        BY <3>1, <3>2, <3>3 DEF TypeInv, startVars, signalVars, keyVars, historyVars
    <2>11. CASE start_ws_server \/ spawn_network \/ stop_network
      <3>1. process' \in Step /\ (process' # "off" => process # "off")
        BY <2>11 DEF start_ws_server, spawn_network, stop_network, Proceed, Step
      <3>2. UNCHANGED <<startVars, signalVars, keyVars, taskVars, historyVars>>
        BY <2>11 DEF start_ws_server, spawn_network, stop_network
      <3>3. QED
        BY <3>1, <3>2 DEF TypeInv, startVars, signalVars, keyVars, taskVars, historyVars
    <2>12. CASE spawn_listener \/ listener_subscribes \/ listener_stops
      <3>1. process' \in Step /\ (process' # "off" => process # "off")
        BY <2>12 DEF spawn_listener, listener_subscribes, listener_stops, Proceed, TypeInv, Step
      <3>2. listener' \in {"none", "spawned", "subscribed", "stopped"}
        BY <2>12 DEF spawn_listener, listener_subscribes, listener_stops
      <3>3. UNCHANGED <<startVars, signalVars, keyVars, fwd_loop, head, tx, historyVars>>
        BY <2>12 DEF spawn_listener, listener_subscribes, listener_stops
      <3>4. QED
        BY <3>1, <3>2, <3>3 DEF TypeInv, startVars, signalVars, keyVars, historyVars
    <2>13. CASE UNCHANGED vars
      BY <2>13 DEF TypeInv, vars, startVars, signalVars, keyVars, taskVars, historyVars
    <2>14. QED
      BY <2>1, <2>2, <2>4, <2>5, <2>6, <2>7, <2>8, <2>9, <2>10, <2>11, <2>12, <2>13
         DEF Next, Main, Listener, ws_capacity_panics, buffer_size_panics,
             block_cache_size_panics, estimate_panics, load_key_fails, main_fails,
             killed, main_returns, Finished
  <1>4. TypeInv /\ HeadInv => TypeOK
    <2> SUFFICES ASSUME TypeInv, HeadInv PROVE TypeOK
      OBVIOUS
    <2>1. Cardinality(tx) <= 1 /\ \A t \in tx : t.tx \in Txs
      <3>1. CASE tx = {}
        BY <3>1, FS_EmptySet
      <3>2. CASE tx # {}
        <4>1. PICK t : tx = {t} /\ t.tx \in Txs
          BY <3>2 DEF TypeInv, Recorded
        <4>2. Cardinality(tx) = 1
          BY <4>1, FS_Singleton
        <4>3. QED
          BY <4>1, <4>2
      <3>3. QED
        BY <3>1, <3>2
    <2>2. head \in Option([restored : RestoredHeads, now : Option(Clocks),
                           number : 0 .. U64Max])
      <3>1. ASSUME NEW h \in head
            PROVE  h \in [restored : RestoredHeads, now : Option(Clocks), number : 0 .. U64Max]
        <4>1. CASE \E restored \in RestoredHeads : \E n \in restored : h = Restored(restored, n)
          BY <4>1, HeadNumbers DEF Restored, Option
        <4>2. CASE \E now \in Clocks : {} \in RestoredHeads /\ h = Estimated(now)
          BY <4>2, HeadNumbers DEF Estimated, Option
        <4>3. QED
          BY <4>1, <4>2 DEF HeadInv
      <3>2. QED
        BY <3>1 DEF HeadInv, Option
    <2>3. QED
      BY <2>1, <2>2 DEF TypeInv, TypeOK
  <1>5. QED
    BY <1>1, <1>2, <1>4, HeadHolds, PTL DEF Spec

=============================================================================
