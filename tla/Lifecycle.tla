----------------------------- MODULE Lifecycle -----------------------------
(***************************************************************************)
(* The process from start to end, over and over on one data directory:     *)
(* main.rs with the Ctrl+C handler, the start of the WebSocket server, the *)
(* node key, the forwarder and the network, and a transaction that the     *)
(* running node validates and passes on. The process may be killed or an   *)
(* I/O operation may fail at any point. What the tasks do once they run is *)
(* the subject of Forwarder, WsServer, Rebroadcast and EthProxy, and the   *)
(* cache file that of BlockStore.                                          *)
(***************************************************************************)
EXTENDS Validator, NodeKey

CONSTANTS
    FileConfigs,         \* configurations read from a file
    ChainIds,            \* values of --chain-id
    BlockCacheSizes,     \* values of --block-cache-size
    DefaultSize,         \* the default sizes of channels and caches
    MaxSize,             \* the largest size that tokio's channels and LruCache::new take
    Txs,                 \* transactions that peers send
    Clocks,              \* readings of the clock, in seconds since 1970
    OverflowChecks,      \* is arithmetic checked? of the builds that are started
    RestoredHeads,       \* what latest() may give after load_from_file, Options
    AnchorTime, AnchorNumber, SlotTime,   \* the constants of the head estimate
    MaxStarts            \* bound: starts of the process in a behaviour

\* The parts of SentryConfig on which the start-up depends.
Config == [cli : BOOLEAN, websocket : BOOLEAN, ws_capacity : Nat, buffer_size : Nat,
           cache_size : Nat, block_cache_size : Nat, chain_id : 0 .. U64Max]

ASSUME LifecycleAssumption ==
    /\ FileConfigs \subseteq {c \in Config : ~c.cli} /\ ChainIds \subseteq 0 .. U64Max
    /\ BlockCacheSizes \subseteq Nat /\ MaxSize \in Nat /\ DefaultSize \in 1 .. MaxSize
    /\ Txs \subseteq Transaction /\ OverflowChecks \subseteq BOOLEAN
    /\ \A now \in Clocks : now \in Int /\ now <= U64Max
    /\ RestoredHeads \subseteq Option(0 .. U64Max)
    /\ AnchorTime \in 0 .. U64Max /\ AnchorNumber \in 0 .. U64Max /\ SlotTime \in Nat \ {0}
    /\ MaxStarts \in Nat

VARIABLES
    process,      \* what main is about to do, or "off"
    config,       \* the configuration of the last start
    handler,      \* does the Ctrl+C handler wait for the signal?
    shutdown,     \* is the CancellationToken cancelled?
    key_file,     \* node.key
    secret_key,   \* the key main holds, an Option
    fwd_loop,     \* the forwarding loop: "none", "spawned", "alive" or "dead"
    listener,     \* the pool listener: "none", "spawned", "subscribed" or "stopped"
    head,         \* the head the network was started with, an Option
    tx,           \* the transaction of this process, its outcome and fate, an Option
    \* History and bounds:
    interrupted,  \* did the handler receive the signal?
    ended,        \* how the last process ended
    torn,         \* did a process end before node.key was whole?
    identities,   \* the keys reth's network was started with
    starts        \* starts of the process so far

startVars == <<config, starts>>
taskVars == <<fwd_loop, listener, head, tx>>
signalVars == <<handler, shutdown, interrupted>>
keyVars == <<key_file, secret_key>>
historyVars == <<ended, torn, identities>>
vars == <<process, startVars, signalVars, keyVars, taskVars, historyVars>>

NoConfig == [cli |-> FALSE, websocket |-> FALSE, ws_capacity |-> 0, buffer_size |-> 0,
             cache_size |-> 0, block_cache_size |-> 0, chain_id |-> 0]

Init ==
    /\ process = "off" /\ config = NoConfig /\ starts = 0
    /\ handler = FALSE /\ shutdown = FALSE /\ interrupted = FALSE
    /\ key_file = {} /\ secret_key = {}
    /\ fwd_loop = "none" /\ listener = "none" /\ head = {} /\ tx = {}
    /\ ended = "never" /\ torn = FALSE /\ identities = {}

-----------------------------------------------------------------------------
(* Start-up. *)

\* The configuration of the command line: what has no option has its default.
cli_config(chain_id, no_ws, block_cache_size) ==
    [cli |-> TRUE, websocket |-> ~no_ws, ws_capacity |-> DefaultSize,
     buffer_size |-> DefaultSize, cache_size |-> DefaultSize,
     block_cache_size |-> block_cache_size, chain_id |-> chain_id]

\* main up to the spawn of the Ctrl+C handler.
start(cfg) ==
    /\ process = "off" /\ starts < MaxStarts
    /\ process' = "websocket" /\ config' = cfg /\ starts' = starts + 1
    /\ UNCHANGED <<signalVars, keyVars, taskVars, historyVars>>

\* The spawned handler task is polled and registers for the signal.
handler_waits ==
    /\ process # "off" /\ ~handler
    /\ handler' = TRUE
    /\ UNCHANGED <<process, startVars, shutdown, interrupted, keyVars, taskVars, historyVars>>

\* The process is over: memory and tasks are gone, the files stay.
End(how) ==
    /\ process' = "off" /\ ended' = how
    /\ torn' = (torn \/ (process = "write_key" /\ ~written(key_file)))
    /\ handler' = FALSE /\ shutdown' = FALSE /\ interrupted' = FALSE
    /\ secret_key' = {} /\ fwd_loop' = "none" /\ listener' = "none" /\ head' = {} /\ tx' = {}
    /\ UNCHANGED <<startVars, key_file, identities>>

\* main goes on to its next step.
Proceed(at, next) == process = at /\ process' = next

\* Sizes the constructors of channels and LRU maps take; on others they panic.
Takes(size) == size \in 1 .. MaxSize

\* start_ws_server: broadcast::channel may panic; then the port is bound.
start_ws_server ==
    /\ config.websocket => Takes(config.ws_capacity)
    /\ Proceed("websocket", "load_key")
    /\ UNCHANGED <<startVars, signalVars, keyVars, taskVars, historyVars>>

ws_capacity_panics ==
    /\ process = "websocket" /\ config.websocket /\ ~Takes(config.ws_capacity)
    /\ End("panic")

\* load_or_generate: the file is there and holds a key.
load_key ==
    /\ exists(key_file) /\ decodes(key_file)
    /\ Proceed("load_key", "forwarder")
    /\ secret_key' = {f.key : f \in key_file}
    /\ UNCHANGED <<startVars, signalVars, key_file, taskVars, historyVars>>

\* The file is there and holds none: decode or from_slice fails.
load_key_fails ==
    /\ process = "load_key" /\ exists(key_file) /\ ~decodes(key_file)
    /\ End("bad_key")

\* No file: a new key, which no other start has, and the file created.
generate_key ==
    /\ ~exists(key_file)
    /\ Proceed("load_key", "write_key")
    /\ key_file' = created(starts)
    /\ UNCHANGED <<startVars, signalVars, secret_key, taskVars, historyVars>>

\* fs::write goes on with a part of the text that is left.
write_key ==
    /\ process = "write_key" /\ ~written(key_file)
    /\ \E n \in 1 .. encoded_len :
         /\ \A f \in key_file : n > f.len
         /\ key_file' = longer(key_file, n)
    /\ UNCHANGED <<process, startVars, signalVars, secret_key, taskVars, historyVars>>

key_written ==
    /\ written(key_file)
    /\ Proceed("write_key", "forwarder")
    /\ secret_key' = {f.key : f \in key_file}
    /\ UNCHANGED <<startVars, signalVars, key_file, taskVars, historyVars>>

\* TxForwarder::new: mpsc::channel may panic, in main; the loop is spawned.
new_forwarder ==
    /\ Takes(config.buffer_size)
    /\ Proceed("forwarder", "network")
    /\ fwd_loop' = "spawned"
    /\ UNCHANGED <<startVars, signalVars, keyVars, listener, head, tx, historyVars>>

buffer_size_panics ==
    /\ process = "forwarder" /\ ~Takes(config.buffer_size)
    /\ End("panic")


\* NonZeroUsize::new(config.cache_size).expect(..) and LruCache::new.
dedup_panics == ~Takes(config.cache_size)

\* The first poll of forwarding_loop creates the deduplicator. Its panic ends
\* that task and nothing else.
loop_starts ==
    /\ fwd_loop = "spawned"
    /\ fwd_loop' = IF dedup_panics THEN "dead" ELSE "alive"
    /\ UNCHANGED <<process, startVars, signalVars, keyVars, listener, head, tx, historyVars>>

\* A mutant of estimated_number: signed arithmetic.
estimated_number_signed(now) == (now - AnchorTime) \div SlotTime + AnchorNumber

\* A mutant of estimated_number: a slot that has just begun is left out.
estimated_number_late(now) ==
    (((now - AnchorTime - 1) % (U64Max + 1)) \div SlotTime + AnchorNumber) % (U64Max + 1)

\* (now - anchor) / 12 + number, in u64 as a release build computes it.
estimated_number(now) ==
    (((now - AnchorTime) % (U64Max + 1)) \div SlotTime + AnchorNumber) % (U64Max + 1)

\* duration_since(UNIX_EPOCH).unwrap() on a clock before 1970; with checks, an
\* underflow on one before the anchor as well, or an overflow of the sum.
clock_panics(now, checked) ==
    \/ now < 0
    \/ checked /\ (now < AnchorTime
                    \/ (now - AnchorTime) \div SlotTime + AnchorNumber > U64Max)

\* BlockCache::new: a capacity of 0 stands for the default.
block_cache_size_panics ==
    /\ process = "network" /\ config.block_cache_size > MaxSize
    /\ End("panic")

\* Only a node that restored no block reads the clock.
estimate_panics ==
    /\ process = "network" /\ config.block_cache_size <= MaxSize
    /\ {} \in RestoredHeads
    /\ \E now \in Clocks, checked \in OverflowChecks : clock_panics(now, checked)
    /\ End("panic")

\* start_sentry_network up to NetworkManager::new(..).await, which is given the
\* key: the head is the latest restored block, or else an estimate.
choose_head ==
    /\ config.block_cache_size <= MaxSize
    /\ Proceed("network", "connecting")
    /\ \/ \E restored \in RestoredHeads : \E n \in restored :
             head' = {[restored |-> restored, now |-> {}, number |-> n]}
       \/ /\ {} \in RestoredHeads
          /\ \E now \in Clocks, checked \in OverflowChecks :
               /\ ~clock_panics(now, checked)
               /\ head' = {[restored |-> {}, now |-> {now},
                            number |-> estimated_number(now)]}
    /\ identities' = identities \cup secret_key
    /\ UNCHANGED <<startVars, signalVars, keyVars, fwd_loop, listener, tx, ended, torn>>

\* The network and the transactions manager are spawned; fetch_client().await.
spawn_network ==
    /\ Proceed("connecting", "fetch_client")
    /\ UNCHANGED <<startVars, signalVars, keyVars, taskVars, historyVars>>

\* The other tasks are spawned, the listener the last of them.
spawn_listener ==
    /\ Proceed("fetch_client", "running")
    /\ listener' = "spawned"
    /\ UNCHANGED <<startVars, signalVars, keyVars, fwd_loop, head, tx, historyVars>>

\* A `?` returns from main: a port that is taken, a directory or file that
\* cannot be read or written, a network that does not start or answer.
main_fails ==
    /\ process \in {"websocket", "load_key", "write_key", "connecting", "fetch_client",
                    "stopping"}
    /\ process = "websocket" => config.websocket
    /\ End("io_error")

-----------------------------------------------------------------------------
(* The running node, seen by one transaction. *)

\* The tasks of reth are there: the pool takes transactions.
OnNetwork == process \in {"fetch_client", "running", "stopping"}

\* A peer sends a transaction: the pool validates it. It becomes pending when
\* it could be executed with the balance and nonce of the outcome; else it is
\* parked (reth's pool). A listener that subscribes later never hears of it.
validate(t) ==
    LET outcome == validate_transaction(t, config.chain_id)
        executable == Cost(t) <= outcome.balance /\ t.nonce = outcome.state_nonce
        subscribed == listener = "subscribed"
    IN /\ OnNetwork /\ tx = {}
       /\ tx' = {[tx |-> t, outcome |-> outcome, subscribed |-> subscribed,
                  fate |-> IF ~outcome.valid THEN "refused"
                           ELSE IF ~executable THEN "parked"
                           ELSE IF subscribed THEN "pending" ELSE "unheard"]}
       /\ UNCHANGED <<process, startVars, signalVars, keyVars, fwd_loop, listener, head,
                      historyVars>>

\* The first poll of the listener's task: pending_transactions_listener().
listener_subscribes ==
    /\ listener = "spawned"
    /\ listener' = "subscribed"
    /\ UNCHANGED <<process, startVars, signalVars, keyVars, fwd_loop, head, tx, historyVars>>

\* Its select! sees the token.
listener_stops ==
    /\ listener = "subscribed" /\ shutdown
    /\ listener' = "stopped"
    /\ UNCHANGED <<process, startVars, signalVars, keyVars, fwd_loop, head, tx, historyVars>>

\* The listener forwards it: the loop takes it, or the channel is closed
\* because the loop is gone and forward() drops it with a warning.
forward ==
    /\ listener = "subscribed" /\ fwd_loop \in {"alive", "dead"}
    /\ \E t \in tx :
         /\ t.fate = "pending"
         /\ tx' = {[t EXCEPT !.fate = IF fwd_loop = "alive" THEN "handled" ELSE "dropped"]}
    /\ UNCHANGED <<process, startVars, signalVars, keyVars, fwd_loop, listener, head,
                   historyVars>>

-----------------------------------------------------------------------------
(* The end. *)

\* A mutant of cancels: the signal only reaches a network that already runs.
cancels_running == process = "running"

\* shutdown_signal.cancel(): the token remembers.
cancels == TRUE

\* Ctrl+C once the handler waits for it; further signals do nothing.
ctrl_c ==
    /\ process # "off" /\ handler /\ ~interrupted
    /\ interrupted' = TRUE /\ shutdown' = cancels
    /\ UNCHANGED <<process, startVars, handler, keyVars, taskVars, historyVars>>

\* A signal that nothing handles, the first Ctrl+C before the handler waits
\* included.
killed == process # "off" /\ End("killed")

\* The event loop sees the token: the cache is saved, the peers disconnected.
stop_network ==
    /\ shutdown
    /\ Proceed("running", "stopping")
    /\ UNCHANGED <<startVars, signalVars, keyVars, taskVars, historyVars>>

main_returns == process = "stopping" /\ End("clean")

Finished == process = "off" /\ starts = MaxStarts /\ UNCHANGED vars

Main ==
    \/ start_ws_server \/ ws_capacity_panics
    \/ load_key \/ load_key_fails \/ generate_key \/ write_key \/ key_written
    \/ new_forwarder \/ buffer_size_panics
    \/ block_cache_size_panics \/ estimate_panics \/ choose_head
    \/ spawn_network \/ spawn_listener \/ stop_network \/ main_returns

Listener == listener_subscribes \/ forward

Next ==
    \/ \E cfg \in FileConfigs : start(cfg)
    \/ \E chain_id \in ChainIds, no_ws \in BOOLEAN, size \in BlockCacheSizes :
          start(cli_config(chain_id, no_ws, size))
    \/ handler_waits \/ loop_starts \/ Listener \/ listener_stops
    \/ Main \/ main_fails
    \/ \E t \in Txs : validate(t)
    \/ ctrl_c \/ killed
    \/ Finished

\* The runtime polls main, the forwarding loop and the listener; nobody has to
\* start the process, send a transaction or press Ctrl+C.
Fairness == WF_vars(Main) /\ WF_vars(loop_starts) /\ WF_vars(Listener)

Spec == Init /\ [][Next]_vars /\ Fairness

-----------------------------------------------------------------------------
(* Properties. *)

Step == {"off", "websocket", "load_key", "write_key", "forwarder", "network", "connecting",
         "fetch_client", "running", "stopping"}

\* The type invariant; the head number stays a u64 for every clock.
TypeOK ==
    /\ process \in Step /\ config \in Config /\ starts \in 0 .. MaxStarts
    /\ handler \in BOOLEAN /\ shutdown \in BOOLEAN /\ interrupted \in BOOLEAN
    /\ key_file \in Option([key : 1 .. MaxStarts, len : 0 .. KeyLen])
    /\ secret_key \in Option(1 .. MaxStarts)
    /\ fwd_loop \in {"none", "spawned", "alive", "dead"}
    /\ listener \in {"none", "spawned", "subscribed", "stopped"}
    /\ head \in Option([restored : RestoredHeads, now : Option(Clocks), number : 0 .. U64Max])
    /\ Cardinality(tx) <= 1 /\ \A t \in tx : t.tx \in Txs
    /\ ended \in {"never", "panic", "bad_key", "io_error", "killed", "clean"}
    /\ torn \in BOOLEAN /\ identities \subseteq 1 .. MaxStarts

(***************************************************************************)
(* The node keeps one identity: over every sequence of starts, crashes and *)
(* failed writes, all networks were started with the same key, and while   *)
(* one runs that key is in the file, whole, for the next start ("the node  *)
(* keeps the same peer ID across restarts", node_key.rs).                  *)
(***************************************************************************)
SameIdentity ==
    /\ Cardinality(identities) <= 1
    /\ process \in {"connecting", "fetch_client", "running", "stopping"} =>
          key_file = {[key |-> k, len |-> KeyLen] : k \in identities}

(***************************************************************************)
(* A start that cannot read node.key follows one that ended in the middle  *)
(* of writing it; such a file is never repaired, so no later start gets to *)
(* the network (load_or_generate of node_key.rs).                          *)
(***************************************************************************)
BadKeyWasTorn ==
    /\ ended = "bad_key" => torn
    /\ torn => identities = {} /\ secret_key = {}

(***************************************************************************)
(* Ctrl+C is never lost: once the handler has received it, at whatever     *)
(* step of the start-up, the process ends.                                 *)
(***************************************************************************)
CtrlCEndsProcess == interrupted ~> process = "off"

\* The slots that have begun since the anchor.
SlotsBegun(now) == Cardinality({k \in 1 .. U64Max : AnchorTime + k * SlotTime <= now})

(***************************************************************************)
(* The head announced at the start is the restored one, or the block of    *)
(* the slot in which the clock stands, on any clock not before the anchor. *)
(***************************************************************************)
HeadIsCurrentSlot ==
    \A h \in head :
        /\ h.restored # {} => {h.number} = h.restored
        /\ \A now \in h.now : now >= AnchorTime =>
               h.number = (AnchorNumber + SlotsBegun(now)) % (U64Max + 1)

(***************************************************************************)
(* validate_stateless accepts exactly the transactions its documentation   *)
(* describes, with costs counted on unbounded integers: neither the        *)
(* wrapping multiplication nor the order of the checks lets one through or *)
(* keeps one out.                                                          *)
(***************************************************************************)
ValidatedExactly ==
    \A t \in tx : t.outcome.valid <=> Acceptable(t.tx, config.chain_id)

Handled == \E t \in tx : t.fate = "handled"
Ending == process \in {"off", "stopping"}

=============================================================================
