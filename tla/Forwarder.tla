----------------------------- MODULE Forwarder -----------------------------
(***************************************************************************)
(* The transaction path: the pool listener task of network.rs, the bounded *)
(* channel of TxForwarder, its forwarding loop with the deduplicator and   *)
(* the WebSocket broadcast, the HTTP tasks that hold the permits of a      *)
(* semaphore, and the end of the process after Ctrl+C.                     *)
(*                                                                         *)
(* A step of a task runs from one await that may block to the next.        *)
(* A transaction is its hash; its bytes are never looked at.               *)
(***************************************************************************)
EXTENDS Integers, Sequences, FiniteSets

CONSTANTS
    Hash,            \* transactions
    CacheSize,       \* DedupConfig.cache_size
    CounterMod,      \* width of the statistics counters
    NumEndpoints,    \* number of backend endpoints
    MaxConcurrent,   \* BackendConfig.max_concurrent
    BufferSize,      \* BackendConfig.buffer_size
    MaxEvents        \* bound: events the pool emits in a behaviour

ASSUME SizesAssumption ==
    /\ NumEndpoints \in Nat /\ MaxConcurrent \in Nat /\ BufferSize \in Nat \ {0}
    /\ MaxEvents \in Nat

\* The LRU set has a NonZeroUsize capacity, and the counters a width.
ASSUME DedupAssumption == CacheSize \in Nat \ {0} /\ CounterMod \in Nat \ {0}

\* Idle tasks hold "none".
ASSUME HashAssumption == "none" \notin Hash

VARIABLES
    \* The deduplicator (TxDedup).
    cache, total, unique, duplicates, last, seen, since,
    pending_txs,     \* events of the pool the listener has not taken
    listener,        \* the listener task: what it is doing and the event it holds
    queue,           \* the channel between forward() and the loop
    loop,            \* the forwarding loop: what it is doing and its transaction
    permits,         \* free permits of the semaphore
    id_counter,      \* JSON-RPC id of the last spawned HTTP task
    http,            \* the HTTP tasks: id -> its transaction and position
    shutdown,        \* is the CancellationToken cancelled?
    main,            \* main(): "running", "stopping" or "exited"
    \* Bounds and history:
    emitted,         \* events so far
    taken,           \* the transactions handed to forward()
    handled,         \* the transactions the loop received, and the verdicts
    ws_sent,         \* the notifications passed to WsBroadcaster::broadcast
    posts            \* the requests issued: <<id, transaction, endpoint>>

dedupVars == <<cache, total, unique, duplicates, last, seen, since>>
poolVars == <<pending_txs, emitted>>
loopVars == <<loop, handled, ws_sent>>
httpVars == <<permits, id_counter, http, posts>>
vars == <<dedupVars, poolVars, listener, queue, loopVars, httpVars, shutdown, main, taken>>

Dedup == INSTANCE TxDedup

NoTx == [at |-> "idle", tx |-> "none"]
Stopped == [at |-> "stopped", tx |-> "none"]
Endpoint == 1 .. NumEndpoints

Init ==
    /\ Dedup!Init
    /\ pending_txs = <<>> /\ emitted = 0
    /\ listener = NoTx /\ queue = <<>> /\ loop = NoTx
    /\ permits = MaxConcurrent /\ id_counter = 0
    /\ http = [id \in {} |-> [tx |-> "none", endpoint |-> 1, waiting |-> FALSE]]
    /\ shutdown = FALSE /\ main = "running"
    /\ taken = <<>> /\ handled = <<>> /\ ws_sent = <<>> /\ posts = {}
-----------------------------------------------------------------------------
(***************************************************************************)
(* The pool and its listener task.                                         *)
(***************************************************************************)

\* The pool reports a pending transaction, possibly one it reported before.
PoolEvent(tx) ==
    /\ main # "exited" /\ emitted < MaxEvents
    /\ pending_txs' = Append(pending_txs, tx)
    /\ emitted' = emitted + 1
    /\ UNCHANGED <<dedupVars, listener, queue, loopVars, httpVars, shutdown, main, taken>>

\* select!: pending_txs.recv(). The transaction may have left the pool.
listen ==
    /\ main # "exited" /\ listener = NoTx /\ pending_txs # <<>>
    /\ pending_txs' = Tail(pending_txs)
    /\ \/ /\ listener' = [at |-> "forward", tx |-> Head(pending_txs)]
          /\ taken' = Append(taken, Head(pending_txs))
       \/ UNCHANGED <<listener, taken>>
    /\ UNCHANGED <<dedupVars, emitted, queue, loopVars, httpVars, shutdown, main>>

\* A mutant of HasRoom: the channel is unbounded.
HasRoom_always == TRUE

HasRoom == Len(queue) < BufferSize

\* forward(tx): waits until the channel has room, cancelled or not.
forward ==
    /\ main # "exited" /\ listener.at = "forward"
    /\ HasRoom
    /\ queue' = Append(queue, listener.tx)
    /\ listener' = NoTx
    /\ UNCHANGED <<dedupVars, poolVars, loopVars, httpVars, shutdown, main, taken>>

\* A mutant of AtSelect: the token also interrupts forward().
AtSelect_anywhere == listener # Stopped

\* The token is only looked at between two transactions.
AtSelect == listener = NoTx

\* select!: shutdown_tx.cancelled(). The task owned the last Arc<TxForwarder>,
\* so the channel closes.
listener_stops ==
    /\ main # "exited" /\ AtSelect /\ shutdown
    /\ listener' = Stopped
    /\ UNCHANGED <<dedupVars, poolVars, queue, loopVars, httpVars, shutdown, main, taken>>
-----------------------------------------------------------------------------
(***************************************************************************)
(* The forwarding loop.                                                    *)
(***************************************************************************)

\* A mutant of broadcast: WebSocket clients are notified before the dedup check.
broadcast_unchecked(tx, is_new) == Append(ws_sent, tx)

\* ws.broadcast, behind the dedup check.
broadcast(tx, is_new) == IF is_new THEN Append(ws_sent, tx) ELSE ws_sent

\* rx.recv(): a duplicate is skipped; a new transaction is broadcast and, when
\* there are endpoints, waits for a permit.
receive ==
    /\ main # "exited" /\ loop = NoTx /\ queue # <<>>
    /\ LET tx == Head(queue) IN
         /\ Dedup!check_and_insert(tx)
         /\ handled' = Append(handled, [tx |-> tx, is_new |-> last'.is_new])
         /\ ws_sent' = broadcast(tx, last'.is_new)
         /\ loop' = IF last'.is_new /\ NumEndpoints > 0 THEN [at |-> "acquire", tx |-> tx]
                                                        ELSE NoTx
    /\ queue' = Tail(queue)
    /\ UNCHANGED <<poolVars, listener, httpVars, shutdown, main, taken>>

\* acquire_owned() and the spawn of the HTTP task, which takes the permit.
spawn_http ==
    /\ main # "exited" /\ loop.at = "acquire" /\ permits > 0
    /\ permits' = permits - 1
    /\ id_counter' = id_counter + 1
    /\ http' = [id \in DOMAIN http \cup {id_counter'} |->
                  IF id = id_counter' THEN [tx |-> loop.tx, endpoint |-> 1, waiting |-> FALSE]
                                      ELSE http[id]]
    /\ loop' = NoTx
    /\ UNCHANGED <<dedupVars, poolVars, listener, queue, handled, ws_sent, posts, shutdown,
                   main, taken>>

\* rx.recv() returns None once the channel is closed and drained.
loop_stops ==
    /\ main # "exited" /\ loop = NoTx /\ queue = <<>> /\ listener = Stopped
    /\ loop' = Stopped
    /\ UNCHANGED <<dedupVars, poolVars, listener, queue, handled, ws_sent, httpVars,
                   shutdown, main, taken>>
-----------------------------------------------------------------------------
(***************************************************************************)
(* An HTTP task: the endpoints one after the other.                        *)
(***************************************************************************)

\* client.post(endpoint): the request goes out.
post(id) ==
    /\ main # "exited" /\ id \in DOMAIN http /\ ~http[id].waiting
    /\ posts' = posts \cup {<<id, http[id].tx, http[id].endpoint>>}
    /\ http' = [http EXCEPT ![id].waiting = TRUE]
    /\ UNCHANGED <<dedupVars, poolVars, listener, queue, loopVars, permits, id_counter,
                   shutdown, main, taken>>

\* A mutant of FinishTask: the permit is not returned.
FinishTask_leaks(id) ==
    http' = [j \in DOMAIN http \ {id} |-> http[j]] /\ UNCHANGED permits

\* The task is over; its permit is dropped.
FinishTask(id) ==
    /\ http' = [j \in DOMAIN http \ {id} |-> http[j]]
    /\ permits' = permits + 1

NextEndpoint(id) ==
    /\ http' = [http EXCEPT ![id].endpoint = @ + 1, ![id].waiting = FALSE]
    /\ UNCHANGED permits

\* A mutant of LastRequest: a failed request ends the task.
LastRequest_or_failed(id, outcome) == http[id].endpoint = NumEndpoints \/ outcome = "failed"

\* Only the end of the list ends the loop over the endpoints.
LastRequest(id, outcome) == http[id].endpoint = NumEndpoints

\* The endpoint answers, or the request or the parsing fails: all outcomes are
\* logged and the task goes on to the next endpoint.
answered(id, outcome) ==
    /\ main # "exited" /\ id \in DOMAIN http /\ http[id].waiting
    /\ IF LastRequest(id, outcome) THEN FinishTask(id) ELSE NextEndpoint(id)
    /\ UNCHANGED <<dedupVars, poolVars, listener, queue, loopVars, id_counter, posts,
                   shutdown, main, taken>>

Outcome == {"accepted", "failed"}
-----------------------------------------------------------------------------
(***************************************************************************)
(* Shutdown.                                                               *)
(***************************************************************************)

\* Ctrl+C cancels the token.
ctrl_c ==
    /\ ~shutdown
    /\ shutdown' = TRUE
    /\ UNCHANGED <<dedupVars, poolVars, listener, queue, loopVars, httpVars, main, taken>>

\* start_sentry_network leaves its event loop, saves the cache and
\* disconnects the peers.
stop_network ==
    /\ main = "running" /\ shutdown
    /\ main' = "stopping"
    /\ UNCHANGED <<dedupVars, poolVars, listener, queue, loopVars, httpVars, shutdown, taken>>

\* A mutant of NetworkStopped: main waits for the HTTP tasks as well.
NetworkStopped_and_tasks == main = "stopping" /\ DOMAIN http = {}

NetworkStopped == main = "stopping"

\* main returns: the runtime drops every task at its current await.
main_returns ==
    /\ NetworkStopped
    /\ main' = "exited"
    /\ UNCHANGED <<dedupVars, poolVars, listener, queue, loopVars, httpVars, shutdown, taken>>

\* Only the end of the process ends the steps.
Finished ==
    /\ main = "exited" /\ shutdown
    /\ UNCHANGED vars

Next ==
    \/ \E tx \in Hash : PoolEvent(tx)
    \/ listen \/ forward \/ listener_stops
    \/ receive \/ spawn_http \/ loop_stops
    \/ \E id \in DOMAIN http : post(id)
    \/ \E id \in DOMAIN http, outcome \in Outcome : answered(id, outcome)
    \/ ctrl_c \/ stop_network \/ main_returns
    \/ Finished

(***************************************************************************)
(* Fairness: tokio polls every task that can go on. Nothing makes an       *)
(* endpoint answer: reqwest's Client::new() sets no timeout.               *)
(***************************************************************************)
Fairness ==
    /\ WF_vars(listen) /\ WF_vars(forward) /\ WF_vars(receive) /\ WF_vars(spawn_http)
    /\ WF_vars(listener_stops) /\ WF_vars(loop_stops) /\ WF_vars(stop_network)
    /\ WF_vars(main_returns)
    /\ \A id \in 1 .. MaxEvents : WF_vars(post(id))

Spec == Init /\ [][Next]_vars /\ Fairness

\* Every request is answered or fails in the end.
EndpointsAnswer ==
    \A id \in 1 .. MaxEvents : WF_vars(\E outcome \in Outcome : answered(id, outcome))
-----------------------------------------------------------------------------
(***************************************************************************)
(* Properties.                                                             *)
(***************************************************************************)

\* The deduplicator keeps its type and the tasks hold what their code does.
TypeOK ==
    /\ Dedup!TypeOK
    /\ {pending_txs, queue, taken, ws_sent} \subseteq Seq(Hash)
    /\ Len(queue) <= BufferSize
    /\ listener \in {NoTx, Stopped} \cup [at : {"forward"}, tx : Hash]
    /\ loop \in {NoTx, Stopped} \cup [at : {"acquire"}, tx : Hash]
    /\ permits \in 0 .. MaxConcurrent
    /\ id_counter \in 0 .. MaxEvents
    /\ DOMAIN http \subseteq 1 .. id_counter
    /\ http \in [DOMAIN http -> [tx : Hash, endpoint : Endpoint, waiting : BOOLEAN]]
    /\ handled \in Seq([tx : Hash, is_new : BOOLEAN])
    /\ posts \subseteq (1 .. id_counter) \X Hash \X Endpoint
    /\ shutdown \in BOOLEAN /\ main \in {"running", "stopping", "exited"}
    /\ emitted \in 0 .. MaxEvents

HandledTxs == [k \in DOMAIN handled |-> handled[k].tx]
Held(task) == IF task.tx = "none" THEN <<>> ELSE <<task.tx>>

\* No transaction is lost or overtaken on its way to the loop: what the
\* listener took is what the loop handled, then the channel, then the one
\* forward() waits with, so a full channel delays and never drops.
NothingLostInQueue == taken = HandledTxs \o queue \o Held(listener)

\* Where the loop met a transaction the deduplicator passed, and how many such
\* there are up to a position.
NewAt == {k \in DOMAIN handled : handled[k].is_new}
Rank(k) == Cardinality({j \in NewAt : j <= k})

\* WebSocket clients are told of each transaction the deduplicator passed,
\* once and in order, and a transaction is announced again only after at
\* least CacheSize other ones came through the forwarding loop.
WsAnnouncesNewOnce ==
    /\ Len(ws_sent) = Cardinality(NewAt)
    /\ \A k \in NewAt : ws_sent[Rank(k)] = handled[k].tx
    /\ \A k \in DOMAIN handled :
         handled[k].is_new <=>
            \A j \in 1 .. k - 1 : handled[j].tx = handled[k].tx =>
                Cardinality({handled[m].tx : m \in j + 1 .. k - 1} \ {handled[k].tx}) >= CacheSize

\* The semaphore bounds the HTTP tasks and no path through a task loses its
\* permit, whatever the endpoints answer.
PermitsAccounted == permits + Cardinality(DOMAIN http) = MaxConcurrent

\* The endpoints a task has posted its request to so far.
Reached(id) ==
    IF id \in DOMAIN http
    THEN 1 .. (http[id].endpoint - (IF http[id].waiting THEN 0 ELSE 1))
    ELSE Endpoint

\* The n-th announced transaction is posted under id n, to every endpoint in
\* turn and to each once, an endpoint's failure notwithstanding: the requests
\* out are exactly those of the tasks spawned for announced transactions.
EveryEndpointTried ==
    LET spawned == IF loop.at = "acquire" THEN Len(ws_sent) - 1 ELSE Len(ws_sent)
    IN NumEndpoints > 0 =>
         /\ id_counter = spawned
         /\ posts = UNION {{<<id, ws_sent[id], e>> : e \in Reached(id)} : id \in 1 .. spawned}

\* With endpoints that answer, every transaction the listener takes is handled
\* by the loop, and the n-th announced one gets an HTTP task that comes to its
\* end, unless the process ends first.
TransactionsForwarded ==
    EndpointsAnswer =>
        \A n \in 1 .. MaxEvents :
            /\ Len(taken) >= n ~> Len(handled) >= n \/ main = "exited"
            /\ Len(ws_sent) >= n ~> \/ id_counter >= n /\ n \notin DOMAIN http
                                    \/ main = "exited"

\* Ctrl+C ends the process, also while endpoints keep HTTP tasks and with them
\* the forwarding loop waiting.
ShutdownCompletes == shutdown ~> main = "exited"

\* Every transaction the listener takes reaches the WebSocket broadcast (or is
\* a duplicate), whatever the HTTP endpoints do, unless the process ends.
WsInRealTime ==
    \A n \in 1 .. MaxEvents : Len(taken) >= n ~> Len(handled) >= n \/ main = "exited"
=============================================================================
