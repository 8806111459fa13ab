---------------------------- MODULE Rebroadcast ----------------------------
(***************************************************************************)
(* The rebroadcast task of network.rs, between the block import callback   *)
(* and reth's network manager, with the shutdown path beside it. The       *)
(* callback runs inside the manager; the task and main reach the manager   *)
(* only through the channel of their NetworkHandle, in which status        *)
(* updates, requests for the peer list, messages to peers and the shutdown *)
(* command keep their order.                                               *)
(*                                                                         *)
(* The n-th announcement is announced[n], and n travels with the block. A  *)
(* block may be announced again; nothing in the code keeps it from being   *)
(* queued, and sent, again.                                                *)
(*                                                                         *)
(* delivered and joined describe the present session of a peer. Sessions   *)
(* are reth's: a message for a peer without one is dropped, and a session  *)
(* sends what it is given. The request handler shares the cache; here it   *)
(* may do any of its critical sections, in the order EthProxy gives them.  *)
(***************************************************************************)
EXTENDS BlockImport, SequencesExt

CONSTANTS
    Peer,                \* peers that may connect
    BlockCacheSize,      \* block_cache_size of the configuration
    MaxAnnouncements,    \* bound: NewBlock announcements in a behaviour
    MaxDisconnects,      \* bound: disconnects in a behaviour
    MaxFailures,         \* bound: failed requests for the peer list
    MaxUses              \* bound: uses of the cache by the request handler

ASSUME RebroadcastAssumption ==
    /\ BlockCacheSize \in Nat
    /\ MaxAnnouncements \in Nat /\ MaxDisconnects \in Nat /\ MaxFailures \in Nat
    /\ MaxUses \in Nat

VARIABLES
    task,          \* the rebroadcast task: where it is, and its announcement
    commands,      \* the channel from NetworkHandle to the manager
    reply,         \* the answer of get_all_peers, once there: a set of one result
    status,        \* the announcement the manager's status shows, 0 at the start
    connected,     \* peers with a session
    main,          \* start_sentry_network: "events", "shutdown" sent, or "exited"
    shutdown,      \* is the CancellationToken cancelled?
    \* History and bounds:
    announced,     \* the blocks announced so far
    failed,        \* announcements whose peer list could not be had
    joined,        \* announcements made before the peer's session started
    delivered,     \* announcements sent in the peer's session
    disconnects,   \* disconnects so far
    uses           \* uses of the cache by the request handler so far

cacheVars == <<cache, uses>>
sessionVars == <<connected, joined, delivered, disconnects>>
vars == <<cacheVars, rebroadcast_rx, task, commands, reply, status, sessionVars,
          main, shutdown, announced, failed>>

Announcements == 1..Len(announced)

StatusUpdate(n)     == [command |-> "status", n |-> n]
GetPeers            == [command |-> "peers"]
EthMessage(p, n)    == [command |-> "block", peer |-> p, n |-> n]
ShutdownCommand     == [command |-> "shutdown"]

Command == {StatusUpdate(n) : n \in Announcements} \cup {GetPeers, ShutdownCommand}
             \cup {EthMessage(p, n) : p \in Peer, n \in Announcements}

Ok(peers) == [peers |-> peers, error |-> FALSE]
Err       == [peers |-> {}, error |-> TRUE]

Init ==
    /\ cache = new(BlockCacheSize) /\ uses = 0 /\ rebroadcast_rx = <<>>
    /\ task = [at |-> "recv", n |-> 0]
    /\ commands = <<>> /\ reply = {} /\ status = 0
    /\ connected = {} /\ joined = [p \in Peer |-> 0] /\ delivered = [p \in Peer |-> <<>>]
    /\ disconnects = 0
    /\ main = "events" /\ shutdown = FALSE
    /\ announced = <<>> /\ failed = {}

-----------------------------------------------------------------------------
(* Peers and the manager (reth). *)

\* The manager takes new sessions until it has carried out the shutdown.
Accepting == main = "events" \/ Contains(commands, ShutdownCommand)

Connect(p) ==
    /\ Accepting /\ p \notin connected
    /\ connected' = connected \cup {p}
    /\ joined' = [joined EXCEPT ![p] = Len(announced)]
    /\ delivered' = [delivered EXCEPT ![p] = <<>>]
    /\ UNCHANGED <<cacheVars, rebroadcast_rx, task, commands, reply, status, main, shutdown,
                   announced, failed, disconnects>>

Disconnect(p) ==
    /\ p \in connected /\ disconnects < MaxDisconnects /\ main # "exited"
    /\ connected' = connected \ {p}
    /\ disconnects' = disconnects + 1
    /\ UNCHANGED <<cacheVars, rebroadcast_rx, task, commands, reply, status, main, shutdown,
                   announced, failed, joined, delivered>>

\* A connected peer announces a block: the manager calls the import.
ImportBlock(block) ==
    /\ connected # {} /\ main # "exited" /\ Len(announced) < MaxAnnouncements
    /\ on_new_block(block)
    /\ announced' = Append(announced, block)
    /\ UNCHANGED <<uses, task, commands, reply, status, sessionVars, main, shutdown, failed>>

\* A critical section of start_eth_request_handler on the shared cache: a look-up, which
\* promotes its entry, or an insert of what an upstream peer answered.
handle_request ==
    /\ connected # {} \/ disconnects > 0
    /\ main # "exited" /\ uses < MaxUses
    /\ uses' = uses + 1
    /\ \E b, c \in Block :
         cache' \in {touch_header_by_hash(cache, b),
                    touch_header_by_number(cache, NumberOf[b]),
                    touch_body_by_hash(cache, b), insert_header(cache, b, b),
                    insert_body(cache, b, c)}
    /\ UNCHANGED <<rebroadcast_rx, task, commands, reply, status, sessionVars, main, shutdown,
                   announced, failed>>

\* The manager takes the next command of the channel, which has this name.
Command_is(name) ==
    /\ main # "exited" /\ commands # <<>> /\ Head(commands).command = name
    /\ commands' = Tail(commands)

apply_status ==
    /\ Command_is("status")
    /\ status' = Head(commands).n
    /\ UNCHANGED <<cacheVars, rebroadcast_rx, task, reply, sessionVars, main, shutdown,
                   announced, failed>>

answer_peers ==
    /\ Command_is("peers")
    /\ \/ reply' = {Ok(connected)}
       \/ Cardinality(failed) < MaxFailures /\ reply' = {Err}
    /\ UNCHANGED <<cacheVars, rebroadcast_rx, task, status, sessionVars, main, shutdown,
                   announced, failed>>

send_to_session ==
    /\ Command_is("block")
    /\ LET msg == Head(commands)
       IN delivered' = IF msg.peer \in connected
                       THEN [delivered EXCEPT ![msg.peer] = Append(@, msg.n)]
                       ELSE delivered
    /\ UNCHANGED <<cacheVars, rebroadcast_rx, task, reply, status, connected, joined, disconnects,
                   main, shutdown, announced, failed>>

disconnect_all ==
    /\ Command_is("shutdown")
    /\ connected' = {}
    /\ UNCHANGED <<cacheVars, rebroadcast_rx, task, reply, status, joined, delivered, disconnects,
                   main, shutdown, announced, failed>>

-----------------------------------------------------------------------------
(* rebroadcast_new_blocks *)

TaskAt(at) == task.at = at /\ main # "exited"

\* A mutant of Taken: the backlog is skipped and the newest block taken.
Taken_newest(rx) == Len(rx)

\* How many queued blocks a turn of the loop takes from rx.
Taken(rx) == 1

\* A mutant of before_list: the status is left as it was.
before_list_no_status(n) == <<GetPeers>>

\* The commands sent before the peer list is awaited.
before_list(n) == <<StatusUpdate(n), GetPeers>>

\* select!, first branch, up to the await of get_all_peers.
recv ==
    /\ TaskAt("recv") /\ rebroadcast_rx # <<>>
    /\ LET k == Taken(rebroadcast_rx)
           n == task.n + k
       IN /\ rebroadcast_rx' = SubSeq(rebroadcast_rx, k + 1, Len(rebroadcast_rx))
          /\ task' = [at |-> "peers", n |-> n]
          /\ commands' = commands \o before_list(n)
    /\ UNCHANGED <<cacheVars, reply, status, sessionVars, main, shutdown, announced, failed>>

\* The list is there: one message for each peer, in any order, without an await.
send_eth_messages ==
    /\ TaskAt("peers")
    /\ \E r \in reply : ~r.error /\ \E peers \in SetToSeqs(r.peers) :
         commands' = commands \o [i \in DOMAIN peers |-> EthMessage(peers[i], task.n)]
    /\ reply' = {}
    /\ task' = [task EXCEPT !.at = "recv"]
    /\ UNCHANGED <<cacheVars, rebroadcast_rx, status, sessionVars, main, shutdown,
                   announced, failed>>

\* A mutant of after_error: the loop is left instead of continued.
after_error_breaks == "stopped"

\* Where the task goes on after an error: continue.
after_error == "recv"

\* get_all_peers failed: the block goes to nobody.
get_all_peers_failed ==
    /\ TaskAt("peers") /\ reply = {Err}
    /\ reply' = {}
    /\ task' = [task EXCEPT !.at = after_error]
    /\ failed' = failed \cup {task.n}
    /\ UNCHANGED <<cacheVars, rebroadcast_rx, commands, status, sessionVars, main, shutdown,
                   announced>>

\* select!, second branch; it may be taken with blocks waiting in rx.
task_stops ==
    /\ TaskAt("recv") /\ shutdown
    /\ task' = [task EXCEPT !.at = "stopped"]
    /\ UNCHANGED <<cacheVars, rebroadcast_rx, commands, reply, status, sessionVars, main, shutdown,
                   announced, failed>>

-----------------------------------------------------------------------------
(* Shutdown. *)

ctrl_c ==
    /\ ~shutdown /\ shutdown' = TRUE
    /\ UNCHANGED <<cacheVars, rebroadcast_rx, task, commands, reply, status, sessionVars, main,
                   announced, failed>>

\* The event loop ends; the cache is saved (BlockStore) and the network told to stop.
stop_network ==
    /\ main = "events" /\ shutdown
    /\ commands' = Append(commands, ShutdownCommand)
    /\ main' = "shutdown"
    /\ UNCHANGED <<cacheVars, rebroadcast_rx, task, reply, status, sessionVars, shutdown,
                   announced, failed>>

\* network_handle.shutdown() was answered: main returns and every task ends with it.
main_returns ==
    /\ main = "shutdown" /\ ~Contains(commands, ShutdownCommand)
    /\ main' = "exited"
    /\ UNCHANGED <<cacheVars, rebroadcast_rx, task, commands, reply, status, sessionVars, shutdown,
                   announced, failed>>

Manager == apply_status \/ answer_peers \/ send_to_session \/ disconnect_all
Task == recv \/ send_eth_messages \/ get_all_peers_failed \/ task_stops
Main == stop_network \/ main_returns

Next ==
    \/ \E p \in Peer : Connect(p) \/ Disconnect(p)
    \/ \E block \in Block : ImportBlock(block)
    \/ handle_request
    \/ Manager \/ Task \/ Main \/ ctrl_c

(***************************************************************************)
(* tokio polls every woken task again: the manager, the rebroadcast task   *)
(* and main proceed when they can. Peers and the operator owe nothing.     *)
(***************************************************************************)
Fairness == WF_vars(Manager) /\ WF_vars(Task) /\ WF_vars(Main)

Spec == Init /\ [][Next]_vars /\ Fairness

-----------------------------------------------------------------------------
(* Properties. *)

\* The type invariant: where everything is, and that the backlog is the end
\* of what was announced.
TypeOK ==
    /\ announced \in Seq(Block) /\ failed \subseteq Announcements
    /\ IsBlockCache(cache) /\ uses \in 0..MaxUses
    /\ task \in [at : {"recv", "peers", "stopped"}, n : 0..Len(announced)]
    /\ rebroadcast_rx = SubSeq(announced, task.n + 1, Len(announced))
    /\ commands \in Seq(Command) /\ status \in 0..Len(announced)
    /\ reply \subseteq {Err} \cup {Ok(peers) : peers \in SUBSET Peer}
    /\ connected \subseteq Peer /\ joined \in [Peer -> 0..Len(announced)]
    /\ delivered \in [Peer -> Seq(Announcements)]
    /\ main \in {"events", "shutdown", "exited"} /\ shutdown \in BOOLEAN

\* The announcements on their way to p's session: the messages in the channel,
\* the one the task holds for a list that has p or is still to be made, and
\* those queued in rx.
MessagesTo(p) == {i \in DOMAIN commands : commands[i].command = "block" /\ commands[i].peer = p}
InChannel(p) == {commands[i].n : i \in MessagesTo(p)}
HeldFor(p) == IF task.at = "peers" /\ (\A r \in reply : p \in r.peers) THEN {task.n} ELSE {}
Queued == {task.n + i : i \in DOMAIN rebroadcast_rx}

\* Every announcement of the one set was made before those of the other.
Before(S, T) == \A m \in S, n \in T : m < n

Increasing(f, D) == \A i, j \in D : i < j => f[i] < f[j]

(***************************************************************************)
(* Every peer gets every announcement once and in order: those its session *)
(* was sent, and those on their way to it, follow each other in the order  *)
(* they were made, none is repeated, and none that was made during the     *)
(* session is missing, except one whose peer list could not be had. It is  *)
(* about announcements, not blocks: a block announced twice is sent twice. *)
(* This relies on the task handling one block at a time from rx and on all *)
(* its calls going through one channel (rebroadcast_new_blocks).           *)
(***************************************************************************)
EachAnnouncementOnceInOrder ==
    \A p \in connected :
        LET sent == ToSet(delivered[p])
            lost == failed \cup (IF reply = {Err} THEN {task.n} ELSE {})
        IN /\ Increasing(delivered[p], DOMAIN delivered[p])
           /\ Increasing([i \in MessagesTo(p) |-> commands[i].n], MessagesTo(p))
           /\ Before(sent, InChannel(p) \cup HeldFor(p) \cup Queued)
           /\ Before(InChannel(p), HeldFor(p) \cup Queued)
           /\ Before(HeldFor(p), Queued)
           /\ (joined[p] + 1)..Len(announced)
                 \subseteq sent \cup InChannel(p) \cup HeldFor(p) \cup Queued \cup lost

(***************************************************************************)
(* A peer that is sent a block finds that very block as the head of the    *)
(* status: update_status is called before the await and the sends after    *)
(* it, so no other update can come between (network.rs, "Update network    *)
(* status so our fork ID stays current").                                  *)
(***************************************************************************)
SentUnderItsOwnStatus ==
    [][\A p \in Peer : Len(delivered'[p]) > Len(delivered[p]) =>
            status = Last(delivered'[p])]_vars

(***************************************************************************)
(* A block announced while a peer is connected reaches it, unless the peer *)
(* leaves, the list for that very block cannot be had, or the node shuts   *)
(* down: one failed get_all_peers costs one block, not the ones after it.  *)
(***************************************************************************)
BlocksReachPeers ==
    \A p \in Peer, n \in 1..MaxAnnouncements :
        (p \in connected /\ joined[p] < n /\ n <= Len(announced))
            ~> (n \in ToSet(delivered[p]) \/ p \notin connected \/ n \in failed \/ shutdown)

\* All announcements have been handled and their commands carried out.
Quiet == rebroadcast_rx = <<>> /\ task.at = "recv" /\ commands = <<>>

(***************************************************************************)
(* Once everything announced has been handled, the status shows the latest *)
(* head: no announced block is above the one it shows (the comment on      *)
(* rebroadcast_new_blocks says it keeps the status at "the latest head").  *)
(***************************************************************************)
StatusIsLatestHead ==
    Quiet /\ status > 0 =>
        \A n \in Announcements : NumberOf[announced[n]] <= NumberOf[announced[status]]
=============================================================================
