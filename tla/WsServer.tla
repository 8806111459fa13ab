------------------------------ MODULE WsServer ------------------------------
(***************************************************************************)
(* ws_server.rs: the WebSocket server that streams pending transactions.   *)
(* WsBroadcaster::broadcast puts a notification into tokio's broadcast     *)
(* ring and never waits; every accepted connection has a task with its own *)
(* cursor into the ring. A step of a task runs from one await to the next. *)
(*                                                                         *)
(* A notification is its position in the order of the broadcasts. The form *)
(* of the messages a client gets is fixed by its mode, so a message is a   *)
(* position too.                                                           *)
(***************************************************************************)
EXTENDS Integers, Sequences

CONSTANTS
    Client,          \* clients, each of which connects at most once
    Slow,            \* clients that may stop reading and keep the connection open
    FirstMessages,   \* for each client, what it may send first
    Capacity,        \* WsConfig.capacity
    Ring,            \* slots of the ring: Capacity rounded up to a power of two
    MaxBroadcasts    \* bound: calls of broadcast in a behaviour

\* A well-formed subscription is its mode, "other" standing for a mode the
\* code has no name for; "malformed" is text that does not parse and
\* "nontext" any other frame.
Mode == {"raw", "full", "hash", "other"}

ASSUME ClientsAssumption ==
    /\ Slow \subseteq Client
    /\ FirstMessages \in [Client -> SUBSET (Mode \cup {"malformed", "nontext"})]
ASSUME RingAssumption ==
    /\ Capacity \in Nat \ {0} /\ MaxBroadcasts \in Nat
    /\ Ring \in Capacity .. (2 * Capacity - 1)
    /\ \E k \in 0 .. Capacity : Ring = 2 ^ k

VARIABLES
    tail,         \* notifications put into the ring so far
    at,           \* where each connection's task is
    next,         \* each receiver's cursor: the position it has got to
    held,         \* the notification a task is sending, a sequence of at most one
    sent,         \* the notifications each task has written to its socket
    mode,         \* the mode of the subscription, an Option
    inbox,        \* frames of the client the task has not read: at most one
    gone,         \* clients that closed or lost the connection
    \* Bounds and history:
    broadcasts,   \* calls so far
    from,         \* the cursor each receiver started with
    said          \* what the client sent first, an Option

taskVars == <<at, next, held, sent, mode>>
clientVars == <<inbox, gone, said>>
vars == <<tail, taskVars, clientVars, broadcasts, from>>

Init ==
    /\ tail = 0 /\ broadcasts = 0 /\ gone = {}
    /\ at = [c \in Client |-> "absent"]
    /\ next = [c \in Client |-> 0] /\ from = [c \in Client |-> 0]
    /\ held = [c \in Client |-> <<>>] /\ sent = [c \in Client |-> <<>>]
    /\ mode = [c \in Client |-> {}]
    /\ inbox = [c \in Client |-> {}] /\ said = [c \in Client |-> {}]

\* The tasks that own a receiver: it is created on accept and dropped on return.
receivers == {c \in Client : at[c] \notin {"absent", "backlog", "ended"}}

Goto(c, place) == at' = [at EXCEPT ![c] = place]
-----------------------------------------------------------------------------
(***************************************************************************)
(* The forwarding loop and the clients.                                    *)
(***************************************************************************)

\* broadcast(notification): without receivers send fails, which is ignored.
broadcast ==
    /\ broadcasts < MaxBroadcasts
    /\ broadcasts' = broadcasts + 1
    /\ tail' = IF receivers = {} THEN tail ELSE tail + 1
    /\ UNCHANGED <<taskVars, clientVars, from>>

Connect(c) ==
    /\ at[c] = "absent"
    /\ Goto(c, "backlog")
    /\ UNCHANGED <<tail, next, held, sent, mode, clientVars, broadcasts, from>>

\* After the handshake the client sends a first frame, in time or not. Later
\* frames are never read and left out.
Say(c, m) ==
    /\ at[c] \notin {"absent", "backlog", "handshake"} /\ c \notin gone /\ said[c] = {}
    /\ inbox' = [inbox EXCEPT ![c] = {m}]
    /\ said' = [said EXCEPT ![c] = {m}]
    /\ UNCHANGED <<tail, taskVars, gone, broadcasts, from>>

Disconnect(c) ==
    /\ at[c] # "absent" /\ c \notin gone
    /\ gone' = gone \cup {c}
    /\ UNCHANGED <<tail, taskVars, inbox, said, broadcasts, from>>
-----------------------------------------------------------------------------
(***************************************************************************)
(* start_ws_server and handle_ws_connection.                               *)
(***************************************************************************)

\* A mutant of subscribe_cursor: the first notification is skipped.
subscribe_cursor_ahead == tail + 1

\* sender.subscribe(): the next notification is the first one.
subscribe_cursor == tail

\* listener.accept(): the receiver sees what is broadcast from here on, also
\* what comes before the handshake is over.
accept(c) ==
    /\ at[c] = "backlog"
    /\ Goto(c, "handshake")
    /\ next' = [next EXCEPT ![c] = subscribe_cursor]
    /\ from' = [from EXCEPT ![c] = tail]
    /\ UNCHANGED <<tail, held, sent, mode, clientVars, broadcasts>>

\* accept_async(stream): succeeds, or fails and the task returns.
handshake(c) ==
    /\ at[c] = "handshake"
    /\ \/ c \notin gone /\ Goto(c, "subscribing")
       \/ Goto(c, "ended")
    /\ UNCHANGED <<tail, next, held, sent, mode, clientVars, broadcasts, from>>

\* The mode a first frame stands for: raw unless it names another one.
mode_of(m) == IF m \in Mode THEN m ELSE "raw"

\* A mutant of use_raw: the "full" mode is forgotten.
use_raw_strict(m) == m = "raw"

use_raw(m) == m = "raw" \/ m = "full"

\* wait_for_subscription: a frame arrives within the timeout.
subscribe(c) ==
    /\ at[c] = "subscribing"
    /\ \E m \in inbox[c] : mode' = [mode EXCEPT ![c] = {mode_of(m)}]
    /\ inbox' = [inbox EXCEPT ![c] = {}]
    /\ Goto(c, "confirming")
    /\ UNCHANGED <<tail, next, held, sent, gone, said, broadcasts, from>>

\* A mutant of subscribe_default: the connection waits on.
subscribe_default_waits(c) ==
    /\ at[c] = "subscribing" /\ inbox[c] = {} /\ c \notin gone
    /\ UNCHANGED vars

\* The timeout expires: raw mode.
subscribe_default(c) ==
    /\ at[c] = "subscribing" /\ inbox[c] = {} /\ c \notin gone
    /\ mode' = [mode EXCEPT ![c] = {"raw"}]
    /\ Goto(c, "confirming")
    /\ UNCHANGED <<tail, next, held, sent, clientVars, broadcasts, from>>

\* The connection is closed or fails before a first frame.
subscribe_closed(c) ==
    /\ at[c] = "subscribing" /\ inbox[c] = {} /\ c \in gone
    /\ Goto(c, "ended")
    /\ UNCHANGED <<tail, next, held, sent, mode, clientVars, broadcasts, from>>

\* The confirmation is sent. To a client that is gone a write fails, or goes
\* into the buffers of the connection and is lost.
confirm(c) ==
    /\ at[c] = "confirming"
    /\ Goto(c, "streaming") \/ (c \in gone /\ Goto(c, "ended"))
    /\ UNCHANGED <<tail, next, held, sent, mode, clientVars, broadcasts, from>>

\* rx.recv() returns the next notification of the ring.
recv(c) ==
    /\ at[c] = "streaming" /\ next[c] < tail /\ next[c] + Ring >= tail
    /\ held' = [held EXCEPT ![c] = <<next[c] + 1>>]
    /\ next' = [next EXCEPT ![c] = @ + 1]
    /\ Goto(c, "sending")
    /\ UNCHANGED <<tail, sent, mode, clientVars, broadcasts, from>>

\* Mutants of oldest_cursor: only the newest notification is kept, and a slot
\* too far back.
oldest_cursor_newest == tail - 1
oldest_cursor_short == tail - Ring - 1

\* The cursor from which the oldest slot of the ring is next.
oldest_cursor == tail - Ring

\* rx.recv() returns Lagged: the cursor moves to the oldest slot of the ring.
recv_lagged(c) ==
    /\ at[c] = "streaming" /\ next[c] + Ring < tail
    /\ next' = [next EXCEPT ![c] = oldest_cursor]
    /\ UNCHANGED <<tail, at, held, sent, mode, clientVars, broadcasts, from>>

\* ws_sender.send(..) returns; an error ends the task.
send(c) ==
    /\ at[c] = "sending"
    /\ \/ /\ Goto(c, "streaming")
          /\ sent' = [sent EXCEPT ![c] = @ \o held[c]]
          /\ held' = [held EXCEPT ![c] = <<>>]
       \/ c \in gone /\ Goto(c, "ended") /\ UNCHANGED <<sent, held>>
    /\ UNCHANGED <<tail, next, mode, clientVars, broadcasts, from>>

\* The server has caught up with everything.
Finished ==
    /\ broadcasts = MaxBroadcasts
    /\ \A c \in Client : at[c] = "ended" \/ (at[c] = "streaming" /\ next[c] = tail)
    /\ UNCHANGED vars

Next ==
    \/ broadcast
    \/ \E c \in Client :
         \/ Connect(c) \/ Disconnect(c) \/ \E m \in FirstMessages[c] : Say(c, m)
         \/ accept(c) \/ handshake(c)
         \/ subscribe(c) \/ subscribe_default(c) \/ subscribe_closed(c) \/ confirm(c)
         \/ recv(c) \/ recv_lagged(c) \/ send(c)
    \/ Finished

(***************************************************************************)
(* Fairness: tokio polls every task that can go on, the timer of the       *)
(* subscription fires, and a write to a client that reads, or is gone,     *)
(* returns. The handshake has no timeout and depends on the client, so it  *)
(* has no fairness, and writes to Slow clients have none either.           *)
(***************************************************************************)
Fairness ==
    \A c \in Client :
        /\ WF_vars(accept(c)) /\ WF_vars(recv(c)) /\ WF_vars(recv_lagged(c))
        /\ WF_vars(subscribe(c)) /\ WF_vars(subscribe_default(c))
        /\ WF_vars(subscribe_closed(c))
        /\ WF_vars(c \notin Slow \ gone /\ (confirm(c) \/ send(c)))

Spec == Init /\ [][Next]_vars /\ Fairness
-----------------------------------------------------------------------------
(***************************************************************************)
(* Properties.                                                             *)
(***************************************************************************)

\* The tasks are where the code can be, a task holds a notification only
\* while it sends it, and cursors stay within what was broadcast.
TypeOK ==
    /\ tail \in 0 .. MaxBroadcasts /\ broadcasts \in 0 .. MaxBroadcasts
    /\ at \in [Client -> {"absent", "backlog", "handshake", "subscribing", "confirming",
                          "streaming", "sending", "ended"}]
    /\ next \in [Client -> 0 .. tail] /\ from \in [Client -> 0 .. tail]
    /\ \A c \in Client :
         /\ held[c] \in {<<>>} \cup {<<n>> : n \in 1 .. tail}
         /\ at[c] = "sending" => held[c] = <<next[c]>>
         /\ at[c] \notin {"sending", "ended"} => held[c] = <<>>
         /\ sent[c] \in Seq(1 .. tail)
         /\ mode[c] \in {{}} \cup {{m} : m \in Mode}
         /\ inbox[c] \subseteq said[c] /\ said[c] \subseteq FirstMessages[c]
    /\ gone \subseteq Client

\* What was taken from the ring for each client.
Taken == [c \in Client |-> sent[c] \o held[c]]

Stream == INSTANCE TxStream WITH readers <- receivers, stream <- Taken

\* The server implements TxStream: the ring, its cursors and the Lagged path
\* give each client an ordered stream without repetitions that misses a
\* notification only when the ring overwrote it, and never more than that.
ImplementsStream == Stream!Spec

\* A client gets the form it asked for: hashes when it subscribed to them, raw
\* transactions when it named "raw" or "full", when its frame was no
\* subscription, and when its frame came after the 10 seconds or never, however
\* the frame races with the timeout (wait_for_subscription). Of a mode
\* the server has no name for nothing is said: it is served as hashes, and no
\* comment tells what it should get.
FormAsAsked ==
    \A c \in Client : \A m \in mode[c] :
        /\ said[c] = {} \/ inbox[c] # {} => use_raw(m)
        /\ inbox[c] = {} => \A asked \in said[c] \ {"other"} : use_raw(m) <=> asked # "hash"

\* Everything broadcast is sent to a client that reads, or was overwritten
\* while it lagged: the stream of such a client always gets to the newest
\* notification, whatever Slow clients do.
NewestDelivered ==
    \A c \in Client \ Slow, n \in 1 .. MaxBroadcasts :
        at[c] \in {"streaming", "sending"} /\ tail >= n
            ~> (sent[c] # <<>> /\ sent[c][Len(sent[c])] >= n) \/ from[c] >= n \/ c \in gone

\* A client that got through the handshake is served or its task ends, also if
\* it never sends a subscription (wait_for_subscription).
SubscriptionDecided ==
    \A c \in Client \ Slow :
        at[c] = "subscribing" ~> at[c] \in {"streaming", "ended"}
=============================================================================
