------------------------------ MODULE TxStream ------------------------------
(***************************************************************************)
(* What a WebSocket client of the sentry is promised (ws_server.rs): from  *)
(* the moment its connection is accepted it gets the announced             *)
(* transactions in order, each at most once, and misses one only if Ring   *)
(* later ones were announced before the server took it for this client.    *)
(* A transaction is its position in the order of the announcements.        *)
(***************************************************************************)
EXTENDS Naturals, Sequences

CONSTANTS Client, Ring

VARIABLES
    tail,      \* transactions announced so far
    readers,   \* the clients that are served
    from,      \* for each client, what had been announced when it was accepted
    stream     \* for each client, the transactions taken for it

streamVars == <<tail, readers, from, stream>>

Init ==
    /\ tail = 0 /\ readers = {}
    /\ from = [c \in Client |-> 0]
    /\ stream = [c \in Client |-> <<>>]

\* The last transaction client c has got.
Last(c) == IF stream[c] = <<>> THEN from[c] ELSE stream[c][Len(stream[c])]

\* The oldest transaction after n that is still there.
NextAfter(n) == IF tail > n + Ring THEN (tail - Ring) + 1 ELSE n + 1

Announce ==
    /\ readers # {}
    /\ tail' = tail + 1
    /\ UNCHANGED <<readers, from, stream>>

Join(c) ==
    /\ c \notin readers /\ stream[c] = <<>>
    /\ readers' = readers \cup {c}
    /\ from' = [from EXCEPT ![c] = tail]
    /\ UNCHANGED <<tail, stream>>

Take(c) ==
    /\ c \in readers /\ Last(c) < tail
    /\ stream' = [stream EXCEPT ![c] = Append(@, NextAfter(Last(c)))]
    /\ UNCHANGED <<tail, readers, from>>

Leave(c) ==
    /\ readers' = readers \ {c}
    /\ UNCHANGED <<tail, from, stream>>

Next == Announce \/ \E c \in Client : Join(c) \/ Take(c) \/ Leave(c)

Spec == Init /\ [][Next]_streamVars
=============================================================================
