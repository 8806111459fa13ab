--------------------------- MODULE WsServerProofs ---------------------------
(***************************************************************************)
(* The WebSocket server implements TxStream, for any number of clients and *)
(* any size of the ring. The argument is about the distance of a cursor    *)
(* from what its client has got: none, or the client has lagged and the    *)
(* cursor stands at or behind the oldest slot of the ring. Then its types, *)
(* and that every client gets the form it asked for.                       *)
(***************************************************************************)
EXTENDS WsServer, SequenceTheorems, TLAPS

USE RingAssumption

\* The last notification taken for a client, or where its receiver started.
Got(c) == Stream!Last(c)

Place == {"absent", "backlog", "handshake", "subscribing", "confirming", "streaming",
          "sending", "ended"}
NoReceiver == {"absent", "backlog", "ended"}

\* The cursor of a receiver: at what the client has got, or past it and then
\* no further than the oldest slot.
CursorInv(c) ==
    /\ Got(c) \in Nat /\ next[c] <= tail
    /\ next[c] = Got(c) \/ (Got(c) < next[c] /\ next[c] + Ring <= tail)

ClientInv(c) ==
    /\ at[c] \in Place /\ next[c] \in Nat /\ from[c] \in Nat
    /\ sent[c] \in Seq(Nat) /\ held[c] \in Seq(Nat)
    /\ at[c] \notin {"sending", "ended"} => held[c] = <<>>
    /\ at[c] \in {"absent", "backlog"} => sent[c] = <<>>
    /\ at[c] \notin NoReceiver => CursorInv(c)

StreamInv ==
    /\ tail \in Nat
    /\ at = [c \in Client |-> at[c]] /\ next = [c \in Client |-> next[c]]
    /\ from = [c \in Client |-> from[c]]
    /\ sent = [c \in Client |-> sent[c]] /\ held = [c \in Client |-> held[c]]
    /\ \A c \in Client : ClientInv(c)

\* What was taken for a client decides, with its start, what it has got.
LEMMA GotDepends ==
    ASSUME NEW c \in Client, Taken'[c] = Taken[c], from'[c] = from[c]
    PROVE  Got(c)' = Got(c)
  BY DEF Got, Stream!Last, Taken

\* A step of broadcast appends to the ring or, without receivers, does nothing.
LEMMA BroadcastStep ==
    ASSUME StreamInv, broadcast
    PROVE  StreamInv' /\ [Stream!Next]_(Stream!streamVars)
  <1>1. UNCHANGED <<at, next, held, sent, from>> /\ tail' \in Nat /\ tail' >= tail
    BY DEF broadcast, StreamInv, taskVars
  <1>2. Taken' = Taken /\ receivers' = receivers
    BY <1>1 DEF Taken, receivers
  <1>3. ASSUME NEW c \in Client PROVE ClientInv(c)'
    <2>1. Got(c)' = Got(c)
      BY <1>1, <1>2, GotDepends
    <2>2. ClientInv(c)
      BY DEF StreamInv
    <2>3. at[c] \notin NoReceiver => CursorInv(c)'
      BY <1>1, <2>1, <2>2 DEF ClientInv, CursorInv, StreamInv
    <2>4. QED
      BY <1>1, <2>2, <2>3 DEF ClientInv
  <1>4. StreamInv'
    BY <1>1, <1>3 DEF StreamInv
  <1>5. CASE receivers = {}
    BY <1>1, <1>2, <1>4, <1>5 DEF broadcast, Stream!streamVars
  <1>6. CASE receivers # {}
    BY <1>1, <1>2, <1>4, <1>6 DEF broadcast, Stream!Next, Stream!Announce
  <1>7. QED
    BY <1>5, <1>6

\* A task that goes on or returns without touching the ring or its socket: a
\* stutter of TxStream, or the client leaves.
LEMMA MoveStep ==
    ASSUME StreamInv, NEW c \in Client, NEW place \in Place, Goto(c, place),
           UNCHANGED <<tail, next, held, sent, from>>,
           place \in NoReceiver \/ at[c] \notin NoReceiver,
           place \in {"sending", "ended"} \/ at[c] \notin {"sending", "ended"},
           place \in {"absent", "backlog"} => at[c] \in {"absent", "backlog"}
    PROVE  StreamInv' /\ [Stream!Next]_(Stream!streamVars)
  <1>1. Taken' = Taken
    BY DEF Taken
  <1>2. at' = [d \in Client |-> IF d = c THEN place ELSE at[d]]
    BY DEF Goto, StreamInv
  <1>3. ASSUME NEW d \in Client PROVE ClientInv(d)'
    <2>1. Got(d)' = Got(d)
      BY <1>1, GotDepends
    <2>2. ClientInv(d)
      BY DEF StreamInv
    <2>3. CursorInv(d)' <=> CursorInv(d)
      BY <2>1 DEF CursorInv
    <2>4. CASE d = c
      BY <1>2, <2>2, <2>3, <2>4 DEF ClientInv, NoReceiver
    <2>5. CASE d # c
      BY <1>2, <2>2, <2>3, <2>5 DEF ClientInv
    <2>6. QED
      BY <2>4, <2>5
  <1>4. StreamInv'
    BY <1>2, <1>3 DEF StreamInv
  <1>5. receivers' = receivers \/ receivers' = receivers \ {c}
    BY <1>2 DEF receivers, NoReceiver
  <1>6. [Stream!Next]_(Stream!streamVars)
    BY <1>1, <1>5 DEF Stream!Next, Stream!Leave, Stream!streamVars
  <1>7. QED
    BY <1>4, <1>6

\* accept gives the client a receiver at the end of what was broadcast.
LEMMA AcceptStep ==
    ASSUME StreamInv, NEW c \in Client, accept(c)
    PROVE  StreamInv' /\ [Stream!Next]_(Stream!streamVars)
  <1>1. ClientInv(c) /\ at[c] = "backlog" /\ sent[c] = <<>> /\ held[c] = <<>>
    BY DEF StreamInv, ClientInv, accept
  <1>2. /\ at' = [d \in Client |-> IF d = c THEN "handshake" ELSE at[d]]
        /\ next' = [d \in Client |-> IF d = c THEN tail ELSE next[d]]
        /\ from' = [d \in Client |-> IF d = c THEN tail ELSE from[d]]
        /\ tail' = tail /\ sent' = sent /\ held' = held
    BY DEF StreamInv, accept, Goto, subscribe_cursor
  <1>3. Taken' = Taken /\ Taken[c] = <<>>
    BY <1>1, <1>2, ConcatEmptySeq DEF Taken
  <1>4. ASSUME NEW d \in Client PROVE ClientInv(d)'
    <2>1. ClientInv(d) /\ tail \in Nat
      BY DEF StreamInv
    <2>2. CASE d = c
      <3>1. Got(c)' = tail
        BY <1>2, <1>3 DEF Got, Stream!Last
      <3>2. CursorInv(c)'
        BY <1>2, <2>1, <3>1 DEF CursorInv
      <3>3. QED
        BY <1>1, <1>2, <2>1, <2>2, <3>2 DEF ClientInv, Place
    <2>3. CASE d # c
      <3>1. Got(d)' = Got(d)
        BY <1>2, <1>3, <2>3, GotDepends
      <3>2. CursorInv(d)' <=> CursorInv(d)
        BY <1>2, <2>3, <3>1 DEF CursorInv
      <3>3. QED
        BY <1>2, <2>1, <2>3, <3>2 DEF ClientInv
    <2>4. QED
      BY <2>2, <2>3
  <1>5. StreamInv'
    BY <1>2, <1>4 DEF StreamInv
  <1>6. c \notin receivers /\ receivers' = receivers \cup {c}
    BY <1>1, <1>2 DEF receivers
  <1>7. from' = [from EXCEPT ![c] = tail]
    BY DEF accept
  <1>8. Stream!Join(c)
    BY <1>2, <1>3, <1>6, <1>7 DEF Stream!Join
  <1>9. QED
    BY <1>5, <1>8 DEF Stream!Next

\* recv takes the notification after the one the client has got, or the oldest
\* of the ring if the client has lagged: the one TxStream asks for.
LEMMA RecvStep ==
    ASSUME StreamInv, NEW c \in Client, recv(c)
    PROVE  StreamInv' /\ [Stream!Next]_(Stream!streamVars)
  <1>1. /\ ClientInv(c) /\ at[c] = "streaming" /\ held[c] = <<>> /\ CursorInv(c)
        /\ tail \in Nat /\ next[c] \in Nat /\ sent[c] \in Seq(Nat)
    BY DEF StreamInv, ClientInv, recv, NoReceiver
  <1>2. /\ at' = [d \in Client |-> IF d = c THEN "sending" ELSE at[d]]
        /\ next' = [d \in Client |-> IF d = c THEN next[c] + 1 ELSE next[d]]
        /\ held' = [d \in Client |-> IF d = c THEN <<next[c] + 1>> ELSE held[d]]
        /\ tail' = tail /\ sent' = sent /\ from' = from
    BY DEF StreamInv, recv, Goto
  <1>3. Taken[c] = sent[c] /\ Taken'[c] = Append(sent[c], next[c] + 1)
    <2>1. next[c] + 1 \in Nat
      BY <1>1
    <2>2. QED
      BY <1>1, <1>2, <2>1, ConcatEmptySeq, AppendIsConcat DEF Taken
  <1>4. Got(c)' = next[c] + 1
    <2>1. next[c] + 1 \in Nat
      BY <1>1
    <2>2. /\ Taken'[c] # <<>> /\ Len(Taken'[c]) = Len(sent[c]) + 1
          /\ Taken'[c][Len(sent[c]) + 1] = next[c] + 1
      BY <1>1, <1>3, <2>1, AppendProperties
    <2>3. QED
      BY <2>2 DEF Got, Stream!Last
  <1>5. next[c] < tail /\ next[c] + Ring >= tail
    BY DEF recv
  <1>6. Got(c) < tail /\ Stream!NextAfter(Got(c)) = next[c] + 1
    <2> DEFINE g == Got(c)
               n == next[c]
    <2>1. g \in Nat /\ n \in Nat /\ tail \in Nat /\ Ring \in Nat
      BY <1>1 DEF CursorInv
    <2>2. n = g \/ (g < n /\ n + Ring <= tail)
      BY <1>1 DEF CursorInv
    <2> HIDE DEF g, n
    <2>3. n < tail /\ n + Ring >= tail
      BY <1>5 DEF n
    <2>4. g < tail /\ (IF tail > g + Ring THEN (tail - Ring) + 1 ELSE g + 1) = n + 1
      BY <2>1, <2>2, <2>3
    <2>5. QED
      BY <2>4 DEF g, n, Stream!NextAfter
  <1>7. ASSUME NEW d \in Client PROVE ClientInv(d)'
    <2>1. ClientInv(d)
      BY DEF StreamInv
    <2>2. CASE d = c
      <3>1. CursorInv(c)'
        BY <1>1, <1>2, <1>4, <1>5 DEF CursorInv
      <3>2. held'[c] \in Seq(Nat) /\ next'[c] \in Nat
        BY <1>1, <1>2
      <3>3. QED
        BY <1>1, <1>2, <2>1, <2>2, <3>1, <3>2 DEF ClientInv, Place
    <2>3. CASE d # c
      <3>1. Taken'[d] = Taken[d]
        BY <1>2, <2>3 DEF Taken
      <3>2. Got(d)' = Got(d)
        BY <1>2, <3>1, GotDepends
      <3>3. CursorInv(d)' <=> CursorInv(d)
        BY <1>2, <2>3, <3>2 DEF CursorInv
      <3>4. QED
        BY <1>2, <2>1, <2>3, <3>3 DEF ClientInv
    <2>4. QED
      BY <2>2, <2>3
  <1>8. StreamInv'
    BY <1>1, <1>2, <1>7 DEF StreamInv
  <1>9. c \in receivers /\ receivers' = receivers
    BY <1>1, <1>2 DEF receivers
  <1>10. Taken' = [Taken EXCEPT ![c] = Append(@, Stream!NextAfter(Stream!Last(c)))]
    <2>1. Taken' = [d \in Client |-> IF d = c THEN Append(Taken[c], next[c] + 1) ELSE Taken[d]]
      BY <1>2, <1>3 DEF Taken
    <2>2. Taken = [d \in Client |-> Taken[d]]
      BY DEF Taken
    <2>3. QED
      BY <1>6, <2>1, <2>2 DEF Got
  <1>11. Stream!Take(c)
    BY <1>2, <1>6, <1>9, <1>10 DEF Stream!Take, Got
  <1>12. QED
    BY <1>8, <1>11 DEF Stream!Next

\* A lagging cursor moves to the oldest slot, which changes no stream.
LEMMA LaggedStep ==
    ASSUME StreamInv, NEW c \in Client, recv_lagged(c)
    PROVE  StreamInv' /\ [Stream!Next]_(Stream!streamVars)
  <1>1. /\ ClientInv(c) /\ at[c] = "streaming" /\ CursorInv(c)
        /\ tail \in Nat /\ next[c] \in Nat /\ next[c] + Ring < tail
    BY DEF StreamInv, ClientInv, recv_lagged, NoReceiver
  <1>2. /\ next' = [d \in Client |-> IF d = c THEN tail - Ring ELSE next[d]]
        /\ tail' = tail /\ sent' = sent /\ from' = from /\ held' = held /\ at' = at
    BY DEF StreamInv, recv_lagged, oldest_cursor
  <1>3. Taken' = Taken /\ receivers' = receivers
    BY <1>2 DEF Taken, receivers
  <1>4. ASSUME NEW d \in Client PROVE ClientInv(d)'
    <2>1. ClientInv(d)
      BY DEF StreamInv
    <2>2. Got(d)' = Got(d)
      BY <1>2, <1>3, GotDepends
    <2>3. CASE d = c
      <3>1. CursorInv(c)' /\ next'[c] \in Nat
        BY <1>1, <1>2, <2>2, <2>3 DEF CursorInv
      <3>2. QED
        BY <1>2, <2>1, <2>3, <3>1 DEF ClientInv
    <2>4. CASE d # c
      <3>1. CursorInv(d)' <=> CursorInv(d)
        BY <1>2, <2>2, <2>4 DEF CursorInv
      <3>2. QED
        BY <1>2, <2>1, <2>4, <3>1 DEF ClientInv
    <2>5. QED
      BY <2>3, <2>4
  <1>5. StreamInv'
    BY <1>2, <1>4 DEF StreamInv
  <1>6. QED
    BY <1>2, <1>3, <1>5 DEF Stream!streamVars

\* A notification that was written out moves from held to sent.
LEMMA SentStep ==
    ASSUME StreamInv, NEW c \in Client, at[c] = "sending", Goto(c, "streaming"),
           sent' = [sent EXCEPT ![c] = @ \o held[c]], held' = [held EXCEPT ![c] = <<>>],
           UNCHANGED <<tail, next, from>>
    PROVE  StreamInv' /\ [Stream!Next]_(Stream!streamVars)
  <1>1. ClientInv(c) /\ sent[c] \in Seq(Nat) /\ held[c] \in Seq(Nat)
    BY DEF StreamInv, ClientInv
  <1>2. /\ at' = [d \in Client |-> IF d = c THEN "streaming" ELSE at[d]]
        /\ sent' = [d \in Client |-> IF d = c THEN sent[c] \o held[c] ELSE sent[d]]
        /\ held' = [d \in Client |-> IF d = c THEN <<>> ELSE held[d]]
    BY DEF StreamInv, Goto
  <1>3. sent[c] \o held[c] \in Seq(Nat) /\ (sent[c] \o held[c]) \o <<>> = sent[c] \o held[c]
    <2>1. sent[c] \o held[c] \in Seq(Nat)
      BY <1>1, ConcatProperties
    <2>2. QED
      BY <2>1, ConcatEmptySeq
  <1>4. Taken' = Taken
    BY <1>2, <1>3 DEF Taken
  <1>5. ASSUME NEW d \in Client PROVE ClientInv(d)'
    <2>1. ClientInv(d)
      BY DEF StreamInv
    <2>2. Got(d)' = Got(d)
      BY <1>4, GotDepends
    <2>3. CursorInv(d)' <=> CursorInv(d)
      BY <2>2 DEF CursorInv
    <2>4. CASE d = c
      BY <1>2, <1>3, <2>1, <2>3, <2>4 DEF ClientInv, NoReceiver, Place
    <2>5. CASE d # c
      BY <1>2, <2>1, <2>3, <2>5 DEF ClientInv
    <2>6. QED
      BY <2>4, <2>5
  <1>6. StreamInv'
    BY <1>2, <1>5 DEF StreamInv
  <1>7. receivers' = receivers
    BY <1>2 DEF receivers
  <1>8. QED
    BY <1>4, <1>6, <1>7 DEF Stream!streamVars

\* The WebSocket server implements the stream specification: every client gets
\* an ordered stream without repetitions that misses only what the ring
\* overwrote (broadcast, accept, recv and the Lagged branch).
THEOREM ServerRefinesStream == Spec => ImplementsStream
  <1>1. Init => StreamInv /\ Stream!Init
    <2> SUFFICES ASSUME Init PROVE StreamInv /\ Stream!Init
      OBVIOUS
    <2>1. <<>> \in Seq(Nat) /\ <<>> \o <<>> = <<>>
      BY ConcatEmptySeq
    <2>2. StreamInv
      BY <2>1 DEF Init, StreamInv, ClientInv, Place, NoReceiver
    <2>3. receivers = {} /\ Taken = [c \in Client |-> <<>>]
      BY <2>1 DEF Init, receivers, Taken
    <2>4. QED
      BY <2>2, <2>3 DEF Init, Stream!Init
  <1>2. StreamInv /\ [Next]_vars => StreamInv' /\ [Stream!Next]_(Stream!streamVars)
    <2> SUFFICES ASSUME StreamInv, [Next]_vars
                 PROVE  StreamInv' /\ [Stream!Next]_(Stream!streamVars)
      OBVIOUS
    <2>1. CASE broadcast
      BY <2>1, BroadcastStep
    <2>2. CASE UNCHANGED <<tail, at, next, held, sent, from>>
      <3>1. Taken' = Taken /\ receivers' = receivers
        BY <2>2 DEF Taken, receivers
      <3>2. ASSUME NEW c \in Client PROVE ClientInv(c)' <=> ClientInv(c)
        <4>1. Got(c)' = Got(c)
          BY <2>2, <3>1, GotDepends
        <4>2. QED
          BY <2>2, <4>1 DEF ClientInv, CursorInv
      <3>3. StreamInv'
        BY <2>2, <3>2 DEF StreamInv
      <3>4. QED
        BY <2>2, <3>1, <3>3 DEF Stream!streamVars
    <2>3. ASSUME NEW c \in Client,
                 \/ Connect(c) \/ handshake(c) \/ subscribe(c) \/ subscribe_default(c)
                 \/ subscribe_closed(c) \/ confirm(c)
          PROVE  StreamInv' /\ [Stream!Next]_(Stream!streamVars)
      <3>1. UNCHANGED <<tail, next, held, sent, from>>
        BY <2>3 DEF Connect, handshake, subscribe, subscribe_default, subscribe_closed, confirm
      <3>2. \E place \in Place :
                /\ Goto(c, place)
                /\ place \in NoReceiver \/ at[c] \notin NoReceiver
                /\ place \in {"sending", "ended"} \/ at[c] \notin {"sending", "ended"}
                /\ place \in {"absent", "backlog"} => at[c] \in {"absent", "backlog"}
        BY <2>3 DEF Connect, handshake, subscribe, subscribe_default, subscribe_closed,
                    confirm, Place, NoReceiver
      <3>3. QED
        BY <3>1, <3>2, MoveStep
    <2>4. ASSUME NEW c \in Client, accept(c)
          PROVE  StreamInv' /\ [Stream!Next]_(Stream!streamVars)
      BY <2>4, AcceptStep
    <2>5. ASSUME NEW c \in Client, recv(c)
          PROVE  StreamInv' /\ [Stream!Next]_(Stream!streamVars)
      BY <2>5, RecvStep
    <2>6. ASSUME NEW c \in Client, recv_lagged(c)
          PROVE  StreamInv' /\ [Stream!Next]_(Stream!streamVars)
      BY <2>6, LaggedStep
    <2>7. ASSUME NEW c \in Client, send(c)
          PROVE  StreamInv' /\ [Stream!Next]_(Stream!streamVars)
      <3>1. CASE Goto(c, "ended") /\ UNCHANGED <<sent, held>>
        <4>1. UNCHANGED <<tail, next, held, sent, from>> /\ at[c] = "sending"
          BY <2>7, <3>1 DEF send
        <4>2. QED
          BY <3>1, <4>1, MoveStep DEF Place, NoReceiver
      <3>2. CASE /\ Goto(c, "streaming")
                 /\ sent' = [sent EXCEPT ![c] = @ \o held[c]]
                 /\ held' = [held EXCEPT ![c] = <<>>]
        <4>1. UNCHANGED <<tail, next, from>> /\ at[c] = "sending"
          BY <2>7 DEF send
        <4>2. QED
          BY <3>2, <4>1, SentStep
      <3>3. QED
        BY <2>7, <3>1, <3>2 DEF send
    <2>8. QED
      <3>1. CASE UNCHANGED vars
        BY <2>2, <3>1 DEF vars, taskVars
      <3>2. CASE Next
        <4>1. CASE Finished
          BY <2>2, <4>1 DEF Finished, vars, taskVars
        <4>2. ASSUME NEW c \in Client, Disconnect(c) \/ \E m \in FirstMessages[c] : Say(c, m)
              PROVE  UNCHANGED <<tail, at, next, held, sent, from>>
          BY <4>2 DEF Disconnect, Say, taskVars
        <4>3. QED
          BY <2>1, <2>2, <2>3, <2>4, <2>5, <2>6, <2>7, <3>2, <4>1, <4>2 DEF Next
      <3>3. QED
        BY <3>1, <3>2
  <1>3. QED
    BY <1>1, <1>2, PTL DEF Spec, ImplementsStream, Stream!Spec

-----------------------------------------------------------------------------
(* Types, and the form a client is served in. *)

HeldBy(n) == {<<>>} \cup {<<k>> : k \in 1 .. n}

ClientTypes(c) ==
    /\ at[c] \in Place /\ next[c] \in 0 .. tail /\ from[c] \in 0 .. tail
    /\ held[c] \in HeldBy(tail)
    /\ at[c] = "sending" => held[c] = <<next[c]>> /\ next[c] > 0
    /\ at[c] \notin {"sending", "ended"} => held[c] = <<>>
    /\ sent[c] \in Seq(1 .. tail)
    /\ mode[c] \in {{}} \cup {{m} : m \in Mode}
    /\ inbox[c] \subseteq said[c] /\ said[c] \subseteq FirstMessages[c]

\* TypeOK with the domains of all functions; the ring holds no more than was
\* broadcast.
TypeInv ==
    /\ tail \in Nat /\ broadcasts \in 0 .. MaxBroadcasts /\ tail <= broadcasts
    /\ at = [c \in Client |-> at[c]] /\ next = [c \in Client |-> next[c]]
    /\ from = [c \in Client |-> from[c]]
    /\ sent = [c \in Client |-> sent[c]] /\ held = [c \in Client |-> held[c]]
    /\ mode = [c \in Client |-> mode[c]]
    /\ inbox = [c \in Client |-> inbox[c]] /\ said = [c \in Client |-> said[c]]
    /\ \A c \in Client : ClientTypes(c)
    /\ gone \subseteq Client

\* What was taken from a shorter ring is in the longer one.
LEMMA LongerRing ==
    ASSUME NEW m \in Nat, NEW n \in Nat, m <= n
    PROVE  /\ HeldBy(m) \subseteq HeldBy(n) /\ Seq(1 .. m) \subseteq Seq(1 .. n)
           /\ 0 .. m \subseteq 0 .. n
  <1>1. 1 .. m \subseteq 1 .. n /\ 0 .. m \subseteq 0 .. n
    OBVIOUS
  <1>2. HeldBy(m) \subseteq HeldBy(n)
    BY <1>1, Zenon DEF HeldBy
  <1>3. Seq(1 .. m) \subseteq Seq(1 .. n)
    BY <1>1
  <1>4. QED
    BY <1>1, <1>2, <1>3

\* The types hold at the start.
LEMMA TypesStart == Init => TypeInv
  <1> SUFFICES ASSUME Init PROVE TypeInv
    OBVIOUS
  <1>1. <<>> \in Seq(1 .. 0) /\ <<>> \in HeldBy(0)
    BY DEF HeldBy
  <1>2. QED
    BY <1>1 DEF Init, TypeInv, ClientTypes, Place

\* Every step keeps them: no cursor gets past the end of the ring, and no task
\* holds a notification it is not sending.
LEMMA TypesKept == TypeInv /\ [Next]_vars => TypeInv'
  <1> SUFFICES ASSUME TypeInv, [Next]_vars PROVE TypeInv'
    OBVIOUS
  <1>1. CASE broadcast
    <2>1. /\ tail' \in Nat /\ tail <= tail' /\ tail' <= broadcasts'
          /\ broadcasts' \in 0 .. MaxBroadcasts
          /\ UNCHANGED <<at, next, held, sent, mode, inbox, gone, said, from>>
      BY <1>1 DEF broadcast, TypeInv, taskVars, clientVars
    <2>2. /\ HeldBy(tail) \subseteq HeldBy(tail') /\ Seq(1 .. tail) \subseteq Seq(1 .. tail')
          /\ 0 .. tail \subseteq 0 .. tail'
      BY <2>1, LongerRing DEF TypeInv
    <2>3. ASSUME NEW c \in Client PROVE ClientTypes(c)'
      <3>1. ClientTypes(c)
        BY DEF TypeInv
      <3>2. held'[c] \in HeldBy(tail)' /\ sent'[c] \in Seq(1 .. tail)'
        BY <2>1, <2>2, <3>1 DEF ClientTypes, HeldBy
      <3>3. QED
        BY <2>1, <2>2, <3>1, <3>2 DEF ClientTypes
    <2>4. QED
      BY <2>1, <2>3 DEF TypeInv
  <1>2. ASSUME NEW c \in Client,
               \/ Connect(c) \/ handshake(c) \/ subscribe(c) \/ subscribe_default(c)
               \/ subscribe_closed(c) \/ confirm(c)
        PROVE  TypeInv'
    <2>1. /\ UNCHANGED <<tail, next, held, sent, from, broadcasts, gone, said>>
          /\ ClientTypes(c)
      BY <1>2 DEF Connect, handshake, subscribe, subscribe_default, subscribe_closed, confirm,
                  clientVars, TypeInv
    <2>2. PICK place \in Place :
              Goto(c, place) /\ place # "sending" /\ (place # "ended" => held[c] = <<>>)
      BY <1>2, <2>1 DEF Connect, handshake, subscribe, subscribe_default, subscribe_closed,
                        confirm, Place, ClientTypes
    <2>3. at' = [d \in Client |-> IF d = c THEN place ELSE at[d]]
      BY <2>2 DEF Goto, TypeInv
    <2>4. PICK form \in {{}} \cup {{m} : m \in Mode}, box \in SUBSET said[c] :
              /\ mode' = [d \in Client |-> IF d = c THEN form ELSE mode[d]]
              /\ inbox' = [d \in Client |-> IF d = c THEN box ELSE inbox[d]]
      <3>1. CASE UNCHANGED <<mode, inbox>>
        BY <2>1, <3>1 DEF TypeInv, ClientTypes
      <3>2. CASE subscribe(c)
        <4>1. PICK m \in inbox[c] : mode' = [mode EXCEPT ![c] = {mode_of(m)}]
          BY <3>2 DEF subscribe
        <4>2. {mode_of(m)} \in {{}} \cup {{n} : n \in Mode} /\ {} \in SUBSET said[c]
          BY DEF mode_of, Mode
        <4>3. /\ mode' = [d \in Client |-> IF d = c THEN {mode_of(m)} ELSE mode[d]]
              /\ inbox' = [d \in Client |-> IF d = c THEN {} ELSE inbox[d]]
          BY <3>2, <4>1 DEF subscribe, TypeInv
        <4>4. QED
          BY <4>2, <4>3
      <3>3. CASE subscribe_default(c)
        <4>1. {"raw"} \in {{}} \cup {{n} : n \in Mode} /\ inbox[c] \in SUBSET said[c]
          BY <2>1 DEF Mode, ClientTypes
        <4>2. /\ mode' = [d \in Client |-> IF d = c THEN {"raw"} ELSE mode[d]]
              /\ inbox' = [d \in Client |-> IF d = c THEN inbox[c] ELSE inbox[d]]
          BY <3>3 DEF subscribe_default, clientVars, TypeInv
        <4>3. QED
          BY <4>1, <4>2
      <3>4. QED
        BY <1>2, <3>1, <3>2, <3>3
           DEF Connect, handshake, subscribe_closed, confirm, clientVars
    <2>5. ASSUME NEW d \in Client PROVE ClientTypes(d)'
      <3>1. ClientTypes(d)
        BY DEF TypeInv
      <3>2. CASE d = c
        BY <2>1, <2>2, <2>3, <2>4, <3>1, <3>2 DEF ClientTypes, HeldBy
      <3>3. CASE d # c
        BY <2>1, <2>3, <2>4, <3>1, <3>3 DEF ClientTypes, HeldBy
      <3>4. QED
        BY <3>2, <3>3
    <2>6. QED
      BY <2>1, <2>3, <2>4, <2>5 DEF TypeInv
  <1>3. ASSUME NEW c \in Client, NEW m \in FirstMessages[c], Say(c, m)
        PROVE  TypeInv'
    <2>1. /\ inbox' = [d \in Client |-> IF d = c THEN {m} ELSE inbox[d]]
          /\ said' = [d \in Client |-> IF d = c THEN {m} ELSE said[d]]
          /\ UNCHANGED <<tail, taskVars, gone, broadcasts, from>>
      BY <1>3 DEF Say, TypeInv
    <2>2. QED
      BY <2>1 DEF TypeInv, ClientTypes, HeldBy, taskVars
  <1>4. ASSUME NEW c \in Client, Disconnect(c) PROVE TypeInv'
    BY <1>4 DEF Disconnect, TypeInv, ClientTypes, HeldBy, taskVars
  <1>5. ASSUME NEW c \in Client, accept(c) PROVE TypeInv'
    <2>1. /\ at' = [d \in Client |-> IF d = c THEN "handshake" ELSE at[d]]
          /\ next' = [d \in Client |-> IF d = c THEN tail ELSE next[d]]
          /\ from' = [d \in Client |-> IF d = c THEN tail ELSE from[d]]
          /\ UNCHANGED <<tail, held, sent, mode, clientVars, broadcasts>> /\ at[c] = "backlog"
      BY <1>5 DEF accept, Goto, subscribe_cursor, TypeInv
    <2>2. ASSUME NEW d \in Client PROVE ClientTypes(d)'
      <3>1. ClientTypes(d) /\ tail \in 0 .. tail
        BY DEF TypeInv
      <3>2. CASE d = c
        BY <2>1, <3>1, <3>2 DEF ClientTypes, Place, clientVars
      <3>3. CASE d # c
        BY <2>1, <3>1, <3>3 DEF ClientTypes, clientVars
      <3>4. QED
        BY <3>2, <3>3
    <2>3. QED
      BY <2>1, <2>2 DEF TypeInv, clientVars
  <1>6. ASSUME NEW c \in Client, recv(c) PROVE TypeInv'
    <2>1. /\ at' = [d \in Client |-> IF d = c THEN "sending" ELSE at[d]]
          /\ next' = [d \in Client |-> IF d = c THEN next[c] + 1 ELSE next[d]]
          /\ held' = [d \in Client |-> IF d = c THEN <<next[c] + 1>> ELSE held[d]]
          /\ UNCHANGED <<tail, sent, mode, clientVars, broadcasts, from>>
          /\ next[c] < tail
      BY <1>6 DEF recv, Goto, TypeInv
    <2>2. next[c] + 1 \in 1 .. tail
      BY <2>1 DEF TypeInv, ClientTypes
    <2>3. <<next[c] + 1>> \in HeldBy(tail)
      BY <2>2 DEF HeldBy
    <2>4. ASSUME NEW d \in Client PROVE ClientTypes(d)'
      <3>1. CASE d = c
        <4>1. /\ at'[d] = "sending" /\ next'[d] = next[c] + 1 /\ held'[d] = <<next[c] + 1>>
              /\ next[c] + 1 \in 0 .. tail /\ next[c] + 1 > 0
          BY <2>1, <2>2, <3>1
        <4>2. ClientTypes(d)
          BY DEF TypeInv
        <4>3. QED
          BY <2>1, <2>3, <4>1, <4>2 DEF ClientTypes, Place, clientVars
      <3>2. CASE d # c
        BY <2>1, <3>2 DEF TypeInv, ClientTypes, HeldBy, clientVars
      <3>3. QED
        BY <3>1, <3>2
    <2>5. QED
      BY <2>1, <2>4 DEF TypeInv, clientVars
  <1>7. ASSUME NEW c \in Client, recv_lagged(c) PROVE TypeInv'
    <2>1. /\ next' = [d \in Client |-> IF d = c THEN tail - Ring ELSE next[d]]
          /\ UNCHANGED <<tail, at, held, sent, mode, clientVars, broadcasts, from>>
          /\ next[c] + Ring < tail /\ at[c] = "streaming"
      BY <1>7 DEF recv_lagged, oldest_cursor, TypeInv
    <2>2. tail - Ring \in 0 .. tail
      <3>1. tail \in Nat /\ next[c] \in 0 .. tail
        BY DEF TypeInv, ClientTypes
      <3>2. Ring \in Nat
        OBVIOUS
      <3>3. QED
        BY <2>1, <3>1, <3>2
    <2>3. ASSUME NEW d \in Client PROVE ClientTypes(d)'
      BY <2>1, <2>2 DEF TypeInv, ClientTypes, HeldBy, clientVars
    <2>4. QED
      BY <2>1, <2>3 DEF TypeInv, clientVars
  <1>8. ASSUME NEW c \in Client, send(c) PROVE TypeInv'
    <2>1. at[c] = "sending" /\ UNCHANGED <<tail, next, mode, clientVars, broadcasts, from>>
      BY <1>8 DEF send
    <2>2. CASE /\ Goto(c, "streaming")
               /\ sent' = [sent EXCEPT ![c] = @ \o held[c]]
               /\ held' = [held EXCEPT ![c] = <<>>]
      <3>1. /\ at' = [d \in Client |-> IF d = c THEN "streaming" ELSE at[d]]
            /\ sent' = [d \in Client |-> IF d = c THEN sent[c] \o held[c] ELSE sent[d]]
            /\ held' = [d \in Client |-> IF d = c THEN <<>> ELSE held[d]]
        BY <2>2 DEF Goto, TypeInv
      <3>2. sent[c] \o held[c] \in Seq(1 .. tail)
        <4>1. held[c] = <<next[c]>> /\ next[c] \in 1 .. tail /\ sent[c] \in Seq(1 .. tail)
          BY <2>1 DEF TypeInv, ClientTypes
        <4>2. QED
          BY <4>1
      <3>3. ASSUME NEW d \in Client PROVE ClientTypes(d)'
        <4>1. ClientTypes(d)
          BY DEF TypeInv
        <4>2. CASE d = c
          BY <2>1, <3>1, <3>2, <4>1, <4>2 DEF ClientTypes, HeldBy, Place, clientVars
        <4>3. CASE d # c
          BY <2>1, <3>1, <4>1, <4>3 DEF ClientTypes, HeldBy, clientVars
        <4>4. QED
          BY <4>2, <4>3
      <3>4. QED
        BY <2>1, <3>1, <3>3 DEF TypeInv, clientVars
    <2>3. CASE Goto(c, "ended") /\ UNCHANGED <<sent, held>>
      <3>1. at' = [d \in Client |-> IF d = c THEN "ended" ELSE at[d]]
        BY <2>3 DEF Goto, TypeInv
      <3>2. ASSUME NEW d \in Client PROVE ClientTypes(d)'
        BY <2>1, <2>3, <3>1 DEF TypeInv, ClientTypes, HeldBy, Place, clientVars
      <3>3. QED
        BY <2>1, <2>3, <3>1, <3>2 DEF TypeInv, clientVars
    <2>4. QED
      BY <1>8, <2>2, <2>3 DEF send
  <1>9. CASE UNCHANGED vars
    BY <1>9 DEF TypeInv, ClientTypes, HeldBy, vars, taskVars, clientVars
  <1>10. QED
    BY <1>1, <1>2, <1>3, <1>4, <1>5, <1>6, <1>7, <1>8, <1>9 DEF Next, Finished

\* The server's tasks are where the code can be, none holds a notification it
\* does not send, and no cursor is past what was broadcast (recv and send of
\* handle_ws_connection), for any number of clients and any ring.
THEOREM WsServerTypeCorrect == Spec => []TypeOK
  <1>1. TypeInv => TypeOK
    <2> SUFFICES ASSUME TypeInv PROVE TypeOK
      OBVIOUS
    <2>1. \A c \in Client : ClientTypes(c)
      BY DEF TypeInv
    <2>2. at \in [Client -> Place] /\ next \in [Client -> 0 .. tail] /\ from \in [Client -> 0 .. tail]
      BY <2>1 DEF TypeInv, ClientTypes
    <2>3. tail \in 0 .. MaxBroadcasts
      BY DEF TypeInv
    <2>4. QED
      BY <2>1, <2>2, <2>3 DEF TypeInv, TypeOK, ClientTypes, HeldBy, Place
  <1>2. QED
    BY <1>1, TypesStart, TypesKept, PTL DEF Spec

\* Up to its subscription a client has no mode and its frame is unread; it has
\* said one thing at most; who has not said anything yet is served raw.
FormInv(c) ==
    /\ at[c] \in {"absent", "backlog", "handshake", "subscribing"}
           => mode[c] = {} /\ inbox[c] = said[c]
    /\ \A a, b \in said[c] : a = b
    /\ \A m \in mode[c] :
         /\ said[c] = {} \/ inbox[c] # {} => use_raw(m)
         /\ inbox[c] = {} => \A asked \in said[c] \ {"other"} : use_raw(m) <=> asked # "hash"

\* The mode of a frame has the form the frame asked for, if it named one.
LEMMA ModeAsAsked ==
    ASSUME NEW c \in Client, NEW m \in FirstMessages[c] \ {"other"}
    PROVE  use_raw(mode_of(m)) <=> m # "hash"
  <1>1. m \in Mode \cup {"malformed", "nontext"}
    BY ClientsAssumption
  <1>2. QED
    BY <1>1 DEF use_raw, mode_of, Mode

\* A client is served in the form its first frame asked for, raw without one in
\* time, however that frame races with the timeout of wait_for_subscription; of
\* a mode the server has no name for nothing is claimed.
THEOREM FormCorrect == Spec => []FormAsAsked
  <1> DEFINE Inv == \A c \in Client : FormInv(c)
  <1>1. Init => Inv
    BY DEF Init, FormInv
  <1>2. TypeInv /\ Inv /\ [Next]_vars => Inv'
    <2> SUFFICES ASSUME TypeInv, Inv, [Next]_vars, NEW d \in Client PROVE FormInv(d)'
      OBVIOUS
    <2>1. FormInv(d) /\ inbox[d] \subseteq said[d] /\ said[d] \subseteq FirstMessages[d]
      BY DEF TypeInv, ClientTypes
    <2>2. CASE at'[d] = at[d] /\ UNCHANGED <<mode, inbox, said>>
      BY <2>1, <2>2 DEF FormInv
    <2>3. ASSUME NEW c \in Client, subscribe(c) PROVE FormInv(d)'
      <3>1. PICK m \in inbox[c] : mode' = [mode EXCEPT ![c] = {mode_of(m)}]
        BY <2>3 DEF subscribe
      <3>2. /\ mode' = [e \in Client |-> IF e = c THEN {mode_of(m)} ELSE mode[e]]
            /\ inbox' = [e \in Client |-> IF e = c THEN {} ELSE inbox[e]]
            /\ at' = [e \in Client |-> IF e = c THEN "confirming" ELSE at[e]]
            /\ said' = said
        BY <2>3, <3>1 DEF subscribe, Goto, TypeInv
      <3>3. CASE d = c
        <4>1. m \in FirstMessages[c] /\ \A a \in said[c] : a = m
          BY <2>1, <3>3 DEF FormInv
        <4>2. m # "other" => (use_raw(mode_of(m)) <=> m # "hash")
          BY <4>1, ModeAsAsked
        <4>3. m \in said[c]
          BY <2>1, <3>3
        <4>4. /\ mode'[d] = {mode_of(m)} /\ inbox'[d] = {} /\ said'[d] = said[c]
              /\ at'[d] = "confirming"
          BY <3>2, <3>3
        <4>5. QED
          BY <4>1, <4>2, <4>3, <4>4 DEF FormInv
      <3>4. CASE d # c
        BY <2>1, <3>2, <3>4 DEF FormInv
      <3>5. QED
        BY <3>3, <3>4
    <2>4. ASSUME NEW c \in Client, subscribe_default(c) PROVE FormInv(d)'
      <3>1. /\ mode' = [e \in Client |-> IF e = c THEN {"raw"} ELSE mode[e]]
            /\ at' = [e \in Client |-> IF e = c THEN "confirming" ELSE at[e]]
            /\ inbox' = inbox /\ said' = said /\ at[c] = "subscribing" /\ inbox[c] = {}
        BY <2>4 DEF subscribe_default, Goto, TypeInv, clientVars
      <3>2. use_raw("raw")
        BY DEF use_raw
      <3>3. CASE d = c
        BY <2>1, <3>1, <3>2, <3>3 DEF FormInv
      <3>4. CASE d # c
        BY <2>1, <3>1, <3>4 DEF FormInv
      <3>5. QED
        BY <3>3, <3>4
    <2>5. ASSUME NEW c \in Client, NEW m \in FirstMessages[c], Say(c, m) PROVE FormInv(d)'
      <3>1. /\ inbox' = [e \in Client |-> IF e = c THEN {m} ELSE inbox[e]]
            /\ said' = [e \in Client |-> IF e = c THEN {m} ELSE said[e]]
            /\ mode' = mode /\ at' = at /\ said[c] = {}
        BY <2>5 DEF Say, taskVars, TypeInv
      <3>2. CASE d = c
        BY <2>1, <3>1, <3>2 DEF FormInv
      <3>3. CASE d # c
        BY <2>1, <3>1, <3>3 DEF FormInv
      <3>4. QED
        BY <3>2, <3>3
    <2>6. ASSUME NEW c \in Client,
                 \/ Connect(c) \/ accept(c) \/ handshake(c) \/ subscribe_closed(c)
                 \/ confirm(c) \/ recv(c) \/ recv_lagged(c) \/ send(c)
          PROVE  FormInv(d)'
      <3>1. /\ UNCHANGED <<mode, inbox, said>>
            /\ \/ at' = at
               \/ \E place : /\ at' = [e \in Client |-> IF e = c THEN place ELSE at[e]]
                             /\ place \in {"absent", "backlog", "handshake", "subscribing"}
                                => at[c] \in {"absent", "backlog", "handshake", "subscribing"}
        <4>1. UNCHANGED <<mode, inbox, said>>
          BY <2>6 DEF Connect, accept, handshake, subscribe_closed, confirm, recv,
                      recv_lagged, send, clientVars
        <4>2. ASSUME NEW place, Goto(c, place)
              PROVE  at' = [e \in Client |-> IF e = c THEN place ELSE at[e]]
          BY <4>2 DEF Goto, TypeInv
        <4>3. CASE Connect(c) \/ accept(c) \/ handshake(c) \/ subscribe_closed(c)
          <5>1. at[c] \in {"absent", "backlog", "handshake", "subscribing"}
            BY <4>3 DEF Connect, accept, handshake, subscribe_closed
          <5>2. \/ Goto(c, "backlog") \/ Goto(c, "handshake") \/ Goto(c, "subscribing")
                \/ Goto(c, "ended")
            BY <4>3 DEF Connect, accept, handshake, subscribe_closed
          <5>3. QED
            BY <4>1, <4>2, <5>1, <5>2
        <4>4. CASE confirm(c) \/ recv(c) \/ recv_lagged(c) \/ send(c)
          <5>1. at' = at \/ Goto(c, "streaming") \/ Goto(c, "ended") \/ Goto(c, "sending")
            BY <4>4 DEF confirm, recv, recv_lagged, send
          <5>2. QED
            BY <4>1, <4>2, <5>1
        <4>5. QED
          BY <2>6, <4>3, <4>4
      <3>2. QED
        BY <2>1, <3>1 DEF FormInv
    <2>7. CASE broadcast \/ (\E c \in Client : Disconnect(c)) \/ UNCHANGED vars
      BY <2>2, <2>7 DEF broadcast, Disconnect, taskVars, clientVars, vars
    <2>8. QED
      BY <2>3, <2>4, <2>5, <2>6, <2>7 DEF Next, Finished
  <1>3. Inv => FormAsAsked
    BY DEF FormInv, FormAsAsked
  <1>4. QED
    BY <1>1, <1>2, <1>3, TypesStart, TypesKept, PTL DEF Spec
=============================================================================
