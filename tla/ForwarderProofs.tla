-------------------------- MODULE ForwarderProofs --------------------------
(***************************************************************************)
(* Proofs about Forwarder, for any numbers of endpoints, permits and       *)
(* channel slots: the permits of the semaphore are conserved, nothing is   *)
(* lost or reordered between the pool listener and the loop, exactly the   *)
(* transactions new in the window are announced, and each of them is posted *)
(* to the endpoints one after the other; then the types.                   *)
(***************************************************************************)
EXTENDS Forwarder, FiniteSetTheorems, SequenceTheorems, TLAPS

USE SizesAssumption, HashAssumption

(***************************************************************************)
(* Permits. Each HTTP task has an id of its own, not above the counter, so *)
(* a spawned task is never one that is still running.                      *)
(***************************************************************************)
PermitInv ==
    /\ permits \in Nat
    /\ id_counter \in Nat
    /\ DOMAIN http \subseteq 1 .. id_counter
    /\ PermitsAccounted

\* The tasks are finitely many.
LEMMA HttpFinite == PermitInv => IsFiniteSet(DOMAIN http)
  <1> SUFFICES ASSUME PermitInv PROVE IsFiniteSet(DOMAIN http)
    OBVIOUS
  <1>1. id_counter \in Int /\ DOMAIN http \subseteq 1 .. id_counter
    BY DEF PermitInv
  <1>2. IsFiniteSet(1 .. id_counter)
    BY <1>1, FS_Interval
  <1>3. QED
    BY <1>1, <1>2, FS_Subset

\* spawn_http turns a permit into a task.
LEMMA SpawnKeepsPermits == PermitInv /\ spawn_http => PermitInv'
  <1> SUFFICES ASSUME PermitInv, spawn_http PROVE PermitInv'
    OBVIOUS
  <1>1. DOMAIN http' = DOMAIN http \cup {id_counter + 1}
    BY DEF spawn_http
  <1>2. id_counter + 1 \notin DOMAIN http
    BY DEF PermitInv
  <1>3. Cardinality(DOMAIN http') = Cardinality(DOMAIN http) + 1
    BY <1>1, <1>2, HttpFinite, FS_AddElement
  <1>4. Cardinality(DOMAIN http) \in Nat
    BY HttpFinite, FS_CardinalityType
  <1>5. permits' = permits - 1 /\ permits > 0 /\ id_counter' = id_counter + 1
    BY DEF spawn_http
  <1>6. DOMAIN http' \subseteq 1 .. id_counter'
    BY <1>1, <1>5 DEF PermitInv
  <1>7. permits' + Cardinality(DOMAIN http') = MaxConcurrent
    BY <1>3, <1>4, <1>5 DEF PermitInv, PermitsAccounted
  <1>8. QED
    BY <1>5, <1>6, <1>7 DEF PermitInv, PermitsAccounted

\* A task that finishes gives its permit back; one that goes on keeps it.
LEMMA AnswerKeepsPermits ==
    ASSUME PermitInv, NEW id \in DOMAIN http, NEW outcome, answered(id, outcome)
    PROVE  PermitInv'
  <1>1. id_counter' = id_counter
    BY DEF answered
  <1>2. CASE FinishTask(id)
    <2>1. DOMAIN http' = DOMAIN http \ {id} /\ permits' = permits + 1
      BY <1>2 DEF FinishTask
    <2>2. Cardinality(DOMAIN http') = Cardinality(DOMAIN http) - 1
      BY <2>1, HttpFinite, FS_RemoveElement
    <2>3. Cardinality(DOMAIN http) \in Nat
      BY HttpFinite, FS_CardinalityType
    <2>4. permits' + Cardinality(DOMAIN http') = MaxConcurrent
      BY <2>1, <2>2, <2>3 DEF PermitInv, PermitsAccounted
    <2>5. QED
      BY <1>1, <2>1, <2>4 DEF PermitInv, PermitsAccounted
  <1>3. CASE NextEndpoint(id)
    <2>1. DOMAIN http' = DOMAIN http /\ permits' = permits
      BY <1>3 DEF NextEndpoint
    <2>2. QED
      BY <1>1, <2>1 DEF PermitInv, PermitsAccounted
  <1>4. QED
    BY <1>2, <1>3 DEF answered

\* Every step of the transaction path keeps PermitInv.
LEMMA PermitInvHolds == Spec => []PermitInv
  <1>1. Init => PermitInv
    <2> SUFFICES ASSUME Init PROVE PermitInv
      OBVIOUS
    <2>1. DOMAIN http = {} /\ permits = MaxConcurrent /\ id_counter = 0
      BY DEF Init
    <2>2. Cardinality(DOMAIN http) = 0
      BY <2>1, FS_EmptySet
    <2>3. QED
      BY <2>1, <2>2 DEF PermitInv, PermitsAccounted
  <1>2. PermitInv /\ [Next]_vars => PermitInv'
    <2> SUFFICES ASSUME PermitInv, [Next]_vars PROVE PermitInv'
      OBVIOUS
    <2>1. CASE spawn_http
      BY <2>1, SpawnKeepsPermits
    <2>2. CASE \E id \in DOMAIN http, outcome \in Outcome : answered(id, outcome)
      BY <2>2, AnswerKeepsPermits
    <2>3. CASE \E id \in DOMAIN http : post(id)
      <3>1. DOMAIN http' = DOMAIN http /\ permits' = permits /\ id_counter' = id_counter
        BY <2>3 DEF post
      <3>2. QED
        BY <3>1 DEF PermitInv, PermitsAccounted
    <2>4. CASE UNCHANGED httpVars
      BY <2>4 DEF httpVars, PermitInv, PermitsAccounted
    <2>5. QED
      BY <2>1, <2>2, <2>3, <2>4
         DEF Next, PoolEvent, listen, forward, listener_stops, receive, loop_stops, ctrl_c,
             stop_network, main_returns, Finished, vars
  <1>3. QED
    BY <1>1, <1>2, PTL DEF Spec

\* The HTTP tasks and the free permits always add up to max_concurrent: no
\* answer, failure or shutdown of the forwarder loses or invents a permit.
THEOREM PermitsCorrect == Spec => []PermitsAccounted
  BY PermitInvHolds, PTL DEF PermitInv
-----------------------------------------------------------------------------
(***************************************************************************)
(* The queue. The types say that an idle listener holds nothing and that   *)
(* the sequences are sequences; the rest is associativity.                 *)
(***************************************************************************)
QueueInv ==
    /\ pending_txs \in Seq(Hash) /\ queue \in Seq(Hash) /\ taken \in Seq(Hash)
    /\ handled \in Seq([tx : Hash, is_new : BOOLEAN])
    /\ listener \in {NoTx, Stopped} \cup [at : {"forward"}, tx : Hash]
    /\ NothingLostInQueue

\* A sequence grows at its end, and its end can be split off.
LEMMA AppendToConcat ==
    ASSUME NEW a \in Seq(Hash), NEW b \in Seq(Hash), NEW t \in Hash
    PROVE  Append(a \o b, t) = a \o b \o <<t>>
  BY ConcatProperties, AppendIsConcat

\* Appending to the second of two sequences is appending to both.
LEMMA ConcatAppend ==
    ASSUME NEW a \in Seq(Hash), NEW b \in Seq(Hash), NEW t \in Hash
    PROVE  a \o Append(b, t) \o <<>> = a \o b \o <<t>>
  <1>1. <<t>> \in Seq(Hash) /\ Append(b, t) \in Seq(Hash)
    BY AppendProperties
  <1>2. a \o Append(b, t) = a \o b \o <<t>>
    BY <1>1, AppendIsConcat, ConcatAssociative
  <1>3. a \o Append(b, t) \in Seq(Hash)
    BY <1>1, ConcatProperties
  <1>4. a \o Append(b, t) \o <<>> = a \o Append(b, t)
    BY <1>3, ConcatEmptySeq
  <1>5. QED
    BY <1>2, <1>4

\* The first of a sequence can be moved to the end of the one before it.
LEMMA ConcatHead ==
    ASSUME NEW a \in Seq(Hash), NEW b \in Seq(Hash), NEW t \in Hash
    PROVE  Append(a, t) \o b = a \o (<<t>> \o b)
  <1>1. <<t>> \in Seq(Hash)
    OBVIOUS
  <1>2. QED
    BY <1>1, AppendIsConcat, ConcatAssociative

\* The transactions handled are a sequence of transactions.
LEMMA HandledIsSeq ==
    ASSUME QueueInv PROVE HandledTxs \in Seq(Hash) /\ Len(HandledTxs) = Len(handled)
  <1>1. DOMAIN handled = 1 .. Len(handled) /\ Len(handled) \in Nat
    BY DEF QueueInv
  <1>2. \A k \in 1 .. Len(handled) : handled[k] \in [tx : Hash, is_new : BOOLEAN]
    BY ElementOfSeq DEF QueueInv
  <1>3. HandledTxs \in [1 .. Len(handled) -> Hash]
    BY <1>1, <1>2 DEF HandledTxs
  <1>4. QED
    BY <1>1, <1>3

\* listen takes an event: it is the last of those taken and the one held.
LEMMA ListenKeepsQueue == QueueInv /\ listen => QueueInv'
  <1> SUFFICES ASSUME QueueInv, listen PROVE QueueInv'
    OBVIOUS
  <1> DEFINE tx == Head(pending_txs)
  <1>1. tx \in Hash /\ pending_txs' \in Seq(Hash)
    BY DEF QueueInv, listen
  <1>2. queue' = queue /\ handled' = handled /\ listener = NoTx
    BY DEF listen, loopVars
  <1>3. HandledTxs' = HandledTxs /\ HandledTxs \in Seq(Hash) /\ queue \in Seq(Hash)
    <2>1. HandledTxs' = HandledTxs
      BY <1>2 DEF HandledTxs
    <2>2. QED
      BY <2>1, HandledIsSeq DEF QueueInv
  <1>4. taken = HandledTxs \o queue
    <2>1. Held(listener) = <<>>
      BY <1>2 DEF Held, NoTx
    <2>2. HandledTxs \o queue \in Seq(Hash)
      BY <1>3, ConcatProperties
    <2>3. HandledTxs \o queue \o <<>> = HandledTxs \o queue
      BY <2>2, ConcatEmptySeq
    <2>4. QED
      BY <2>1, <2>3 DEF QueueInv, NothingLostInQueue
  <1>5. CASE listener' = [at |-> "forward", tx |-> tx] /\ taken' = Append(taken, tx)
    <2>1. Held(listener') = <<tx>>
      BY <1>1, <1>5 DEF Held
    <2>2. taken' = HandledTxs' \o queue' \o Held(listener')
      <3>1. Append(HandledTxs \o queue, tx) = HandledTxs \o queue \o <<tx>>
        BY <1>1, <1>3, AppendToConcat, Zenon
      <3>2. QED
        BY <1>2, <1>3, <1>4, <1>5, <2>1, <3>1
    <2>3. taken' \in Seq(Hash)
      BY <1>1, <1>5, AppendProperties DEF QueueInv
    <2>4. listener' \in [at : {"forward"}, tx : Hash]
      BY <1>1, <1>5
    <2>5. NothingLostInQueue'
      BY <2>2 DEF NothingLostInQueue
    <2>6. QED
      BY <1>1, <1>2, <2>3, <2>4, <2>5 DEF QueueInv
  <1>6. CASE UNCHANGED <<listener, taken>>
    BY <1>1, <1>2, <1>3, <1>6 DEF QueueInv, NothingLostInQueue
  <1>7. QED
    BY <1>5, <1>6 DEF listen

\* forward moves the transaction from the listener to the end of the channel.
LEMMA ForwardKeepsQueue == QueueInv /\ forward => QueueInv'
  <1> SUFFICES ASSUME QueueInv, forward PROVE QueueInv'
    OBVIOUS
  <1>1. /\ listener.tx \in Hash /\ queue' = Append(queue, listener.tx)
        /\ listener' = NoTx /\ taken' = taken /\ handled' = handled
        /\ pending_txs' = pending_txs
    BY DEF forward, QueueInv, NoTx, Stopped, loopVars, poolVars
  <1>2. Held(listener) = <<listener.tx>> /\ Held(listener') = <<>>
    BY <1>1 DEF Held, NoTx
  <1>3. HandledTxs' = HandledTxs /\ HandledTxs \in Seq(Hash) /\ queue \in Seq(Hash)
    <2>1. HandledTxs' = HandledTxs
      BY <1>1 DEF HandledTxs
    <2>2. QED
      BY <2>1, HandledIsSeq DEF QueueInv
  <1>4. HandledTxs \o queue' \o Held(listener') = HandledTxs \o queue \o Held(listener)
    <2>1. HandledTxs \o Append(queue, listener.tx) \o <<>> = HandledTxs \o queue \o <<listener.tx>>
      BY <1>1, <1>3, ConcatAppend, Zenon
    <2>2. QED
      BY <1>1, <1>2, <2>1, Zenon
  <1>5. taken' = HandledTxs' \o queue' \o Held(listener')
    BY <1>1, <1>3, <1>4 DEF QueueInv, NothingLostInQueue
  <1>6. QED
    BY <1>1, <1>5 DEF QueueInv, NothingLostInQueue

\* receive moves the first of the channel to the end of those handled.
LEMMA ReceiveKeepsQueue == QueueInv /\ receive => QueueInv'
  <1> SUFFICES ASSUME QueueInv, receive PROVE QueueInv'
    OBVIOUS
  <1> DEFINE tx == Head(queue)
  <1>1. PICK b \in BOOLEAN : handled' = Append(handled, [tx |-> tx, is_new |-> b])
    BY DEF receive, Dedup!check_and_insert, Dedup!contains
  <1>2. /\ tx \in Hash /\ queue' = Tail(queue) /\ queue' \in Seq(Hash)
        /\ listener' = listener /\ taken' = taken /\ pending_txs' = pending_txs
    BY DEF receive, QueueInv, poolVars
  <1>3. handled' \in Seq([tx : Hash, is_new : BOOLEAN])
    BY <1>1, <1>2 DEF QueueInv
  <1>4. HandledTxs \in Seq(Hash) /\ HandledTxs' = Append(HandledTxs, tx)
    <2>1. HandledTxs \in Seq(Hash) /\ Len(HandledTxs) = Len(handled)
      BY HandledIsSeq
    <2>2. /\ DOMAIN handled' = 1 .. (Len(handled) + 1)
          /\ \A k \in 1 .. Len(handled) : handled'[k] = handled[k]
          /\ handled'[Len(handled) + 1].tx = tx
      BY <1>1, <1>2 DEF QueueInv
    <2>3. /\ HandledTxs' \in Seq(Hash)
          /\ Len(HandledTxs') = Len(handled) + 1
          /\ \A k \in 1 .. (Len(handled) + 1) : HandledTxs'[k] = handled'[k].tx
      <3>1. HandledTxs' = [k \in 1 .. (Len(handled) + 1) |-> handled'[k].tx]
        BY <2>2 DEF HandledTxs
      <3>2. \A k \in 1 .. (Len(handled) + 1) : handled'[k] \in [tx : Hash, is_new : BOOLEAN]
        BY <1>3, <2>2, LenProperties
      <3>3. Len(handled) + 1 \in Nat
        BY DEF QueueInv
      <3>4. QED
        BY <3>1, <3>2, <3>3
    <2>4. \A k \in 1 .. Len(handled) : HandledTxs[k] = handled[k].tx
      BY DEF HandledTxs, QueueInv
    <2>5. /\ Append(HandledTxs, tx) \in Seq(Hash)
          /\ Len(Append(HandledTxs, tx)) = Len(handled) + 1
          /\ \A k \in 1 .. Len(handled) : Append(HandledTxs, tx)[k] = HandledTxs[k]
          /\ Append(HandledTxs, tx)[Len(handled) + 1] = tx
      BY <1>2, <2>1, AppendProperties
    <2>6. \A k \in 1 .. (Len(handled) + 1) : HandledTxs'[k] = Append(HandledTxs, tx)[k]
      <3> SUFFICES ASSUME NEW k \in 1 .. (Len(handled) + 1)
                   PROVE  HandledTxs'[k] = Append(HandledTxs, tx)[k]
        OBVIOUS
      <3>1. k \in 1 .. Len(handled) \/ k = Len(handled) + 1
        BY DEF QueueInv
      <3>2. QED
        BY <2>2, <2>3, <2>4, <2>5, <3>1, Zenon
    <2>7. HandledTxs' = Append(HandledTxs, tx)
      BY <2>3, <2>5, <2>6, SeqEqual, Zenon
    <2>8. QED
      BY <2>1, <2>7
  <1>5. queue = <<tx>> \o queue'
    BY <1>2 DEF receive, QueueInv
  <1>6. HandledTxs' \o queue' = HandledTxs \o queue
    <2>1. Append(HandledTxs, tx) \o queue' = HandledTxs \o (<<tx>> \o queue')
      BY <1>2, <1>4, ConcatHead, Zenon
    <2>2. QED
      BY <1>4, <1>5, <2>1, Zenon
  <1>7. QED
    BY <1>2, <1>3, <1>6 DEF QueueInv, NothingLostInQueue, Held

\* Every step of the transaction path keeps QueueInv.
LEMMA QueueInvHolds == Spec => []QueueInv
  <1>1. Init => QueueInv
    BY DEF Init, QueueInv, NothingLostInQueue, HandledTxs, Held, NoTx
  <1>2. QueueInv /\ [Next]_vars => QueueInv'
    <2> SUFFICES ASSUME QueueInv, [Next]_vars PROVE QueueInv'
      OBVIOUS
    <2>1. CASE listen
      BY <2>1, ListenKeepsQueue
    <2>2. CASE forward
      BY <2>2, ForwardKeepsQueue
    <2>3. CASE receive
      BY <2>3, ReceiveKeepsQueue
    <2>4. CASE \E tx \in Hash : PoolEvent(tx)
      <3> PICK tx \in Hash : PoolEvent(tx)
        BY <2>4
      <3>1. /\ pending_txs' = Append(pending_txs, tx)
            /\ UNCHANGED <<queue, taken, handled, listener>>
        BY DEF PoolEvent, loopVars
      <3>2. pending_txs' \in Seq(Hash)
        BY <3>1, AppendProperties DEF QueueInv
      <3>3. NothingLostInQueue'
        BY <3>1 DEF QueueInv, NothingLostInQueue, HandledTxs, Held
      <3>4. QED
        BY <3>1, <3>2, <3>3 DEF QueueInv
    <2>5. CASE listener_stops
      BY <2>5 DEF listener_stops, AtSelect, QueueInv, NothingLostInQueue, HandledTxs, Held, loopVars,
                  poolVars, NoTx, Stopped
    <2>6. CASE UNCHANGED <<pending_txs, queue, taken, handled, listener>>
      BY <2>6 DEF QueueInv, NothingLostInQueue, HandledTxs, Held
    <2>7. QED
      BY <2>1, <2>2, <2>3, <2>4, <2>5, <2>6
         DEF Next, spawn_http, loop_stops, post, answered, ctrl_c, stop_network,
             main_returns, Finished, vars, poolVars, loopVars
  <1>3. QED
    BY <1>1, <1>2, PTL DEF Spec

\* Nothing is lost, duplicated or reordered between the pool listener and the
\* forwarding loop, however long forward() has to wait.
THEOREM QueueCorrect == Spec => []NothingLostInQueue
  BY QueueInvHolds, PTL DEF QueueInv
-----------------------------------------------------------------------------
(***************************************************************************)
(* The deduplicator. The loop calls check_and_insert once for each         *)
(* transaction it receives and nothing else touches the deduplicator, so   *)
(* what TxDedupProofs proves of it holds here. Its lemmas on caches are    *)
(* stated next to those on the block cache, which is taken as empty: the   *)
(* deduplicator has none.                                                  *)
(***************************************************************************)
DP == INSTANCE TxDedupProofs
          WITH Block <- {}, NumberOf <- [b \in {} |-> 0], DEFAULT_CACHE_SIZE <- 1

USE DedupAssumption

\* The steps of the transaction path are, seen from the deduplicator, calls of
\* check_and_insert or nothing.
LEMMA DedupStep == QueueInv /\ [Next]_vars => [DP!Next]_(DP!vars)
  <1> SUFFICES ASSUME QueueInv, [Next]_vars PROVE [DP!Next]_(DP!vars)
    OBVIOUS
  <1>1. CASE receive
    <2>1. Head(queue) \in Hash /\ Dedup!check_and_insert(Head(queue))
      BY <1>1 DEF receive, QueueInv
    <2>2. DP!check_and_insert(Head(queue))
      BY <2>1, Zenon
         DEF Dedup!check_and_insert, DP!check_and_insert, Dedup!Incremented, DP!Incremented,
             Dedup!contains, DP!contains, Dedup!CacheAfter, DP!CacheAfter, Dedup!promote,
             DP!promote, Dedup!push, DP!push, Dedup!AgeBehind, DP!AgeBehind,
             Dedup!RecordHistory, DP!RecordHistory
    <2>3. QED
      BY <2>1, <2>2 DEF DP!Next
  <1>2. CASE UNCHANGED dedupVars
    BY <1>2 DEF dedupVars, DP!vars
  <1>3. QED
    BY <1>1, <1>2
       DEF Next, PoolEvent, listen, forward, listener_stops, spawn_http, loop_stops, post,
           answered, ctrl_c, stop_network, main_returns, Finished, vars

\* The transaction path drives the deduplicator as its specification says.
LEMMA DrivesDedup == Spec => DP!Spec
  <1>1. Init => DP!Init
    BY DEF Init, Dedup!Init, DP!Init, Dedup!LruEmpty, DP!LruEmpty
  <1>2. QED
    BY <1>1, DedupStep, QueueInvHolds, PTL DEF Spec, DP!Spec

\* What the deduplicator guarantees to the loop.
LEMMA DedupGuarantees == Spec => [](DP!TypeOK /\ DP!RecencyInv /\ DP!WindowExact)
  <1>1. [b \in {} |-> 0] \in [{} -> Nat]
    OBVIOUS
  <1>2. 1 \in Nat \ {0}
    OBVIOUS
  <1>3. QED
    BY <1>1, <1>2, DrivesDedup, DP!TypeCorrect, DP!RecencyCorrect, DP!WindowCorrect, PTL
-----------------------------------------------------------------------------
(***************************************************************************)
(* Announcements. The deduplicator's history is the history of the loop:   *)
(* since[h] is what the loop received after it last received h.            *)
(***************************************************************************)

\* j is the last position of h in what the loop received.
LastAt(h, j) ==
    /\ j \in 1 .. Len(handled) /\ handled[j].tx = h
    /\ \A m \in j + 1 .. Len(handled) : handled[m].tx # h

HistoryInv ==
    \A h \in Hash :
        /\ h \in seen => \E j \in 1 .. Len(handled) :
              LastAt(h, j) /\ since[h] = {handled[m].tx : m \in j + 1 .. Len(handled)}
        /\ h \notin seen => \A j \in 1 .. Len(handled) : handled[j].tx # h

Announced ==
    /\ ws_sent \in Seq(Hash)
    /\ Len(ws_sent) = Cardinality(NewAt)
    /\ \A k \in NewAt : ws_sent[Rank(k)] = handled[k].tx

\* The verdict the window definition gives for position k.
FreshAt(k) ==
    \A j \in 1 .. k - 1 : handled[j].tx = handled[k].tx =>
        Cardinality({handled[m].tx : m \in j + 1 .. k - 1} \ {handled[k].tx}) >= CacheSize

VerdictsExact == \A k \in DOMAIN handled : handled[k].is_new <=> FreshAt(k)

AnnounceInv == HistoryInv /\ Announced /\ VerdictsExact

\* One receive: the transaction, the verdict, and what they are appended to.
LEMMA ReceiveEffect ==
    ASSUME QueueInv, receive
    PROVE  LET x == Head(queue)
               new == x \notin DOMAIN cache
           IN /\ x \in Hash /\ new \in BOOLEAN
              /\ handled' = Append(handled, [tx |-> x, is_new |-> new])
              /\ handled' \in Seq([tx : Hash, is_new : BOOLEAN])
              /\ Len(handled) \in Nat /\ Len(handled') = Len(handled) + 1
              /\ DOMAIN handled = 1 .. Len(handled)
              /\ DOMAIN handled' = 1 .. (Len(handled) + 1)
              /\ \A k \in 1 .. Len(handled) : handled'[k] = handled[k]
              /\ handled'[Len(handled) + 1] = [tx |-> x, is_new |-> new]
              /\ ws_sent' = IF new THEN Append(ws_sent, x) ELSE ws_sent
              /\ seen' = seen \cup {x}
              /\ since' = [g \in Hash |-> IF g = x THEN {} ELSE since[g] \cup {x}]
  <1> DEFINE x == Head(queue)
             new == x \notin DOMAIN cache
             r == [tx |-> x, is_new |-> new]
  <1>1. x \in Hash /\ new \in BOOLEAN
    BY DEF receive, QueueInv
  <1>2. last'.is_new = new /\ Dedup!check_and_insert(x)
    BY DEF receive, Dedup!check_and_insert, Dedup!contains
  <1>3. handled' = Append(handled, r)
    BY <1>2 DEF receive
  <1>4. handled \in Seq([tx : Hash, is_new : BOOLEAN]) /\ r \in [tx : Hash, is_new : BOOLEAN]
    BY <1>1 DEF QueueInv
  <1>5. ws_sent' = IF new THEN Append(ws_sent, x) ELSE ws_sent
    BY <1>2 DEF receive, broadcast
  <1>6. seen' = seen \cup {x} /\ since' = [g \in Hash |-> IF g = x THEN {} ELSE since[g] \cup {x}]
    BY <1>2 DEF Dedup!check_and_insert, Dedup!RecordHistory
  <1> HIDE DEF x, new, r
  <1>7. /\ handled' \in Seq([tx : Hash, is_new : BOOLEAN])
        /\ Len(handled) \in Nat /\ Len(handled') = Len(handled) + 1
        /\ DOMAIN handled = 1 .. Len(handled)
        /\ DOMAIN handled' = 1 .. (Len(handled) + 1)
        /\ \A k \in 1 .. Len(handled) : handled'[k] = handled[k]
        /\ handled'[Len(handled) + 1] = r
    BY <1>3, <1>4, AppendProperties, LenProperties
  <1>8. QED
    BY <1>1, <1>3, <1>5, <1>6, <1>7 DEF x, new, r

\* The history of the deduplicator follows the loop.
LEMMA ReceiveKeepsHistory == QueueInv /\ HistoryInv /\ receive => HistoryInv'
  <1> SUFFICES ASSUME QueueInv, HistoryInv, receive, NEW h \in Hash
               PROVE  /\ h \in seen' => \E j \in 1 .. Len(handled') :
                           LastAt(h, j)' /\ since'[h] = {handled'[m].tx : m \in j + 1 .. Len(handled')}
                      /\ h \notin seen' => \A j \in 1 .. Len(handled') : handled'[j].tx # h
    BY DEF HistoryInv
  <1> DEFINE x == Head(queue)
  <1>0. PICK n \in Nat : n = Len(handled)
    BY ReceiveEffect
  <1>1. /\ x \in Hash /\ n \in Nat /\ Len(handled') = n + 1
        /\ \A k \in 1 .. n : handled'[k] = handled[k]
        /\ handled'[n + 1].tx = x
        /\ seen' = seen \cup {x}
        /\ since' = [g \in Hash |-> IF g = x THEN {} ELSE since[g] \cup {x}]
    BY <1>0, ReceiveEffect
  <1> HIDE DEF x
  <1>2. CASE h = x
    <2>1. LastAt(h, n + 1)'
      BY <1>1, <1>2 DEF LastAt
    <2>2. since'[h] = {handled'[m].tx : m \in n + 1 + 1 .. n + 1}
      BY <1>1, <1>2
    <2>3. QED
      BY <1>1, <1>2, <2>1, <2>2
  <1>3. CASE h # x
    <2>1. ASSUME h \in seen'
          PROVE  \E j \in 1 .. Len(handled') :
                   LastAt(h, j)' /\ since'[h] = {handled'[m].tx : m \in j + 1 .. Len(handled')}
      <3>1. h \in seen
        BY <1>1, <1>3, <2>1
      <3>2. PICK j \in 1 .. n : LastAt(h, j) /\ since[h] = {handled[m].tx : m \in j + 1 .. n}
        BY <1>0, <3>1 DEF HistoryInv
      <3>3. LastAt(h, j)'
        BY <1>0, <1>1, <1>3, <3>2 DEF LastAt
      <3>4. {handled'[m].tx : m \in j + 1 .. n + 1} = {handled[m].tx : m \in j + 1 .. n} \cup {x}
        BY <1>1, <3>2
      <3>5. since'[h] = {handled'[m].tx : m \in j + 1 .. n + 1}
        BY <1>1, <1>3, <3>2, <3>4
      <3>6. QED
        BY <1>1, <3>3, <3>5
    <2>2. ASSUME h \notin seen' PROVE \A j \in 1 .. Len(handled') : handled'[j].tx # h
      BY <1>0, <1>1, <1>3, <2>2 DEF HistoryInv
    <2>3. QED
      BY <2>1, <2>2
  <1>4. QED
    BY <1>2, <1>3

\* A receive appends to the announcements exactly when the verdict is new.
LEMMA ReceiveKeepsAnnounced == QueueInv /\ Announced /\ receive => Announced'
  <1> SUFFICES ASSUME QueueInv, Announced, receive PROVE Announced'
    OBVIOUS
  <1> DEFINE x == Head(queue)
             new == x \notin DOMAIN cache
  <1>0. PICK n \in Nat : n = Len(handled)
    BY ReceiveEffect
  <1>1. /\ x \in Hash /\ new \in BOOLEAN
        /\ DOMAIN handled = 1 .. n /\ DOMAIN handled' = 1 .. n + 1
        /\ \A k \in 1 .. n : handled'[k] = handled[k]
        /\ handled'[n + 1] = [tx |-> x, is_new |-> new]
        /\ ws_sent' = IF new THEN Append(ws_sent, x) ELSE ws_sent
    BY <1>0, ReceiveEffect
  <1> HIDE DEF x, new
  <1>2. NewAt \subseteq 1 .. n /\ IsFiniteSet(NewAt) /\ Cardinality(NewAt) \in Nat
    <2>1. NewAt \subseteq 1 .. n
      BY <1>1 DEF NewAt
    <2>2. IsFiniteSet(1 .. n)
      BY FS_Interval
    <2>3. QED
      BY <2>1, <2>2, FS_Subset, FS_CardinalityType
  <1>3. NewAt' = IF new THEN NewAt \cup {n + 1} ELSE NewAt
    BY <1>1 DEF NewAt
  <1>4. ASSUME NEW k \in NewAt
        PROVE  Rank(k)' = Rank(k) /\ Rank(k) \in 1 .. Cardinality(NewAt)
    <2> DEFINE U == {j \in NewAt : j <= k}
    <2>1. {j \in NewAt' : j <= k} = U
      BY <1>2, <1>3
    <2>2. U \subseteq NewAt /\ k \in U
      BY <1>2
    <2>3. IsFiniteSet(U) /\ Cardinality(U) <= Cardinality(NewAt) /\ Cardinality(U) \in Nat
      BY <1>2, <2>2, FS_Subset, FS_CardinalityType
    <2>4. Cardinality(U) # 0
      BY <2>2, <2>3, FS_EmptySet
    <2>5. QED
      BY <1>2, <2>1, <2>3, <2>4 DEF Rank
  <1>5. CASE ~new
    <2>1. NewAt' = NewAt /\ ws_sent' = ws_sent
      BY <1>1, <1>3, <1>5
    <2>2. \A k \in NewAt : ws_sent'[Rank(k)'] = handled'[k].tx
      BY <1>1, <1>2, <1>4, <2>1 DEF Announced
    <2>3. QED
      BY <2>1, <2>2 DEF Announced
  <1>6. CASE new
    <2>1. NewAt' = NewAt \cup {n + 1} /\ ws_sent' = Append(ws_sent, x)
      BY <1>1, <1>3, <1>6
    <2>2. Cardinality(NewAt') = Cardinality(NewAt) + 1
      <3>1. n + 1 \notin NewAt
        BY <1>2
      <3>2. QED
        BY <1>2, <2>1, <3>1, FS_AddElement
    <2>3. /\ ws_sent' \in Seq(Hash) /\ Len(ws_sent') = Len(ws_sent) + 1
          /\ \A i \in 1 .. Len(ws_sent) : ws_sent'[i] = ws_sent[i]
          /\ ws_sent'[Len(ws_sent) + 1] = x
      BY <1>1, <2>1, AppendProperties DEF Announced
    <2>4. \A k \in NewAt : ws_sent'[Rank(k)'] = handled'[k].tx
      BY <1>1, <1>2, <1>4, <2>3 DEF Announced
    <2>5. Rank(n + 1)' = Cardinality(NewAt) + 1
      <3>1. \A j \in NewAt' : j <= n + 1
        BY <1>2, <2>1
      <3>2. {j \in NewAt' : j <= n + 1} = NewAt'
        BY <3>1
      <3>3. QED
        BY <2>2, <3>2 DEF Rank
    <2>6. ws_sent'[Rank(n + 1)'] = handled'[n + 1].tx
      BY <1>1, <2>3, <2>5 DEF Announced
    <2>7. QED
      BY <2>1, <2>2, <2>3, <2>4, <2>6 DEF Announced
  <1>7. QED
    BY <1>5, <1>6

\* The verdict of check_and_insert is the one the last CacheSize distinct
\* transactions of the loop determine.
LEMMA ReceiveKeepsVerdicts ==
    QueueInv /\ HistoryInv /\ DP!RecencyInv /\ DP!WindowExact /\ VerdictsExact /\ receive
        => VerdictsExact'
  <1> SUFFICES ASSUME QueueInv, HistoryInv, DP!RecencyInv, DP!WindowExact, VerdictsExact, receive
               PROVE  VerdictsExact'
    OBVIOUS
  <1> DEFINE x == Head(queue)
             new == x \notin DOMAIN cache
  <1>0. PICK n \in Nat : n = Len(handled)
    BY ReceiveEffect
  <1>1. /\ x \in Hash /\ new \in BOOLEAN
        /\ DOMAIN handled = 1 .. n /\ DOMAIN handled' = 1 .. n + 1
        /\ \A k \in 1 .. n : handled'[k] = handled[k]
        /\ handled'[n + 1] = [tx |-> x, is_new |-> new]
    BY <1>0, ReceiveEffect
  <1>2. new <=> x \notin seen \/ ~(Cardinality(since[x]) < CacheSize)
    <2>1. x \in DOMAIN cache <=> x \in seen /\ DP!Cardinality(since[x]) < CacheSize
      BY <1>1 DEF DP!WindowExact
    <2>2. DP!Cardinality(since[x]) = Cardinality(since[x])
      BY Zenon DEF DP!Cardinality, Cardinality
    <2>3. QED
      BY <2>1, <2>2
  <1> HIDE DEF x, new
  <1>3. ASSUME NEW k \in 1 .. n PROVE FreshAt(k)' <=> FreshAt(k)
    <2>1. handled'[k].tx = handled[k].tx /\ \A j \in 1 .. k - 1 : handled'[j].tx = handled[j].tx
      BY <1>1
    <2>2. \A j \in 1 .. k - 1 :
            {handled'[m].tx : m \in j + 1 .. k - 1} = {handled[m].tx : m \in j + 1 .. k - 1}
      BY <2>1
    <2>3. QED
      BY <2>1, <2>2 DEF FreshAt
  <1>4. new <=> FreshAt(n + 1)'
    <2> DEFINE After(j) == {handled[m].tx : m \in j + 1 .. n} \ {x}
    <2>1. FreshAt(n + 1)' <=> \A j \in 1 .. n : handled[j].tx = x => Cardinality(After(j)) >= CacheSize
      <3>1. n + 1 - 1 = n /\ handled'[n + 1].tx = x
        BY <1>1
      <3>2. \A j \in 1 .. n : {handled'[m].tx : m \in j + 1 .. n} = {handled[m].tx : m \in j + 1 .. n}
        BY <1>1
      <3>3. QED
        BY <1>1, <3>1, <3>2 DEF FreshAt
    <2>2. CASE x \notin seen
      <3>1. \A j \in 1 .. n : handled[j].tx # x
        BY <1>0, <1>1, <2>2 DEF HistoryInv
      <3>2. QED
        BY <1>2, <2>1, <2>2, <3>1
    <2>3. CASE x \in seen
      <3>1. PICK j \in 1 .. n : LastAt(x, j) /\ since[x] = {handled[m].tx : m \in j + 1 .. n}
        BY <1>0, <1>1, <2>3 DEF HistoryInv
      <3>2. since[x] = After(j) /\ handled[j].tx = x
        BY <1>0, <3>1 DEF LastAt
      <3>3. IsFiniteSet(since[x]) /\ Cardinality(since[x]) \in Nat
        BY <1>1, FS_CardinalityType DEF DP!RecencyInv, DP!IsFiniteSet, IsFiniteSet
      <3>4. new <=> Cardinality(After(j)) >= CacheSize
        BY <1>2, <2>3, <3>2, <3>3
      <3>5. ASSUME new, NEW i \in 1 .. n, handled[i].tx = x
            PROVE  Cardinality(After(i)) >= CacheSize
        <4>1. i <= j
          BY <1>0, <3>1, <3>5 DEF LastAt
        <4>2. After(j) \subseteq After(i)
          BY <4>1
        <4>3. IsFiniteSet(After(i))
          <5>1. IsFiniteSet(i + 1 .. n)
            BY FS_Interval
          <5>2. IsFiniteSet({handled[m].tx : m \in i + 1 .. n})
            <6> DEFINE f == [m \in i + 1 .. n |-> handled[m].tx]
                       T == {handled[m].tx : m \in i + 1 .. n}
            <6>1. f \in Surjection(i + 1 .. n, T)
              BY DEF Surjection
            <6> HIDE DEF f, T
            <6>2. IsFiniteSet(T)
              BY <5>1, <6>1, FS_Surjection
            <6>3. QED
              BY <6>2 DEF T
          <5>3. QED
            BY <5>2, FS_Subset
        <4>4. Cardinality(After(i)) \in Nat /\ Cardinality(After(j)) <= Cardinality(After(i))
          BY <4>2, <4>3, FS_Subset, FS_CardinalityType
        <4>5. QED
          BY <3>2, <3>3, <3>4, <3>5, <4>4
      <3> HIDE DEF After
      <3>6. QED
        BY <2>1, <3>2, <3>4, <3>5
    <2>4. QED
      BY <2>2, <2>3
  <1>5. ASSUME NEW k \in 1 .. n + 1 PROVE handled'[k].is_new <=> FreshAt(k)'
    <2>1. CASE k = n + 1
      BY <1>1, <1>4, <2>1
    <2>2. CASE k # n + 1
      <3>1. k \in 1 .. n
        BY <2>2
      <3>2. QED
        BY <1>1, <1>3, <3>1 DEF VerdictsExact
    <2>3. QED
      BY <2>1, <2>2
  <1>6. QED
    BY <1>1, <1>5 DEF VerdictsExact

\* Every step of the transaction path keeps AnnounceInv.
LEMMA AnnounceInvHolds == Spec => []AnnounceInv
  <1>1. Init => AnnounceInv
    <2> SUFFICES ASSUME Init PROVE AnnounceInv
      OBVIOUS
    <2>1. handled = <<>> /\ ws_sent = <<>> /\ seen = {}
      BY DEF Init, Dedup!Init
    <2>2. NewAt = {}
      BY <2>1 DEF NewAt
    <2>3. Cardinality(NewAt) = 0
      BY <2>2, FS_EmptySet
    <2>4. QED
      BY <2>1, <2>2, <2>3 DEF AnnounceInv, HistoryInv, Announced, VerdictsExact
  <1>2. QueueInv /\ DP!RecencyInv /\ DP!WindowExact /\ AnnounceInv /\ [Next]_vars => AnnounceInv'
    <2> SUFFICES ASSUME QueueInv, DP!RecencyInv, DP!WindowExact, AnnounceInv, [Next]_vars
                 PROVE  AnnounceInv'
      OBVIOUS
    <2>1. CASE receive
      BY <2>1, ReceiveKeepsHistory, ReceiveKeepsAnnounced, ReceiveKeepsVerdicts DEF AnnounceInv
    <2>2. CASE UNCHANGED <<handled, ws_sent, seen, since>>
      <3>1. HistoryInv'
        BY <2>2 DEF AnnounceInv, HistoryInv, LastAt
      <3>2. Announced'
        BY <2>2 DEF AnnounceInv, Announced, NewAt, Rank
      <3>3. VerdictsExact'
        BY <2>2 DEF AnnounceInv, VerdictsExact, FreshAt
      <3>4. QED
        BY <3>1, <3>2, <3>3 DEF AnnounceInv
    <2>3. QED
      BY <2>1, <2>2
         DEF Next, PoolEvent, listen, forward, listener_stops, spawn_http, loop_stops, post,
             answered, ctrl_c, stop_network, main_returns, Finished, vars, dedupVars, loopVars
  <1>3. QED
    BY <1>1, <1>2, QueueInvHolds, DedupGuarantees, PTL DEF Spec

\* WebSocket clients hear of every transaction the deduplicator passed, once
\* and in order; a repetition is announced only when at least CacheSize other
\* transactions came through the loop since, and is never held back then.
THEOREM AnnouncementsCorrect == Spec => []WsAnnouncesNewOnce
  <1>1. AnnounceInv => WsAnnouncesNewOnce
    BY DEF AnnounceInv, Announced, VerdictsExact, FreshAt, WsAnnouncesNewOnce
  <1>2. QED
    BY <1>1, AnnounceInvHolds, PTL
-----------------------------------------------------------------------------
(***************************************************************************)
(* HTTP tasks. Ids are given out in the order of the announcements, so the *)
(* task with id n works on the n-th announced transaction, and the         *)
(* endpoints it has posted to are those up to its position.                *)
(***************************************************************************)
Task == [tx : Hash, endpoint : Endpoint, waiting : BOOLEAN]

\* The loop and the running tasks.
TaskInv ==
    /\ ws_sent \in Seq(Hash)
    /\ loop \in {NoTx, Stopped} \cup [at : {"acquire"}, tx : Hash]
    /\ loop.at = "acquire" => /\ NumEndpoints > 0 /\ ws_sent # <<>>
                              /\ ws_sent[Len(ws_sent)] = loop.tx
    /\ id_counter = IF NumEndpoints = 0 THEN 0
                    ELSE IF loop.at = "acquire" THEN Len(ws_sent) - 1 ELSE Len(ws_sent)
    /\ http \in [DOMAIN http -> Task]
    /\ \A id \in DOMAIN http : http[id].tx = ws_sent[id]

\* The requests out.
PostsExact ==
    \A p : p \in posts <=> \E id \in 1 .. id_counter : \E e \in Reached(id) :
                               p = <<id, ws_sent[id], e>>

EndpointInv == TaskInv /\ PostsExact

\* The ids given out belong to announcements.
LEMMA IdsAnnounced ==
    ASSUME TaskInv PROVE id_counter \in Nat /\ id_counter <= Len(ws_sent) /\ Len(ws_sent) \in Nat
  <1>1. Len(ws_sent) \in Nat /\ (ws_sent # <<>> => Len(ws_sent) > 0)
    BY EmptySeq, LenProperties DEF TaskInv
  <1>2. QED
    BY <1>1 DEF TaskInv

\* receive announces a transaction and, with endpoints, waits to spawn its task.
LEMMA ReceiveKeepsEndpoints == QueueInv /\ PermitInv /\ EndpointInv /\ receive => EndpointInv'
  <1> SUFFICES ASSUME QueueInv, PermitInv, EndpointInv, receive PROVE EndpointInv'
    OBVIOUS
  <1> DEFINE x == Head(queue)
             new == x \notin DOMAIN cache
  <1>1. x \in Hash /\ ws_sent' = IF new THEN Append(ws_sent, x) ELSE ws_sent
    BY ReceiveEffect
  <1>2. loop = NoTx /\ loop' = IF new /\ NumEndpoints > 0 THEN [at |-> "acquire", tx |-> x] ELSE NoTx
    BY DEF receive, Dedup!check_and_insert, Dedup!contains
  <1>3. UNCHANGED <<id_counter, http, posts>>
    BY DEF receive, httpVars
  <1>4. id_counter \in Nat /\ id_counter <= Len(ws_sent) /\ Len(ws_sent) \in Nat
    BY IdsAnnounced DEF EndpointInv
  <1> HIDE DEF x, new
  <1>5. /\ ws_sent' \in Seq(Hash)
        /\ \A i \in 1 .. Len(ws_sent) : ws_sent'[i] = ws_sent[i]
        /\ new => ws_sent' # <<>> /\ Len(ws_sent') = Len(ws_sent) + 1 /\ ws_sent'[Len(ws_sent')] = x
        /\ ~new => ws_sent' = ws_sent
    BY <1>1, AppendProperties DEF EndpointInv, TaskInv
  <1>6. loop' \in {NoTx, Stopped} \cup [at : {"acquire"}, tx : Hash]
    BY <1>1, <1>2
  <1>7. loop'.at = "acquire" => NumEndpoints > 0 /\ ws_sent' # <<>> /\ ws_sent'[Len(ws_sent')] = loop'.tx
    BY <1>2, <1>5 DEF NoTx
  <1>8. id_counter' = IF NumEndpoints = 0 THEN 0
                      ELSE IF loop'.at = "acquire" THEN Len(ws_sent') - 1 ELSE Len(ws_sent')
    BY <1>2, <1>3, <1>4, <1>5 DEF EndpointInv, TaskInv, NoTx
  <1>9. DOMAIN http \subseteq 1 .. Len(ws_sent)
    BY <1>4 DEF PermitInv
  <1>10. TaskInv'
    BY <1>3, <1>5, <1>6, <1>7, <1>8, <1>9 DEF EndpointInv, TaskInv
  <1>11. PostsExact'
    <2>1. \A id : Reached(id)' = Reached(id)
      BY <1>3 DEF Reached
    <2>2. \A id \in 1 .. id_counter : ws_sent'[id] = ws_sent[id]
      BY <1>4, <1>5
    <2>3. QED
      BY <1>3, <2>1, <2>2 DEF EndpointInv, PostsExact
  <1>12. QED
    BY <1>10, <1>11 DEF EndpointInv

\* spawn_http gives the next id to the transaction announced last.
LEMMA SpawnKeepsEndpoints == PermitInv /\ EndpointInv /\ spawn_http => EndpointInv'
  <1> SUFFICES ASSUME PermitInv, EndpointInv, spawn_http PROVE EndpointInv'
    OBVIOUS
  <1>1. PICK n \in Nat : n = id_counter + 1
    BY DEF PermitInv
  <1>2. /\ loop.at = "acquire" /\ loop.tx \in Hash /\ loop' = NoTx /\ id_counter' = n
        /\ UNCHANGED <<ws_sent, posts>>
    BY <1>1 DEF spawn_http, EndpointInv, TaskInv, NoTx, Stopped
  <1>3. NumEndpoints > 0 /\ n = Len(ws_sent) /\ ws_sent[n] = loop.tx
    BY <1>1, <1>2, IdsAnnounced DEF EndpointInv, TaskInv
  <1>4. n \notin DOMAIN http
    BY <1>1 DEF PermitInv
  <1>5. http' = [id \in DOMAIN http \cup {n} |->
                   IF id = n THEN [tx |-> loop.tx, endpoint |-> 1, waiting |-> FALSE] ELSE http[id]]
    BY <1>1 DEF spawn_http
  <1>6. /\ DOMAIN http' = DOMAIN http \cup {n}
        /\ http'[n] = [tx |-> loop.tx, endpoint |-> 1, waiting |-> FALSE]
        /\ \A id \in DOMAIN http : http'[id] = http[id]
    BY <1>4, <1>5
  <1>7. [tx |-> loop.tx, endpoint |-> 1, waiting |-> FALSE] \in Task
    BY <1>2, <1>3 DEF Task, Endpoint
  <1>8. \A id \in DOMAIN http' : http'[id] \in Task /\ http'[id].tx = ws_sent[id]
    <2>1. \A id \in DOMAIN http : http[id] \in Task /\ http[id].tx = ws_sent[id]
      BY DEF EndpointInv, TaskInv
    <2>2. http'[n] \in Task /\ http'[n].tx = ws_sent[n]
      BY <1>3, <1>6, <1>7
    <2>3. QED
      BY <1>6, <2>1, <2>2
  <1>9. http' \in [DOMAIN http' -> Task]
    BY <1>5, <1>6, <1>8
  <1>10. TaskInv'
    BY <1>1, <1>2, <1>3, <1>8, <1>9 DEF EndpointInv, TaskInv, NoTx
  <1>11. PostsExact'
    <2>1. \A id \in 1 .. id_counter : Reached(id)' = Reached(id)
      BY <1>1, <1>6 DEF Reached, PermitInv
    <2>2. Reached(n)' = {}
      BY <1>6 DEF Reached
    <2>3. 1 .. n = (1 .. id_counter) \cup {n}
      BY <1>1 DEF PermitInv
    <2>4. QED
      BY <1>2, <2>1, <2>2, <2>3 DEF EndpointInv, PostsExact
  <1>12. QED
    BY <1>10, <1>11 DEF EndpointInv

\* post(id) adds the request to the endpoint the task is at.
LEMMA PostKeepsEndpoints ==
    ASSUME PermitInv, EndpointInv, NEW id \in DOMAIN http, post(id)
    PROVE  EndpointInv'
  <1>1. /\ ~http[id].waiting /\ posts' = posts \cup {<<id, http[id].tx, http[id].endpoint>>}
        /\ http' = [http EXCEPT ![id].waiting = TRUE]
        /\ UNCHANGED <<loop, ws_sent, id_counter>>
    BY DEF post, loopVars
  <1>2. id \in 1 .. id_counter /\ http[id] \in Task /\ http[id].tx = ws_sent[id]
    BY DEF PermitInv, EndpointInv, TaskInv
  <1>3. /\ DOMAIN http' = DOMAIN http
        /\ \A j \in DOMAIN http \ {id} : http'[j] = http[j]
        /\ http'[id] = [tx |-> http[id].tx, endpoint |-> http[id].endpoint, waiting |-> TRUE]
    BY <1>1, <1>2 DEF Task, EndpointInv, TaskInv
  <1>4. \A j \in DOMAIN http : http'[j] \in Task /\ http'[j].tx = ws_sent[j]
    <2>1. \A j \in DOMAIN http : http[j] \in Task /\ http[j].tx = ws_sent[j]
      BY DEF EndpointInv, TaskInv
    <2>2. http'[id] \in Task /\ http'[id].tx = ws_sent[id]
      BY <1>2, <1>3 DEF Task
    <2>3. QED
      BY <1>3, <2>1, <2>2
  <1>5. http' \in [DOMAIN http' -> Task]
    BY <1>1, <1>3, <1>4
  <1>6. TaskInv'
    BY <1>1, <1>3, <1>4, <1>5 DEF EndpointInv, TaskInv
  <1>7. PostsExact'
    <2>1. \A j : j # id => Reached(j)' = Reached(j)
      BY <1>3 DEF Reached
    <2>2. http[id].endpoint \in Nat /\ http[id].endpoint > 0
      BY <1>2 DEF Task, Endpoint
    <2>3. Reached(id)' = Reached(id) \cup {http[id].endpoint}
      BY <1>1, <1>3, <2>2 DEF Reached
    <2>4. QED
      BY <1>1, <1>2, <2>1, <2>3 DEF EndpointInv, PostsExact
  <1>8. QED
    BY <1>6, <1>7 DEF EndpointInv

\* An answer moves the task on or ends it at the last endpoint: the endpoints
\* it has posted to stay the same.
LEMMA AnswerKeepsEndpoints ==
    ASSUME PermitInv, EndpointInv, NEW id \in DOMAIN http, NEW outcome, answered(id, outcome)
    PROVE  EndpointInv'
  <1>1. http[id].waiting /\ UNCHANGED <<loop, ws_sent, id_counter, posts>>
    BY DEF answered, loopVars
  <1>2. id \in 1 .. id_counter /\ http[id] \in Task /\ http[id].tx = ws_sent[id]
    BY DEF PermitInv, EndpointInv, TaskInv
  <1>3. SUFFICES http' \in [DOMAIN http' -> Task]
                 /\ (\A j \in DOMAIN http' : http'[j].tx = ws_sent[j])
                 /\ \A j \in 1 .. id_counter : Reached(j)' = Reached(j)
    <2>1. TaskInv'
      BY <1>1, <1>3 DEF EndpointInv, TaskInv
    <2>2. PostsExact'
      BY <1>1, <1>3 DEF EndpointInv, PostsExact
    <2>3. QED
      BY <2>1, <2>2 DEF EndpointInv
  <1>4. CASE http[id].endpoint = NumEndpoints /\ FinishTask(id)
    <2>1. http' = [j \in DOMAIN http \ {id} |-> http[j]]
      BY <1>4 DEF FinishTask
    <2>2. \A j \in DOMAIN http \ {id} : http'[j] = http[j] /\ http[j] \in Task /\ http[j].tx = ws_sent[j]
      BY <2>1 DEF EndpointInv, TaskInv
    <2>3. Reached(id) = Endpoint /\ Reached(id)' = Endpoint
      BY <1>1, <1>4, <2>1 DEF Reached, Endpoint
    <2>4. \A j : j # id => Reached(j)' = Reached(j)
      BY <2>1, <2>2 DEF Reached
    <2>5. QED
      BY <2>1, <2>2, <2>3, <2>4
  <1>5. CASE http[id].endpoint # NumEndpoints /\ NextEndpoint(id)
    <2>1. http' = [http EXCEPT ![id].endpoint = @ + 1, ![id].waiting = FALSE]
      BY <1>5 DEF NextEndpoint
    <2>2. /\ DOMAIN http' = DOMAIN http
          /\ \A j \in DOMAIN http \ {id} : http'[j] = http[j]
          /\ http'[id] = [tx |-> http[id].tx, endpoint |-> http[id].endpoint + 1, waiting |-> FALSE]
      BY <1>2, <2>1 DEF Task, EndpointInv, TaskInv
    <2>3. http[id].endpoint \in Nat /\ http[id].endpoint + 1 \in Endpoint
      BY <1>2, <1>5 DEF Task, Endpoint
    <2>4. \A j \in DOMAIN http : http'[j] \in Task /\ http'[j].tx = ws_sent[j]
      <3>1. \A j \in DOMAIN http : http[j] \in Task /\ http[j].tx = ws_sent[j]
        BY DEF EndpointInv, TaskInv
      <3>2. http'[id] \in Task /\ http'[id].tx = ws_sent[id]
        BY <1>2, <2>2, <2>3 DEF Task
      <3>3. QED
        BY <2>2, <3>1, <3>2
    <2>5. http' \in [DOMAIN http' -> Task]
      BY <2>1, <2>2, <2>4
    <2>6. Reached(id)' = Reached(id)
      BY <1>1, <2>2, <2>3 DEF Reached
    <2>7. \A j : j # id => Reached(j)' = Reached(j)
      BY <2>2 DEF Reached
    <2>8. QED
      BY <2>2, <2>4, <2>5, <2>6, <2>7
  <1>6. QED
    BY <1>4, <1>5 DEF answered, LastRequest

\* Every step of the transaction path keeps EndpointInv.
LEMMA EndpointInvHolds == Spec => []EndpointInv
  <1>1. Init => EndpointInv
    <2> SUFFICES ASSUME Init PROVE EndpointInv
      OBVIOUS
    <2>1. /\ ws_sent = <<>> /\ loop = NoTx /\ id_counter = 0 /\ posts = {}
          /\ http = [id \in {} |-> [tx |-> "none", endpoint |-> 1, waiting |-> FALSE]]
      BY DEF Init
    <2>2. TaskInv
      BY <2>1 DEF TaskInv, NoTx
    <2>3. PostsExact
      BY <2>1 DEF PostsExact
    <2>4. QED
      BY <2>2, <2>3 DEF EndpointInv
  <1>2. QueueInv /\ PermitInv /\ EndpointInv /\ [Next]_vars => EndpointInv'
    <2> SUFFICES ASSUME QueueInv, PermitInv, EndpointInv, [Next]_vars PROVE EndpointInv'
      OBVIOUS
    <2>1. CASE receive
      BY <2>1, ReceiveKeepsEndpoints
    <2>2. CASE spawn_http
      BY <2>2, SpawnKeepsEndpoints
    <2>3. CASE \E id \in DOMAIN http : post(id)
      BY <2>3, PostKeepsEndpoints
    <2>4. CASE \E id \in DOMAIN http, outcome \in Outcome : answered(id, outcome)
      BY <2>4, AnswerKeepsEndpoints
    <2>5. CASE loop_stops
      <3>1. loop = NoTx /\ loop' = Stopped /\ UNCHANGED <<ws_sent, id_counter, http, posts>>
        BY <2>5 DEF loop_stops, httpVars
      <3>2. TaskInv'
        BY <3>1 DEF EndpointInv, TaskInv, NoTx, Stopped
      <3>3. PostsExact'
        BY <3>1 DEF EndpointInv, PostsExact, Reached
      <3>4. QED
        BY <3>2, <3>3 DEF EndpointInv
    <2>6. CASE UNCHANGED <<loop, ws_sent, id_counter, http, posts>>
      <3>1. TaskInv'
        BY <2>6 DEF EndpointInv, TaskInv
      <3>2. PostsExact'
        BY <2>6 DEF EndpointInv, PostsExact, Reached
      <3>3. QED
        BY <3>1, <3>2 DEF EndpointInv
    <2>7. QED
      BY <2>1, <2>2, <2>3, <2>4, <2>5, <2>6
         DEF Next, PoolEvent, listen, forward, listener_stops, ctrl_c, stop_network,
             main_returns, Finished, vars, loopVars, httpVars
  <1>3. QED
    BY <1>1, <1>2, QueueInvHolds, PermitInvHolds, PTL DEF Spec

\* The requests out are exactly those of the n-th announced transaction under
\* id n, one to each endpoint its task has come to: no endpoint is skipped
\* because another one failed, and none is asked twice.
THEOREM EndpointsCorrect == Spec => []EveryEndpointTried
  <1>1. EndpointInv => EveryEndpointTried
    <2> SUFFICES ASSUME EndpointInv, NumEndpoints > 0
                 PROVE  /\ id_counter = IF loop.at = "acquire" THEN Len(ws_sent) - 1 ELSE Len(ws_sent)
                        /\ posts = UNION {{<<id, ws_sent[id], e>> : e \in Reached(id)} :
                                             id \in 1 .. id_counter}
      BY DEF EveryEndpointTried
    <2>1. id_counter = IF loop.at = "acquire" THEN Len(ws_sent) - 1 ELSE Len(ws_sent)
      BY DEF EndpointInv, TaskInv
    <2>2. posts = UNION {{<<id, ws_sent[id], e>> : e \in Reached(id)} : id \in 1 .. id_counter}
      BY DEF EndpointInv, PostsExact
    <2>3. QED
      BY <2>1, <2>2
  <1>2. QED
    BY <1>1, EndpointInvHolds, PTL
-----------------------------------------------------------------------------
(***************************************************************************)
(* Types. The bounds of the counters come from the order of the path: ids  *)
(* are given to announcements, those are of handled transactions, those    *)
(* were taken, and what is taken was emitted.                              *)
(***************************************************************************)
BoundInv ==
    /\ emitted \in 0 .. MaxEvents
    /\ Len(pending_txs) + Len(taken) <= emitted
    /\ Len(ws_sent) <= Len(handled)
    /\ Len(queue) <= BufferSize
    /\ shutdown \in BOOLEAN /\ main \in {"running", "stopping", "exited"}

\* The lengths are numbers, and what was handled was taken.
LEMMA PathLengths ==
    ASSUME QueueInv
    PROVE  /\ Len(pending_txs) \in Nat /\ Len(queue) \in Nat /\ Len(taken) \in Nat
           /\ Len(handled) \in Nat /\ Len(handled) <= Len(taken)
  <1>1. /\ Len(pending_txs) \in Nat /\ Len(queue) \in Nat /\ Len(taken) \in Nat
        /\ Len(handled) \in Nat
    BY LenProperties DEF QueueInv
  <1>2. HandledTxs \in Seq(Hash) /\ Len(HandledTxs) = Len(handled)
    BY HandledIsSeq
  <1>3. Held(listener) \in Seq(Hash) /\ queue \in Seq(Hash)
    BY DEF Held, QueueInv, NoTx, Stopped
  <1>4. Len(HandledTxs \o queue) = Len(handled) + Len(queue) /\ HandledTxs \o queue \in Seq(Hash)
    BY <1>2, <1>3, ConcatProperties
  <1>5. Len(taken) = Len(handled) + Len(queue) + Len(Held(listener))
    <2>1. Len(HandledTxs \o queue \o Held(listener)) = Len(HandledTxs \o queue) + Len(Held(listener))
      BY <1>3, <1>4, ConcatProperties, Zenon
    <2>2. taken = HandledTxs \o queue \o Held(listener)
      BY DEF QueueInv, NothingLostInQueue
    <2>3. Len(taken) = Len(HandledTxs \o queue) + Len(Held(listener))
      BY <2>1, <2>2, Zenon
    <2>4. QED
      BY <1>4, <2>3, Zenon
  <1>6. Len(Held(listener)) \in Nat
    BY <1>3, LenProperties
  <1>7. QED
    BY <1>1, <1>5, <1>6

\* Every step keeps the bounds.
LEMMA BoundInvHolds == Spec => []BoundInv
  <1>1. Init => BoundInv
    <2> SUFFICES ASSUME Init PROVE BoundInv
      OBVIOUS
    <2>1. /\ emitted = 0 /\ pending_txs = <<>> /\ taken = <<>> /\ ws_sent = <<>>
          /\ handled = <<>> /\ queue = <<>> /\ shutdown = FALSE /\ main = "running"
      BY DEF Init
    <2>2. shutdown \in BOOLEAN /\ main \in {"running", "stopping", "exited"}
      BY <2>1
    <2>3. Len(<<>>) = 0
      OBVIOUS
    <2>4. emitted \in 0 .. MaxEvents /\ Len(pending_txs) + Len(taken) <= emitted
      BY <2>1, <2>3
    <2>5. Len(ws_sent) <= Len(handled) /\ Len(queue) <= BufferSize
      BY <2>1, <2>3
    <2>6. QED
      BY <2>2, <2>4, <2>5 DEF BoundInv
  <1>2. QueueInv /\ TaskInv /\ BoundInv /\ [Next]_vars => BoundInv'
    <2> SUFFICES ASSUME QueueInv, TaskInv, BoundInv, [Next]_vars PROVE BoundInv'
      OBVIOUS
    <2>0. /\ Len(pending_txs) \in Nat /\ Len(queue) \in Nat /\ Len(taken) \in Nat
          /\ Len(handled) \in Nat /\ Len(ws_sent) \in Nat
      BY PathLengths, IdsAnnounced
    <2>1. CASE \E tx \in Hash : PoolEvent(tx)
      <3>1. PICK tx \in Hash : PoolEvent(tx)
        BY <2>1
      <3>2. Len(pending_txs') = Len(pending_txs) + 1
        BY <3>1, AppendProperties DEF PoolEvent, QueueInv
      <3>3. emitted' = emitted + 1 /\ emitted < MaxEvents
            /\ UNCHANGED <<taken, ws_sent, handled, queue, shutdown, main>>
        BY <3>1 DEF PoolEvent, loopVars
      <3>4. QED
        BY <2>0, <3>2, <3>3 DEF BoundInv
    <2>2. CASE listen
      <3>1. Len(pending_txs') = Len(pending_txs) - 1
        BY <2>2, HeadTailProperties DEF listen, QueueInv
      <3>2. Len(taken') \in {Len(taken), Len(taken) + 1}
        <4>1. Head(pending_txs) \in Hash
          BY <2>2, HeadTailProperties DEF listen, QueueInv
        <4>2. QED
          BY <2>2, <4>1, AppendProperties DEF listen, QueueInv
      <3>3. UNCHANGED <<emitted, ws_sent, handled, queue, shutdown, main>>
        BY <2>2 DEF listen, loopVars
      <3>4. QED
        BY <2>0, <3>1, <3>2, <3>3 DEF BoundInv
    <2>3. CASE forward
      <3>1. listener.tx \in Hash /\ queue' = Append(queue, listener.tx)
        BY <2>3 DEF forward, QueueInv, NoTx, Stopped
      <3>2. Len(queue') = Len(queue) + 1
        BY <3>1, AppendProperties DEF QueueInv
      <3>3. UNCHANGED <<emitted, pending_txs, taken, ws_sent, handled, shutdown, main>>
            /\ Len(queue) < BufferSize
        BY <2>3 DEF forward, HasRoom, loopVars, poolVars
      <3>4. QED
        BY <2>0, <3>2, <3>3 DEF BoundInv
    <2>4. CASE receive
      <3>1. Len(queue') = Len(queue) - 1
        BY <2>4, HeadTailProperties DEF receive, QueueInv
      <3>2. Len(handled') = Len(handled) + 1
        BY <2>4, ReceiveEffect
      <3>3. Len(ws_sent') <= Len(ws_sent) + 1
        <4>1. Head(queue) \in Hash /\ (ws_sent' = ws_sent \/ ws_sent' = Append(ws_sent, Head(queue)))
          BY <2>4, ReceiveEffect
        <4>2. QED
          BY <2>0, <4>1, AppendProperties DEF TaskInv
      <3>4. Len(ws_sent') \in Nat
        <4>1. ws_sent' \in Seq(Hash)
          <5>1. Head(queue) \in Hash /\ (ws_sent' = ws_sent \/ ws_sent' = Append(ws_sent, Head(queue)))
            BY <2>4, ReceiveEffect
          <5>2. QED
            BY <5>1, AppendProperties DEF TaskInv
        <4>2. QED
          BY <4>1, LenProperties
      <3>5. UNCHANGED <<emitted, pending_txs, taken, shutdown, main>>
        BY <2>4 DEF receive, poolVars
      <3>6. QED
        BY <2>0, <3>1, <3>2, <3>3, <3>4, <3>5 DEF BoundInv
    <2>5. CASE ctrl_c \/ stop_network \/ main_returns
      BY <2>5 DEF ctrl_c, stop_network, main_returns, BoundInv, poolVars, loopVars
    <2>6. CASE UNCHANGED <<emitted, pending_txs, taken, ws_sent, handled, queue, shutdown, main>>
      BY <2>6 DEF BoundInv
    <2>7. QED
      BY <2>1, <2>2, <2>3, <2>4, <2>5, <2>6
         DEF Next, listener_stops, spawn_http, loop_stops, post, answered, Finished, vars,
             poolVars, loopVars
  <1>3. QED
    BY <1>1, <1>2, QueueInvHolds, EndpointInvHolds, PTL DEF Spec, EndpointInv

\* Together the invariants give the types.
LEMMA InvariantsGiveTypes ==
    QueueInv /\ PermitInv /\ EndpointInv /\ BoundInv /\ DP!TypeOK => TypeOK
  <1> SUFFICES ASSUME QueueInv, PermitInv, EndpointInv, BoundInv, DP!TypeOK PROVE TypeOK
    OBVIOUS
  <1>1. Dedup!TypeOK
    BY DEF DP!TypeOK, Dedup!TypeOK, DP!IsLru, Dedup!IsLru
  <1>2. id_counter \in 0 .. MaxEvents
    BY PathLengths, IdsAnnounced DEF BoundInv, EndpointInv
  <1>3. permits \in 0 .. MaxConcurrent
    <2>1. Cardinality(DOMAIN http) \in Nat
      BY HttpFinite, FS_CardinalityType
    <2>2. QED
      BY <2>1 DEF PermitInv, PermitsAccounted
  <1>4. posts \subseteq (1 .. id_counter) \X Hash \X Endpoint
    <2> SUFFICES ASSUME NEW p \in posts PROVE p \in (1 .. id_counter) \X Hash \X Endpoint
      OBVIOUS
    <2>1. PICK id \in 1 .. id_counter : \E e \in Reached(id) : p = <<id, ws_sent[id], e>>
      BY DEF EndpointInv, PostsExact
    <2>2. PICK e \in Reached(id) : p = <<id, ws_sent[id], e>>
      BY <2>1
    <2>3. ws_sent[id] \in Hash
      BY IdsAnnounced, ElementOfSeq DEF EndpointInv, TaskInv
    <2>4. e \in Endpoint
      <3>1. CASE id \in DOMAIN http
        <4>1. http[id].endpoint \in Endpoint /\ http[id].waiting \in BOOLEAN
          BY <3>1 DEF EndpointInv, TaskInv, Task
        <4>2. QED
          BY <2>2, <3>1, <4>1 DEF Reached, Endpoint
      <3>2. CASE id \notin DOMAIN http
        BY <2>2, <3>2 DEF Reached
      <3>3. QED
        BY <3>1, <3>2
    <2>5. QED
      BY <2>2, <2>3, <2>4
  <1>5. QED
    BY <1>1, <1>2, <1>3, <1>4
       DEF TypeOK, QueueInv, PermitInv, EndpointInv, TaskInv, Task, BoundInv

\* The transaction path keeps its types and bounds: in particular the channel
\* never holds more than buffer_size transactions, and a task is always at one
\* of the configured endpoints.
THEOREM ForwarderTypeCorrect == Spec => []TypeOK
  BY InvariantsGiveTypes, QueueInvHolds, PermitInvHolds, EndpointInvHolds, BoundInvHolds,
     DedupGuarantees, PTL
=============================================================================
