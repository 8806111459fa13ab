--------------------------- MODULE EthProxyProofs ---------------------------
(***************************************************************************)
(* Proofs about EthProxy, under every interleaving of the request handler  *)
(* with block imports, for every capacity, set of requests and set of      *)
(* blocks: the header indexes of the block cache stay in agreement, the    *)
(* types, the answers to header requests, and the answers to body requests. *)
(***************************************************************************)
EXTENDS EthProxy, CacheProofs

\* The inductive invariant: the cache has its four maps and they agree.
IndexInv == IsCacheRecord(cache) /\ IndexesAgree(cache)

\* Every step of the handler that writes the cache does so by one of the
\* operations above.
LEMMA HandlerKeepsIndex ==
    ASSUME IndexInv, start_eth_request_handler
    PROVE  IndexInv'
  <1>1. CASE resolve_start
    BY <1>1, TouchAgrees DEF resolve_start, IndexInv
  <1>2. CASE resolve_headers
    BY <1>2, TouchAgrees DEF resolve_headers, IndexInv
  <1>3. CASE insert_fetched_header
    BY <1>3, InsertHeaderAgrees DEF insert_fetched_header, IndexInv
  <1>4. CASE resolve_bodies
    BY <1>4, TouchAgrees DEF resolve_bodies, IndexInv
  <1>5. CASE collect_missing
    BY <1>5, TouchAgrees DEF collect_missing, IndexInv
  <1>6. CASE merge_body
    BY <1>6, TouchAgrees DEF merge_body, IndexInv
  <1>7. CASE insert_fetched_body
    BY <1>7, TouchAgrees DEF insert_fetched_body, IndexInv
  <1>8. CASE UNCHANGED cache
    BY <1>8 DEF IndexInv
  <1>9. QED
    BY <1>1, <1>2, <1>3, <1>4, <1>5, <1>6, <1>7, <1>8
       DEF start_eth_request_handler, recv, answer_without_data, headers_from_cache,
           fetch_headers, fetch_headers_failed, headers_from_peer, bodies_from_cache,
           bodies_incomplete, nothing_missing, fetch_bodies, fetch_bodies_failed,
           bodies_from_peer, cacheVars

LEMMA IndexStart == Init => IndexInv
  BY DEF Init, IndexInv, new, IsCacheRecord, IndexesAgree, LruEmpty

LEMMA IndexKept == IndexInv /\ [Next]_vars => IndexInv'
  <1> SUFFICES ASSUME IndexInv, [Next]_vars PROVE IndexInv'
    OBVIOUS
  <1>1. CASE \E block \in NewBlocks : ImportBlock(block)
    BY <1>1, InsertAgrees DEF ImportBlock, on_new_block, IndexInv
  <1>2. CASE \E r \in Requests : DeliverRequest(r)
    BY <1>2 DEF DeliverRequest, cacheVars, IndexInv
  <1>3. CASE start_eth_request_handler
    BY <1>3, HandlerKeepsIndex
  <1>4. CASE UNCHANGED vars
    BY <1>4 DEF vars, cacheVars, IndexInv
  <1>5. QED
    BY <1>1, <1>2, <1>3, <1>4 DEF Next, Finished

\* The header indexes of the shared cache agree in every reachable state,
\* however imports, requests and evictions interleave.
THEOREM HeaderIndexesCorrect == Spec => []HeaderIndexesAgree
  <1>1. IndexInv => HeaderIndexesAgree
    BY DEF IndexInv, HeaderIndexesAgree
  <1>2. QED
    BY <1>1, IndexStart, IndexKept, PTL DEF Spec

-----------------------------------------------------------------------------
(***************************************************************************)
(* The inductive invariants of the handler.                                *)
(***************************************************************************)

\* What the handler may do for a request of each kind.
Doing(place, req) ==
    \/ place = "start" /\ req.kind = "headers" /\ "hash" \in DOMAIN req.start
    \/ place \in {"headers", "insert_headers"} /\ req.kind = "headers"
    \/ place \in {"bodies", "missing", "merge", "merge_insert"} /\ req.kind = "bodies"
    \/ place \in {"receipts", "block_access_lists", "node_data"} /\ place = req.kind

Idle ==
    /\ job = NoJob
    /\ i = 1 /\ current_number = {} /\ found = <<>>
    /\ missing = <<>> /\ absent = <<>> /\ fetched = <<>> /\ all_bodies = <<>>

\* The requests in the channel wait for an answer, in the order of their ids,
\* behind the one being handled.
ChannelInv ==
    /\ received \in Nat /\ open \subseteq 1 .. received
    /\ incoming \in Seq([id : Nat, req : Requests])
    /\ \A k \in DOMAIN incoming : incoming[k].id \in open
    /\ \A j, k \in DOMAIN incoming : j < k => incoming[j].id < incoming[k].id
    /\ pc = "recv" => Idle
    /\ pc # "recv" =>
         /\ Doing(pc, job.req)
         /\ job \in [id : open, req : Requests]
         /\ \A k \in DOMAIN incoming : job.id < incoming[k].id

\* The variables of the loops. The index of a loop over the hashes of a request
\* goes one past the last.
LoopInv ==
    /\ i \in Nat \ {0}
    /\ pc \in {"bodies", "missing", "merge"} => i <= Len(job.req.hashes) + 1
    /\ pc = "merge_insert" => i <= Len(job.req.hashes) /\ fetched # <<>>
    /\ current_number \subseteq 0 .. MaxU64 /\ \A m, n \in current_number : m = n
    /\ found \in Seq(Block) /\ missing \in Seq(Block) /\ absent \in Seq(Nat \ {0})
    /\ fetched \in Seq(Block) /\ all_bodies \in Seq(Block)

\* Headers with the numbers that a request asks for, no more than its limit.
InSequence(headers, req) ==
    /\ Len(headers) <= req.limit
    /\ \A k \in DOMAIN headers : NumberOf[headers[k]] = AskedNumbers(req, k)

HeadersInv ==
    /\ pc = "start" => found = <<>>
    /\ pc = "headers" =>
         /\ InSequence(found, job.req)
         /\ \A n \in current_number : n = AskedNumbers(job.req, Len(found) + 1)
    /\ pc = "insert_headers" => (job.req.skip = 0 => InSequence(fetched, job.req))
    /\ HeadersInSequence

\* The bodies of a payload are those of the first n hashes, in their order.
UpTo(payload, hashes, n) ==
    \E at \in [DOMAIN payload -> 1 .. n] :
        /\ \A k \in DOMAIN payload : payload[k] = hashes[at[k]]
        /\ \A j, k \in DOMAIN payload : j < k => at[j] < at[k]

Rising(places) == \A j, k \in DOMAIN places : j < k => places[j] < places[k]

\* Of the places the second look found empty, the first c are behind the loop,
\* and what is left of the upstream answer belongs to those that follow.
Pending(c, hashes) ==
    /\ \A k \in 1 .. c : absent[k] < i
    /\ fetched # <<>> => \A k \in DOMAIN absent : k > c => absent[k] >= i
    /\ \A q \in DOMAIN fetched :
         c + q \in DOMAIN absent /\ fetched[q] = hashes[absent[c + q]]

\* What the handler has gathered for a request for these hashes.
BodiesSoFar(hashes) ==
    /\ pc = "bodies" => UpTo(found, hashes, i - 1) /\ missing = <<>> /\ absent = <<>>
                        /\ all_bodies = <<>>
    /\ pc = "missing" =>
         /\ UpTo(found, hashes, Len(hashes)) /\ all_bodies = <<>>
         /\ Len(absent) = Len(missing) /\ Rising(absent)
         /\ \A k \in DOMAIN absent : absent[k] < i /\ missing[k] = hashes[absent[k]]
    /\ pc \in {"merge", "merge_insert"} =>
         /\ UpTo(all_bodies, hashes, i - 1)
         /\ Rising(absent)
         /\ \E c \in 0 .. Len(absent) : Pending(c, hashes)
    /\ pc = "merge_insert" => i \in Range(absent)

BodiesInv ==
    ~raced /\ aligned =>
        /\ BodiesMatchHash(cache)
        /\ BodiesSoFar(job.req.hashes)
        /\ response.req.kind = "bodies" => InRequestOrder(response.payload, response.req.hashes)

-----------------------------------------------------------------------------
(***************************************************************************)
(* Sequences and the answers of peers.                                     *)
(***************************************************************************)

\* An element of a sequence.
LEMMA ElementAt ==
    ASSUME NEW S, NEW s \in Seq(S), NEW k \in Nat \ {0}, k <= Len(s)
    PROVE  s[k] \in S /\ k \in DOMAIN s
  <1>1. Len(s) \in Nat /\ k \in 1 .. Len(s)
    OBVIOUS
  <1>2. QED
    BY <1>1

\* A look-up as a sequence: nothing, or the one value found.
LEMMA OptionAsSequence ==
    /\ SetToSeq({}) = <<>>
    /\ \A x : SetToSeq({x}) = <<x>>
  <1>1. SetToSeq({}) = <<>>
    <2>1. Cardinality({}) = 0
      BY FS_EmptySet
    <2>2. <<>> \in [1 .. 0 -> {}] /\ IsInjective(<<>>)
      BY DEF IsInjective
    <2>3. \A f \in [1 .. 0 -> {}] : f = <<>>
      OBVIOUS
    <2>4. QED
      BY <2>1, <2>2, <2>3 DEF SetToSeq
  <1>2. ASSUME NEW x PROVE SetToSeq({x}) = <<x>>
    <2>1. Cardinality({x}) = 1
      BY FS_Singleton
    <2>2. <<x>> \in [1 .. 1 -> {x}] /\ IsInjective(<<x>>)
      BY DEF IsInjective
    <2>3. \A f \in [1 .. 1 -> {x}] : f = <<x>>
      OBVIOUS
    <2>4. QED
      BY <2>1, <2>2, <2>3 DEF SetToSeq
  <1>3. QED
    BY <1>1, <1>2

\* A set of positions that has, with each of its elements, all smaller ones is
\* an initial segment.
LEMMA InitialSegment ==
    ASSUME NEW N \in Nat, NEW S \in SUBSET (1 .. N), \A k \in S : 1 .. k \subseteq S
    PROVE  \E n \in 0 .. N : S = 1 .. n
  <1>1. IsFiniteSet(1 .. N) /\ Cardinality(1 .. N) = N
    BY FS_Interval
  <1>2. IsFiniteSet(S) /\ Cardinality(S) \in Nat /\ Cardinality(S) <= N
    <2>1. IsFiniteSet(S) /\ Cardinality(S) <= Cardinality(1 .. N)
      BY <1>1, FS_Subset, Zenon
    <2>2. QED
      BY <1>1, <2>1, FS_CardinalityType
  <1>3. PICK n \in 0 .. N : n = Cardinality(S)
    BY <1>2
  <1>4. ASSUME NEW k \in S PROVE k \in 1 .. n
    <2>1. 1 .. k \subseteq S /\ k \in Nat /\ k >= 1
      OBVIOUS
    <2>2. Cardinality(1 .. k) = k
      BY <2>1, FS_Interval
    <2>3. k <= n
      BY <1>2, <1>3, <2>1, <2>2, FS_Subset
    <2>4. QED
      BY <2>1, <2>3
  <1>5. ASSUME NEW k \in 1 .. n, k \notin S PROVE FALSE
    <2>1. S \subseteq 1 .. k - 1
      <3> SUFFICES ASSUME NEW m \in S PROVE m \in 1 .. k - 1
        OBVIOUS
      <3>1. m \in Nat /\ 1 .. m \subseteq S
        OBVIOUS
      <3>2. ~(k <= m)
        BY <1>5, <3>1
      <3>3. QED
        BY <3>1, <3>2
    <2>2. IsFiniteSet(1 .. k - 1) /\ Cardinality(1 .. k - 1) = k - 1
      BY FS_Interval
    <2>3. Cardinality(S) <= Cardinality(1 .. k - 1)
      BY <2>1, <2>2, FS_Subset, Zenon
    <2>4. QED
      BY <1>3, <2>2, <2>3
  <1>6. QED
    BY <1>3, <1>4, <1>5

\* The number at which a run of headers starts.
First(req) == IF "number" \in DOMAIN req.start THEN req.start.number
                                              ELSE NumberOf[req.start.hash]

\* What a request for headers holds.
LEMMA HeaderRequest ==
    ASSUME NEW req \in Requests, req.kind = "headers"
    PROVE  /\ req.limit \in Nat /\ req.skip \in Nat /\ req.rising \in BOOLEAN
           /\ First(req) \in 0 .. MaxU64
           /\ \/ "number" \in DOMAIN req.start /\ "hash" \notin DOMAIN req.start
              \/ "hash" \in DOMAIN req.start /\ "number" \notin DOMAIN req.start
           /\ "hash" \in DOMAIN req.start => req.start.hash \in Block
  <1>1. /\ req.start \in [number : 0 .. MaxU64] \cup [hash : Block]
        /\ req.limit \in Nat /\ req.skip \in Nat /\ req.rising \in BOOLEAN
    BY RequestsAssumption DEF IsRequest
  <1>2. CASE req.start \in [number : 0 .. MaxU64]
    <2>1. DOMAIN req.start = {"number"} /\ req.start.number \in 0 .. MaxU64
      BY <1>2
    <2>2. QED
      BY <1>1, <2>1 DEF First
  <1>3. CASE req.start \in [hash : Block]
    <2>1. DOMAIN req.start = {"hash"} /\ req.start.hash \in Block
      BY <1>3
    <2>2. NumberOf[req.start.hash] \in 0 .. MaxU64
      BY <2>1, NumberOfAssumption, BlocksAssumption, BoundsAssumption
    <2>3. QED
      BY <1>1, <2>1, <2>2 DEF First
  <1>4. QED
    BY <1>1, <1>2, <1>3

\* The first number is the start, and each further one a step of skip + 1 on.
LEMMA AskedNumbersSteps ==
    ASSUME NEW req \in Requests, req.kind = "headers"
    PROVE  /\ AskedNumbers(req, 1) = First(req)
           /\ \A k \in Nat : /\ AskedNumbers(req, k) \in Int
                             /\ AskedNumbers(req, k + 1) =
                                  IF req.rising THEN AskedNumbers(req, k) + (req.skip + 1)
                                                ELSE AskedNumbers(req, k) - (req.skip + 1)
           /\ req.skip = 0 => \A k \in Nat : AskedNumbers(req, k) =
                                  IF req.rising THEN First(req) + (k - 1)
                                                ELSE First(req) - (k - 1)
  <1>1. PICK first \in Nat, s \in Nat : first = First(req) /\ s = req.skip + 1
    BY HeaderRequest, BoundsAssumption
  <1>2. \A k : AskedNumbers(req, k) = IF req.rising THEN first + (k - 1) * (req.skip + 1)
                                                    ELSE first - (k - 1) * (req.skip + 1)
    BY <1>1 DEF AskedNumbers, First
  <1>3. \A k : AskedNumbers(req, k) = IF req.rising THEN first + (k - 1) * s
                                                    ELSE first - (k - 1) * s
    BY <1>1, <1>2
  <1>4. (1 - 1) * s = 0
    BY <1>1
  <1>5. ASSUME NEW k \in Nat
        PROVE  (k - 1) * s \in Int /\ ((k + 1) - 1) * s = (k - 1) * s + s
    BY <1>1
  <1>6. AskedNumbers(req, 1) = First(req)
    BY <1>1, <1>3, <1>4
  <1>7. ASSUME NEW k \in Nat
        PROVE  /\ AskedNumbers(req, k) \in Int
               /\ AskedNumbers(req, k + 1) = IF req.rising THEN AskedNumbers(req, k) + s
                                                           ELSE AskedNumbers(req, k) - s
    <2>1. PICK d \in Int : d = (k - 1) * s /\ ((k + 1) - 1) * s = d + s
      BY <1>5
    <2>2. /\ AskedNumbers(req, k) = IF req.rising THEN first + d ELSE first - d
          /\ AskedNumbers(req, k + 1) = IF req.rising THEN first + (d + s) ELSE first - (d + s)
      BY <1>3, <2>1
    <2>3. QED
      BY <1>1, <2>1, <2>2
  <1>8. ASSUME req.skip = 0, NEW k \in Nat
        PROVE  AskedNumbers(req, k) = IF req.rising THEN First(req) + (k - 1)
                                                    ELSE First(req) - (k - 1)
    <2>1. s = 1
      BY <1>1, <1>8
    <2>2. (k - 1) * 1 = k - 1
      OBVIOUS
    <2>3. QED
      BY <1>1, <1>3, <2>1, <2>2
  <1>9. QED
    BY <1>1, <1>6, <1>7, <1>8

\* A header answer of a peer is a run without gaps from the start asked for, no
\* longer than the limit.
LEMMA HeaderAnswer ==
    ASSUME NEW req \in Requests, req.kind = "headers", NEW answer \in HeaderAnswers(req)
    PROVE  answer \in Seq(Block) /\ (req.skip = 0 => InSequence(answer, req))
  <1>1. PICK v \in Views : answer \in Prefixes(ViewRun(v, req))
    BY DEF HeaderAnswers
  <1>2. PICK first \in Nat, limit \in Nat : first = First(req) /\ limit = req.limit
    BY HeaderRequest, BoundsAssumption
  <1> DEFINE at(k) == IF req.rising THEN first + (k - 1) ELSE first - (k - 1)
             served == {k \in 1 .. limit : \A m \in 1 .. k : at(m) \in DOMAIN v}
  <1>3. ViewRun(v, req) = <<>> \/ ViewRun(v, req) = [k \in served |-> v[at(k)]]
    BY <1>2 DEF ViewRun, First
  <1>4. PICK n \in 0 .. limit : served = 1 .. n
    <2>1. \A k \in served : 1 .. k \subseteq served
      OBVIOUS
    <2>2. QED
      BY <1>2, <2>1, InitialSegment
  <1>5. \A k \in 1 .. n : v[at(k)] \in Block /\ NumberOf[v[at(k)]] = at(k)
    <2>1. ASSUME NEW k \in 1 .. n PROVE at(k) \in DOMAIN v
      <3>1. k \in served /\ k \in 1 .. k
        BY <1>4
      <3>2. QED
        BY <3>1
    <2>2. QED
      BY <2>1, ViewsAssumption
  <1>6. PICK run : run = ViewRun(v, req)
    OBVIOUS
  <1>7. PICK len \in 0 .. limit :
          /\ run \in Seq(Block) /\ Len(run) = len
          /\ \A k \in 1 .. len : NumberOf[run[k]] = at(k)
    <2>1. CASE run = <<>>
      <3>1. 0 \in 0 .. limit /\ run \in Seq(Block) /\ Len(run) = 0
        BY <2>1
      <3>2. \A k \in 1 .. 0 : NumberOf[run[k]] = at(k)
        OBVIOUS
      <3>3. QED
        BY <3>1, <3>2
    <2>2. CASE run = [k \in served |-> v[at(k)]]
      <3>1. run = [k \in 1 .. n |-> v[at(k)]]
        BY <1>4, <2>2
      <3>2. run \in Seq(Block) /\ Len(run) = n
        BY <1>5, <3>1
      <3>3. \A k \in 1 .. n : NumberOf[run[k]] = at(k)
        BY <1>5, <3>1
      <3>4. QED
        BY <1>4, <3>2, <3>3
    <2>3. QED
      BY <1>3, <1>6, <2>1, <2>2
  <1>8. PICK l \in 0 .. len : answer = SubSeq(run, 1, l)
    BY <1>1, <1>6, <1>7 DEF Prefixes
  <1>9. answer \in Seq(Block) /\ Len(answer) = l /\ \A k \in 1 .. l : answer[k] = run[k]
    BY <1>7, <1>8
  <1>10. ASSUME req.skip = 0 PROVE InSequence(answer, req)
    <2>1. \A k \in 1 .. l : NumberOf[answer[k]] = at(k)
      BY <1>7, <1>9
    <2>2. \A k \in 1 .. l : AskedNumbers(req, k) = at(k)
      BY <1>2, <1>10, AskedNumbersSteps
    <2>3. Len(answer) <= req.limit /\ DOMAIN answer = 1 .. l
      BY <1>2, <1>9
    <2>4. QED
      BY <2>1, <2>2, <2>3 DEF InSequence
  <1>11. QED
    BY <1>9, <1>10

\* What an upstream peer answers is a sequence of blocks' bodies.
LEMMA BodyAnswer ==
    ASSUME NEW hashes \in Seq(Block), NEW answer \in BodyAnswers(hashes)
    PROVE  answer \in Seq(Block)
  <1>1. PICK n \in 0 .. Len(hashes) : answer \in [1 .. n -> UpstreamBodies]
    BY DEF BodyAnswers, SeqOf
  <1>2. UpstreamBodies \subseteq Block
    BY BlocksAssumption
  <1>3. QED
    BY <1>1, <1>2

-----------------------------------------------------------------------------
(***************************************************************************)
(* The request channel and the course of the handler.                      *)
(***************************************************************************)

\* The steps that end the handling of a request.
Answers ==
    \/ answer_without_data \/ headers_from_cache \/ fetch_headers_failed
    \/ headers_from_peer \/ bodies_from_cache \/ nothing_missing \/ fetch_bodies_failed
    \/ bodies_from_peer

\* The steps in between.
Works ==
    \/ resolve_start \/ resolve_headers \/ fetch_headers \/ insert_fetched_header
    \/ resolve_bodies \/ bodies_incomplete \/ collect_missing \/ fetch_bodies
    \/ merge_body \/ insert_fetched_body

\* An answer is a sequence of blocks and gives up the request.
LEMMA AnswerStep ==
    ASSUME LoopInv, Answers
    PROVE  /\ \E payload \in Seq(Block) : \E from : Respond(payload, from)
           /\ UNCHANGED <<cacheVars, historyVars>> /\ pc # "recv"
  <1>1. UNCHANGED <<cacheVars, historyVars>> /\ pc # "recv"
    BY DEF Answers, answer_without_data, headers_from_cache, fetch_headers_failed,
           headers_from_peer, bodies_from_cache, nothing_missing, fetch_bodies_failed,
           bodies_from_peer, HeadersResolved
  <1>2. \E payload \in {<<>>, found, fetched, all_bodies} : \E from : Respond(payload, from)
    BY DEF Answers, answer_without_data, headers_from_cache, fetch_headers_failed,
           headers_from_peer, bodies_from_cache, nothing_missing, fetch_bodies_failed,
           bodies_from_peer
  <1>3. {<<>>, found, fetched, all_bodies} \subseteq Seq(Block)
    BY DEF LoopInv
  <1>4. QED
    BY <1>1, <1>2, <1>3

\* A step in between stays with its request.
LEMMA WorkStep ==
    ASSUME Works
    PROVE  /\ UNCHANGED <<channelVars, job, response>>
           /\ pc # "recv" /\ pc' # "recv"
           /\ Doing(pc, job.req) => Doing(pc', job.req)
  <1>1. UNCHANGED <<channelVars, job, response>>
    BY DEF Works, resolve_start, resolve_headers, fetch_headers, insert_fetched_header,
           resolve_bodies, bodies_incomplete, collect_missing, fetch_bodies, merge_body,
           insert_fetched_body
  <1>2. \/ pc \in {"start", "headers"} /\ pc' = "headers"
        \/ pc \in {"headers", "insert_headers"} /\ pc' = "insert_headers"
        \/ pc = "bodies" /\ pc' \in {"bodies", "missing"}
        \/ pc = "missing" /\ pc' \in {"missing", "merge"}
        \/ pc \in {"merge", "merge_insert"} /\ pc' \in {"merge", "merge_insert"}
    BY DEF Works, resolve_start, resolve_headers, fetch_headers, insert_fetched_header,
           resolve_bodies, bodies_incomplete, collect_missing, fetch_bodies, merge_body,
           insert_fetched_body, HeadersResolved
  <1>3. QED
    BY <1>1, <1>2 DEF Doing

\* recv takes the oldest request.
LEMMA RecvStep ==
    ASSUME ChannelInv, recv
    PROVE  /\ job' \in [id : open, req : Requests]
           /\ job' = incoming[1] /\ Doing(pc', job'.req)
           /\ pc' \in {"start", "headers", "bodies", "receipts", "block_access_lists", "node_data"}
           /\ UNCHANGED <<cacheVars, open, received, i, found, missing, absent, fetched,
                          all_bodies, response, historyVars>>
           /\ Idle
           /\ pc' = "headers" => current_number' = {job'.req.start.number}
                                 /\ "number" \in DOMAIN job'.req.start
           /\ pc' # "headers" => current_number' = {}
  <1>1. /\ pc = "recv" /\ Idle /\ Len(incoming) >= 1 /\ job' = incoming[1]
        /\ incoming[1] \in [id : Nat, req : Requests] /\ 1 \in DOMAIN incoming
    <2>1. pc = "recv" /\ Idle /\ incoming # <<>> /\ job' = Head(incoming)
      BY DEF recv, ChannelInv
    <2>2. incoming \in Seq([id : Nat, req : Requests])
      BY DEF ChannelInv
    <2>3. Len(incoming) >= 1 /\ 1 \in DOMAIN incoming /\ Head(incoming) = incoming[1]
      BY <2>1, <2>2
    <2>4. incoming[1] \in [id : Nat, req : Requests]
      <3>1. PICK S : S = [id : Nat, req : Requests]
        OBVIOUS
      <3>2. incoming \in Seq(S)
        BY <2>2, <3>1
      <3>3. incoming[1] \in S
        BY <2>3, <3>2
      <3>4. QED
        BY <3>1, <3>3
    <2>5. QED
      BY <2>1, <2>3, <2>4, Zenon
  <1>2. job' \in [id : open, req : Requests]
    BY <1>1 DEF ChannelInv
  <1>3. PICK req \in Requests : req = job'.req
    BY <1>2
  <1>4. /\ pc' = IF req.kind = "headers" /\ "hash" \in DOMAIN req.start THEN "start"
                                                                         ELSE req.kind
        /\ current_number' = IF req.kind = "headers" /\ "number" \in DOMAIN req.start
                             THEN {req.start.number} ELSE {}
    BY <1>1, <1>3 DEF recv
  <1>5. req.kind \in {"headers", "bodies", "receipts", "block_access_lists", "node_data"}
    BY RequestsAssumption DEF IsRequest
  <1>6. req.kind = "headers" => ("hash" \in DOMAIN req.start <=> "number" \notin DOMAIN req.start)
    BY HeaderRequest
  <1>7. UNCHANGED <<cacheVars, open, received, i, found, missing, absent, fetched,
                    all_bodies, response, historyVars>>
    BY DEF recv
  <1>8. Doing(pc', req)
    BY <1>4, <1>5 DEF Doing
  <1>9. QED
    BY <1>1, <1>2, <1>3, <1>4, <1>5, <1>6, <1>7, <1>8

\* The channel and the handler agree about who waits for an answer.
LEMMA ChannelKept ==
    ASSUME ChannelInv, LoopInv, [Next]_vars
    PROVE  ChannelInv'
  <1>1. ASSUME NEW r \in Requests, DeliverRequest(r) PROVE ChannelInv'
    <2>1. /\ received' = received + 1 /\ received \in Nat
          /\ UNCHANGED <<pc, job, i, current_number, found, missing, absent, fetched,
                         all_bodies>>
      BY <1>1 DEF DeliverRequest, loopVars, ChannelInv
    <2>2. pc = "recv" => Idle'
      BY <2>1 DEF ChannelInv, Idle
    <2>3. CASE UNCHANGED <<incoming, open>>
      BY <2>1, <2>2, <2>3 DEF ChannelInv
    <2>4. CASE /\ incoming' = Append(incoming, [id |-> received', req |-> r])
               /\ open' = open \cup {received'}
      <3>0. PICK n \in Nat : n = Len(incoming)
        BY DEF ChannelInv
      <3>1. PICK x \in [id : Nat, req : Requests] :
              x = [id |-> received + 1, req |-> r] /\ x.id = received + 1
        <4>1. received + 1 \in Nat
          BY <2>1
        <4>2. [id |-> received + 1, req |-> r] \in [id : Nat, req : Requests]
          BY <4>1
        <4>3. QED
          BY <4>2
      <3>2. /\ incoming' = Append(incoming, x) /\ incoming \in Seq([id : Nat, req : Requests])
            /\ open' = open \cup {received + 1}
        BY <2>1, <2>4, <3>1 DEF ChannelInv
      <3>3. /\ incoming' \in Seq([id : Nat, req : Requests]) /\ DOMAIN incoming' = 1 .. n + 1
            /\ DOMAIN incoming = 1 .. n
            /\ incoming'[n + 1] = x /\ \A k \in 1 .. n : incoming'[k] = incoming[k]
        BY <3>0, <3>1, <3>2
      <3>4. \A k \in 1 .. n : incoming[k].id \in open /\ incoming[k].id \in 1 .. received
        BY <3>3 DEF ChannelInv
      <3>5. \A k \in DOMAIN incoming' : incoming'[k].id \in open'
        BY <3>1, <3>2, <3>3, <3>4
      <3>6. ASSUME NEW j \in DOMAIN incoming', NEW k \in DOMAIN incoming', j < k
            PROVE  incoming'[j].id < incoming'[k].id
        <4>1. CASE k \in 1 .. n
          <5>1. j \in 1 .. n
            BY <3>3, <3>6, <4>1
          <5>2. incoming[j].id < incoming[k].id
            BY <3>3, <3>6, <4>1, <5>1 DEF ChannelInv
          <5>3. QED
            BY <3>3, <4>1, <5>1, <5>2
        <4>2. CASE k = n + 1
          <5>1. j \in 1 .. n
            BY <3>3, <3>6, <4>2
          <5>2. incoming'[j].id \in 1 .. received
            BY <3>3, <3>4, <5>1
          <5>3. incoming'[k].id = received + 1
            BY <3>1, <3>3, <4>2
          <5>4. QED
            BY <2>1, <5>2, <5>3
        <4>3. QED
          BY <3>3, <4>1, <4>2
      <3>7. pc # "recv" =>
              /\ job \in [id : open', req : Requests]
              /\ \A k \in DOMAIN incoming' : job.id < incoming'[k].id
        <4> SUFFICES ASSUME pc # "recv"
                     PROVE  /\ job \in [id : open', req : Requests]
                            /\ \A k \in DOMAIN incoming' : job.id < incoming'[k].id
          OBVIOUS
        <4>1. /\ job \in [id : open, req : Requests] /\ job.id \in 1 .. received
              /\ \A k \in 1 .. n : job.id < incoming[k].id
          BY <3>3 DEF ChannelInv
        <4>2. QED
          BY <2>1, <3>1, <3>2, <3>3, <4>1
      <3>8. open' \subseteq 1 .. received'
        BY <2>1, <3>2 DEF ChannelInv
      <3>9. QED
        BY <2>1, <2>2, <3>3, <3>5, <3>6, <3>7, <3>8 DEF ChannelInv
    <2>5. QED
      BY <1>1, <2>3, <2>4 DEF DeliverRequest
  <1>2. CASE recv
    <2>1. /\ job' \in [id : open, req : Requests] /\ job' = incoming[1]
          /\ Doing(pc', job'.req) /\ pc' # "recv" /\ open' = open /\ received' = received
      BY <1>2, RecvStep
    <2>2. PICK n \in Nat \ {0} : n = Len(incoming)
      BY <1>2 DEF recv, ChannelInv
    <2>3. /\ incoming' \in Seq([id : Nat, req : Requests]) /\ DOMAIN incoming' = 1 .. n - 1
          /\ \A k \in 1 .. n - 1 : incoming'[k] = incoming[k + 1] /\ k + 1 \in 1 .. n
          /\ DOMAIN incoming = 1 .. n
      BY <1>2, <2>2 DEF recv, ChannelInv
    <2>4. \A k \in DOMAIN incoming' : incoming'[k].id \in open'
      BY <2>1, <2>3 DEF ChannelInv
    <2>5. \A k \in DOMAIN incoming' : job'.id < incoming'[k].id
      <3>1. \A k \in 1 .. n - 1 : 1 \in 1 .. n /\ 1 < k + 1
        OBVIOUS
      <3>2. QED
        BY <2>1, <2>3, <3>1 DEF ChannelInv
    <2>6. \A j, k \in DOMAIN incoming' : j < k => incoming'[j].id < incoming'[k].id
      <3>1. \A j, k \in 1 .. n - 1 : j < k => j + 1 < k + 1
        OBVIOUS
      <3>2. QED
        BY <2>3, <3>1 DEF ChannelInv
    <2>7. QED
      BY <2>1, <2>3, <2>4, <2>5, <2>6 DEF ChannelInv
  <1>3. CASE Answers
    <2>1. PICK payload, from : Respond(payload, from)
      BY <1>3, AnswerStep
    <2>2. pc # "recv"
      BY <1>3, AnswerStep
    <2>3. /\ pc' = "recv" /\ open' = open \ {job.id} /\ incoming' = incoming
          /\ received' = received /\ Idle'
      BY <2>1 DEF Respond, NewLoop, Idle
    <2>4. \A k \in DOMAIN incoming : incoming[k].id \in open \ {job.id}
      <3>1. \A k \in DOMAIN incoming :
              incoming[k].id \in open /\ job.id < incoming[k].id /\ job.id \in 1 .. received
        BY <2>2 DEF ChannelInv
      <3>2. QED
        BY <3>1
    <2>5. QED
      BY <2>3, <2>4 DEF ChannelInv
  <1>4. CASE Works
    <2>1. /\ UNCHANGED <<channelVars, job, response>> /\ pc # "recv" /\ pc' # "recv"
          /\ Doing(pc, job.req) => Doing(pc', job.req)
      BY <1>4, WorkStep
    <2>2. QED
      BY <2>1 DEF ChannelInv, channelVars
  <1>5. CASE UNCHANGED <<channelVars, pc, job, loopVars>>
    BY <1>5 DEF ChannelInv, Idle, channelVars, loopVars
  <1>6. QED
    BY <1>1, <1>2, <1>3, <1>4, <1>5
       DEF Next, start_eth_request_handler, Answers, Works, ImportBlock, Finished, vars

-----------------------------------------------------------------------------
(***************************************************************************)
(* Types.                                                                  *)
(***************************************************************************)

\* The invariant of the types, which all parts of TypeOK follow from.
TypeInv ==
    /\ ChannelInv /\ LoopInv /\ IsBlockCache(cache)
    /\ rebroadcast_rx \in Seq(Block) /\ Len(incoming) <= IncomingCap
    /\ response.req \in Requests \cup {NoJob.req} /\ response.payload \in Seq(Block)
    /\ imports \in 0 .. MaxImports /\ received \in 0 .. MaxRequests
    /\ raced \in BOOLEAN /\ aligned \in BOOLEAN

\* A step leaves the cache as it is or performs one of its operations, an import
\* two of them under one lock.
LEMMA CacheStep ==
    ASSUME TypeInv, [Next]_vars
    PROVE  \/ cache' = cache \/ cache' \in Updated(cache)
           \/ \E b \in NewBlocks : ImportBlock(b) /\ cache' = insert(cache, b, b, b)
  <1>1. CASE \E b \in NewBlocks : ImportBlock(b)
    BY <1>1 DEF ImportBlock, on_new_block
  <1>2. CASE Works
    <2>1. Doing(pc, job.req) /\ job.req \in Requests
      BY <1>2, WorkStep DEF TypeInv, ChannelInv
    <2>2. CASE pc \in {"bodies", "missing", "merge", "merge_insert"}
      <3>1. job.req.kind = "bodies"
        BY <2>1, <2>2 DEF Doing
      <3>2. job.req.hashes \in Seq(Block)
        BY <2>1, <3>1, RequestsAssumption DEF IsRequest
      <3>3. i <= Len(job.req.hashes) => job.req.hashes[i] \in Block
        BY <3>2, ElementAt DEF TypeInv, LoopInv
      <3>4. CASE resolve_bodies \/ collect_missing \/ merge_body
        BY <3>3, <3>4 DEF resolve_bodies, collect_missing, merge_body, Updated
      <3>5. CASE insert_fetched_body
        <4>1. job.req.hashes[i] \in Block /\ fetched[1] \in Block
          <5>1. i \in Nat \ {0} /\ i <= Len(job.req.hashes) /\ fetched \in Seq(Block) /\ fetched # <<>>
            BY <3>5 DEF insert_fetched_body, TypeInv, LoopInv
          <5>2. QED
            BY <3>3, <5>1
        <4>2. QED
          BY <3>5, <4>1 DEF insert_fetched_body, next_fetched, Updated
      <3>6. QED
        BY <1>2, <2>2, <3>4, <3>5
           DEF Works, resolve_start, resolve_headers, fetch_headers, insert_fetched_header,
               bodies_incomplete, fetch_bodies, cacheVars, HeadersResolved
    <2>3. CASE pc \in {"start", "headers", "insert_headers"}
      <3>1. CASE resolve_start
        <4>1. job.req.start.hash \in Block
          BY <2>1, <3>1, HeaderRequest DEF resolve_start, Doing
        <4>2. QED
          BY <3>1, <4>1 DEF resolve_start, Updated
      <3>2. CASE resolve_headers
        <4>1. PICK n \in current_number : cache' = touch_header_by_number(cache, n)
          BY <3>2 DEF resolve_headers
        <4>2. n \in Nat
          BY BoundsAssumption DEF TypeInv, LoopInv
        <4>3. QED
          BY <4>1, <4>2 DEF Updated
      <3>3. CASE insert_fetched_header
        <4>1. fetched[i] \in Block
          BY <3>3, ElementAt DEF insert_fetched_header, TypeInv, LoopInv
        <4>2. QED
          BY <3>3, <4>1 DEF insert_fetched_header, Updated
      <3>4. CASE fetch_headers
        BY <3>4 DEF fetch_headers, cacheVars
      <3>5. QED
        BY <1>2, <2>3, <3>1, <3>2, <3>3, <3>4
           DEF Works, resolve_bodies, bodies_incomplete, collect_missing, fetch_bodies,
               merge_body, insert_fetched_body
    <2>4. QED
      BY <1>2, <2>2, <2>3
         DEF Works, resolve_start, resolve_headers, fetch_headers, insert_fetched_header,
             resolve_bodies, bodies_incomplete, collect_missing, fetch_bodies, merge_body,
             insert_fetched_body, HeadersResolved
  <1>3. CASE UNCHANGED cache
    BY <1>3
  <1>4. CASE Answers
    BY <1>4, AnswerStep DEF TypeInv, cacheVars
  <1>5. QED
    BY <1>1, <1>2, <1>3, <1>4
       DEF Next, start_eth_request_handler, Answers, Works, recv, DeliverRequest, Finished,
           vars, cacheVars

\* What is left of an upstream answer when its first body is taken.
LEMMA RestOfAnswer ==
    ASSUME NEW s \in Seq(Block), s # <<>>
    PROVE  /\ RemoveAt(s, 1) \in Seq(Block)
           /\ DOMAIN RemoveAt(s, 1) = {q \in Nat \ {0} : q + 1 \in DOMAIN s}
           /\ \A q \in DOMAIN RemoveAt(s, 1) : RemoveAt(s, 1)[q] = s[q + 1]
  <1>1. PICK n \in Nat \ {0} : n = Len(s)
    OBVIOUS
  <1>2. PICK t : t = SubSeq(s, 2, n)
    OBVIOUS
  <1>3. t \in Seq(Block) /\ Len(t) = n - 1 /\ \A q \in 1 .. n - 1 : t[q] = s[q + 1]
    BY <1>1, <1>2
  <1>4. RemoveAt(s, 1) = t
    <2>1. SubSeq(s, 1, 0) = <<>>
      BY <1>1
    <2>2. RemoveAt(s, 1) = SubSeq(s, 1, 1 - 1) \o SubSeq(s, 1 + 1, Len(s))
      BY DEF RemoveAt
    <2>3. 1 - 1 = 0 /\ 1 + 1 = 2
      OBVIOUS
    <2>4. RemoveAt(s, 1) = <<>> \o t
      BY <1>1, <1>2, <2>1, <2>2, <2>3
    <2>5. QED
      BY <1>3, <2>4
  <1>5. DOMAIN t = {q \in Nat \ {0} : q + 1 \in DOMAIN s}
    <2>1. DOMAIN t = 1 .. n - 1 /\ DOMAIN s = 1 .. n
      BY <1>1, <1>3
    <2>2. \A q : q \in 1 .. n - 1 <=> q \in Nat \ {0} /\ q + 1 \in 1 .. n
      OBVIOUS
    <2>3. QED
      BY <2>1, <2>2
  <1>6. QED
    BY <1>3, <1>4, <1>5

\* A body that a look-up gives, as a sequence.
LEMMA LookupAsSequence ==
    ASSUME NEW c, IsBlockCache(c), NEW h
    PROVE  /\ \/ /\ get_body_by_hash(c, h) = {}
                 /\ SetToSeq(get_body_by_hash(c, h)) = <<>>
              \/ \E x \in Block : /\ get_body_by_hash(c, h) = {x}
                                  /\ x = peek(c.bodies_by_hash, h)
                                  /\ h \in DOMAIN c.bodies_by_hash
                                  /\ SetToSeq(get_body_by_hash(c, h)) = <<x>>
           /\ SetToSeq(get_body_by_hash(c, h)) \in Seq(Block)
  <1>1. CASE h \notin DOMAIN c.bodies_by_hash
    <2>1. get_body_by_hash(c, h) = {}
      BY <1>1 DEF get_body_by_hash, Lookup, contains
    <2>2. SetToSeq(get_body_by_hash(c, h)) = <<>>
      BY <2>1, OptionAsSequence
    <2>3. <<>> \in Seq(Block)
      OBVIOUS
    <2>4. QED
      BY <2>1, <2>2, <2>3
  <1>2. CASE h \in DOMAIN c.bodies_by_hash
    <2>1. PICK x : x = peek(c.bodies_by_hash, h)
      OBVIOUS
    <2>2. get_body_by_hash(c, h) = {x}
      BY <1>2, <2>1 DEF get_body_by_hash, Lookup, contains
    <2>3. x \in Block
      BY <2>2, LookupTypes
    <2>4. SetToSeq(get_body_by_hash(c, h)) = <<x>>
      BY <2>2, OptionAsSequence
    <2>5. <<x>> \in Seq(Block)
      BY <2>3
    <2>6. QED
      BY <1>2, <2>1, <2>2, <2>3, <2>4, <2>5
  <1>3. QED
    BY <1>1, <1>2

\* At most one number comes next, and it is a block number.
LEMMA NextNumber ==
    ASSUME NEW req \in Requests, req.kind = "headers", NEW n \in 0 .. MaxU64
    PROVE  /\ next_number(n, req) \subseteq 0 .. MaxU64
           /\ \A l, m \in next_number(n, req) : l = m
           /\ \A m \in next_number(n, req) : m = IF req.rising THEN n + (req.skip + 1)
                                                               ELSE n - (req.skip + 1)
  <1>1. PICK skip \in Nat : skip = req.skip
    BY HeaderRequest
  <1>2. MaxU64 \in Nat
    BY BoundsAssumption
  <1>3. \A m \in next_number(n, req) :
          m \in 0 .. MaxU64 /\ (IF req.rising THEN m = n + skip + 1 ELSE m + skip + 1 = n)
    BY <1>1 DEF next_number
  <1>4. \A m \in next_number(n, req) : m = IF req.rising THEN n + (skip + 1) ELSE n - (skip + 1)
    BY <1>1, <1>2, <1>3
  <1>5. QED
    BY <1>1, <1>3, <1>4

\* The steps of the header path keep the types of the loop variables.
LEMMA HeaderLoopKept ==
    ASSUME TypeInv, resolve_start \/ resolve_headers \/ fetch_headers \/ insert_fetched_header
    PROVE  LoopInv'
  <1>1. /\ LoopInv /\ IsBlockCache(cache) /\ job.req \in Requests /\ job.req.kind = "headers"
        /\ pc \in {"start", "headers", "insert_headers"}
    <2>1. pc \in {"start", "headers", "insert_headers"}
      BY DEF resolve_start, resolve_headers, fetch_headers, insert_fetched_header,
             HeadersResolved
    <2>2. QED
      BY <2>1 DEF TypeInv, ChannelInv, Doing
  <1>2. CASE resolve_start
    <2>1. /\ pc' = "headers" /\ UNCHANGED <<i, found, missing, absent, fetched, all_bodies>>
          /\ current_number' =
               {NumberOf[h] : h \in get_header_by_hash(cache, job.req.start.hash)}
      BY <1>2 DEF resolve_start
    <2>2. get_header_by_hash(cache, job.req.start.hash) \subseteq Block
      BY <1>1, LookupTypes
    <2>3. current_number' \subseteq 0 .. MaxU64
      BY <2>1, <2>2, NumberOfAssumption, BlocksAssumption, BoundsAssumption
    <2>4. \A m, n \in current_number' : m = n
      BY <2>1 DEF get_header_by_hash, Lookup
    <2>5. QED
      BY <1>1, <2>1, <2>3, <2>4 DEF LoopInv
  <1>3. CASE resolve_headers
    <2>1. /\ pc' = "headers" /\ UNCHANGED <<i, missing, absent, fetched, all_bodies>>
      BY <1>3 DEF resolve_headers
    <2>2. PICK n, hit :
            /\ n \in current_number /\ hit = get_header_by_number(cache, n)
            /\ found' = IF hit = {} THEN found ELSE Append(found, CHOOSE h \in hit : TRUE)
            /\ current_number' = IF hit = {} THEN {} ELSE next_number(n, job.req)
      BY <1>3 DEF resolve_headers
    <2>3. found' \in Seq(Block)
      <3>1. hit \subseteq Block /\ found \in Seq(Block)
        BY <1>1, <2>2, LookupTypes DEF LoopInv
      <3>2. CASE hit = {}
        BY <2>2, <3>1, <3>2
      <3>3. CASE hit # {}
        <4>1. PICK x : x = CHOOSE h \in hit : TRUE
          OBVIOUS
        <4>2. x \in Block
          BY <3>1, <3>3, <4>1
        <4>3. QED
          BY <2>2, <3>1, <3>3, <4>1, <4>2
      <3>4. QED
        BY <3>2, <3>3
    <2>4. current_number' \subseteq 0 .. MaxU64 /\ \A l, m \in current_number' : l = m
      BY <1>1, <2>2, NextNumber DEF LoopInv
    <2>5. QED
      BY <1>1, <2>1, <2>3, <2>4 DEF LoopInv
  <1>4. CASE fetch_headers
    <2>1. /\ pc' = "insert_headers" /\ fetched' \in HeaderAnswers(job.req)
          /\ UNCHANGED <<i, current_number, found, missing, absent, all_bodies>>
      BY <1>4 DEF fetch_headers
    <2>2. fetched' \in Seq(Block)
      BY <1>1, <2>1, HeaderAnswer
    <2>3. QED
      BY <1>1, <2>1, <2>2 DEF LoopInv
  <1>5. CASE insert_fetched_header
    BY <1>1, <1>5 DEF insert_fetched_header, LoopInv
  <1>6. QED
    BY <1>2, <1>3, <1>4, <1>5

\* So do the steps of the body path.
LEMMA BodyLoopKept ==
    ASSUME TypeInv,
           \/ resolve_bodies \/ bodies_incomplete \/ collect_missing \/ fetch_bodies
           \/ merge_body \/ insert_fetched_body
    PROVE  LoopInv'
  <1>1. /\ LoopInv /\ IsBlockCache(cache) /\ job.req \in Requests /\ job.req.kind = "bodies"
        /\ pc \in {"bodies", "missing", "merge", "merge_insert"}
    <2>1. pc \in {"bodies", "missing", "merge", "merge_insert"}
      BY DEF resolve_bodies, bodies_incomplete, collect_missing, fetch_bodies, merge_body,
             insert_fetched_body
    <2>2. QED
      BY <2>1 DEF TypeInv, ChannelInv, Doing
  <1>2. PICK hashes \in Seq(Block), N \in Nat : hashes = job.req.hashes /\ N = Len(hashes)
    BY <1>1, RequestsAssumption DEF IsRequest
  <1>3. job' = job /\ i \in Nat \ {0}
    BY <1>1 DEF resolve_bodies, bodies_incomplete, collect_missing, fetch_bodies, merge_body,
                insert_fetched_body, LoopInv
  <1>4. CASE resolve_bodies
    <2>1. /\ pc' = "bodies" /\ i <= N /\ i' = i + 1
          /\ found' = found \o SetToSeq(get_body_by_hash(cache, job.req.hashes[i]))
          /\ UNCHANGED <<current_number, missing, absent, fetched, all_bodies>>
      BY <1>2, <1>4 DEF resolve_bodies
    <2>2. SetToSeq(get_body_by_hash(cache, job.req.hashes[i])) \in Seq(Block)
      BY <1>1, LookupAsSequence, Zenon
    <2>3. found' \in Seq(Block)
      BY <1>1, <2>1, <2>2 DEF LoopInv
    <2>4. i' \in Nat \ {0} /\ i' <= Len(job'.req.hashes) + 1
      BY <1>2, <1>3, <2>1
    <2>5. QED
      BY <1>1, <2>1, <2>3, <2>4 DEF LoopInv
  <1>5. CASE bodies_incomplete
    BY <1>1, <1>2, <1>3, <1>5 DEF bodies_incomplete, LoopInv
  <1>6. CASE collect_missing
    <2>1. /\ pc' = "missing" /\ i <= N /\ i' = i + 1
          /\ UNCHANGED <<current_number, found, fetched, all_bodies>>
          /\ \/ missing' = Append(missing, hashes[i]) /\ absent' = Append(absent, i)
             \/ UNCHANGED <<missing, absent>>
      BY <1>2, <1>6 DEF collect_missing
    <2>2. hashes[i] \in Block
      BY <1>2, <1>3, <2>1, ElementAt
    <2>3. missing' \in Seq(Block) /\ absent' \in Seq(Nat \ {0})
      <3>1. PICK Places : Places = Nat \ {0}
        OBVIOUS
      <3>2. missing \in Seq(Block) /\ absent \in Seq(Places) /\ i \in Places
        BY <1>1, <1>3, <3>1 DEF LoopInv
      <3>3. Append(missing, hashes[i]) \in Seq(Block) /\ Append(absent, i) \in Seq(Places)
        BY <2>2, <3>2
      <3>4. QED
        BY <2>1, <3>1, <3>2, <3>3
    <2>4. i' \in Nat \ {0} /\ i' <= Len(job'.req.hashes) + 1
      BY <1>2, <1>3, <2>1
    <2>5. QED
      BY <1>1, <2>1, <2>3, <2>4 DEF LoopInv
  <1>7. CASE fetch_bodies
    <2>1. /\ pc' = "merge" /\ i' = 1 /\ fetched' \in BodyAnswers(missing)
          /\ UNCHANGED <<current_number, found, missing, absent, all_bodies>>
      BY <1>7 DEF fetch_bodies
    <2>2. fetched' \in Seq(Block)
      BY <1>1, <2>1, BodyAnswer DEF LoopInv
    <2>3. i' \in Nat \ {0} /\ i' <= Len(job'.req.hashes) + 1 /\ pc' # "merge_insert"
      BY <1>2, <1>3, <2>1
    <2>4. QED
      BY <1>1, <2>1, <2>2, <2>3 DEF LoopInv
  <1>8. CASE merge_body
    <2>1. /\ i <= N
          /\ all_bodies' = all_bodies \o SetToSeq(get_body_by_hash(cache, job.req.hashes[i]))
          /\ UNCHANGED <<current_number, found, missing, absent, fetched>>
          /\ \/ pc' = "merge_insert" /\ i' = i /\ fetched # <<>>
             \/ pc' = "merge" /\ i' = i + 1
      BY <1>2, <1>8 DEF merge_body
    <2>2. SetToSeq(get_body_by_hash(cache, job.req.hashes[i])) \in Seq(Block)
      BY <1>1, LookupAsSequence, Zenon
    <2>3. all_bodies' \in Seq(Block)
      BY <1>1, <2>1, <2>2 DEF LoopInv
    <2>4. /\ i' \in Nat \ {0}
          /\ pc' = "merge" => i' <= N + 1
          /\ pc' = "merge_insert" => i' <= N /\ fetched' # <<>>
          /\ pc' \in {"merge", "merge_insert"}
      BY <1>2, <1>3, <2>1
    <2>5. QED
      BY <1>1, <1>2, <1>3, <2>1, <2>3, <2>4 DEF LoopInv
  <1>9. CASE insert_fetched_body
    <2>1. /\ pc' = "merge" /\ i' = i + 1 /\ i <= N /\ fetched # <<>> /\ fetched \in Seq(Block)
          /\ all_bodies' = Append(all_bodies, fetched[1])
          /\ fetched' = RemoveAt(fetched, 1)
          /\ UNCHANGED <<current_number, found, missing, absent>>
      BY <1>1, <1>2, <1>9 DEF insert_fetched_body, next_fetched, LoopInv
    <2>2. fetched' \in Seq(Block) /\ all_bodies' \in Seq(Block)
      <3>1. fetched[1] \in Block /\ all_bodies \in Seq(Block)
        BY <1>1, <2>1 DEF LoopInv
      <3>2. RemoveAt(fetched, 1) \in Seq(Block)
        BY <2>1, RestOfAnswer
      <3>3. Append(all_bodies, fetched[1]) \in Seq(Block)
        BY <3>1
      <3>4. QED
        BY <2>1, <3>2, <3>3
    <2>3. i' \in Nat \ {0} /\ i' <= Len(job'.req.hashes) + 1
      BY <1>2, <1>3, <2>1
    <2>4. QED
      BY <1>1, <2>1, <2>2, <2>3 DEF LoopInv
  <1>10. QED
    BY <1>4, <1>5, <1>6, <1>7, <1>8, <1>9

\* Every step keeps the types.
LEMMA TypesKept == TypeInv /\ [Next]_vars => TypeInv'
  <1> SUFFICES ASSUME TypeInv, [Next]_vars PROVE TypeInv'
    OBVIOUS
  <1>1. ChannelInv'
    BY ChannelKept DEF TypeInv
  <1>2. LoopInv'
    <2>1. CASE UNCHANGED <<pc, job, loopVars>>
      BY <2>1 DEF TypeInv, LoopInv, loopVars
    <2>2. CASE recv
      <3>1. /\ Idle /\ job'.req \in Requests /\ Doing(pc', job'.req)
            /\ pc' \in {"start", "headers", "bodies", "receipts", "block_access_lists",
                        "node_data"}
            /\ UNCHANGED <<i, found, missing, absent, fetched, all_bodies>>
            /\ pc' = "headers" => current_number' = {job'.req.start.number}
                                  /\ "number" \in DOMAIN job'.req.start
            /\ pc' # "headers" => current_number' = {}
        BY <2>2, RecvStep DEF TypeInv
      <3>2. pc' = "headers" => job'.req.start.number \in 0 .. MaxU64
        BY <3>1, HeaderRequest DEF Doing, First
      <3>3. pc' = "bodies" => Len(job'.req.hashes) \in Nat
        <4>1. ASSUME pc' = "bodies" PROVE job'.req.hashes \in Seq(Block)
          BY <3>1, <4>1, RequestsAssumption DEF IsRequest, Doing
        <4>2. QED
          BY <4>1
      <3>4. current_number' \subseteq 0 .. MaxU64 /\ \A m, n \in current_number' : m = n
        BY <3>1, <3>2
      <3>5. QED
        BY <3>1, <3>3, <3>4 DEF TypeInv, LoopInv, Idle
    <2>3. CASE Answers
      <3>1. PICK payload, from : Respond(payload, from)
        BY <2>3, AnswerStep DEF TypeInv
      <3>2. /\ pc' = "recv" /\ i' = 1 /\ current_number' = {} /\ found' = <<>>
            /\ missing' = <<>> /\ absent' = <<>> /\ fetched' = <<>> /\ all_bodies' = <<>>
        BY <3>1 DEF Respond, NewLoop
      <3>3. QED
        BY <3>2 DEF LoopInv
    <2>4. CASE Works
      BY <2>4, HeaderLoopKept, BodyLoopKept DEF Works
    <2>5. QED
      BY <2>1, <2>2, <2>3, <2>4
         DEF Next, start_eth_request_handler, Answers, Works, ImportBlock, DeliverRequest,
             Finished, vars
  <1>3. IsBlockCache(cache') /\ rebroadcast_rx' \in Seq(Block)
    <2>1. ASSUME \E b \in NewBlocks : ImportBlock(b) /\ cache' = insert(cache, b, b, b)
          PROVE  IsBlockCache(cache')
      <3>1. PICK b \in Block : /\ ImportBlock(b) /\ cache' = insert(cache, b, b, b)
        BY <2>1, BlocksAssumption
      <3>2. IsBlockCache(insert_header(cache, b, b))
        BY UpdateKeepsTypes DEF TypeInv, Updated
      <3>3. insert(cache, b, b, b) \in Updated(insert_header(cache, b, b))
        BY DEF insert, Updated
      <3>4. QED
        BY <3>1, <3>2, <3>3, UpdateKeepsTypes
    <2>2. ASSUME cache' = cache \/ cache' \in Updated(cache) PROVE IsBlockCache(cache')
      BY <2>2, UpdateKeepsTypes DEF TypeInv
    <2>3. IsBlockCache(cache')
      BY <2>1, <2>2, CacheStep
    <2>4. rebroadcast_rx' \in Seq(Block)
      <3>1. CASE UNCHANGED rebroadcast_rx
        BY <3>1 DEF TypeInv
      <3>2. CASE \E b \in NewBlocks : ImportBlock(b)
        BY <3>2, BlocksAssumption DEF ImportBlock, on_new_block, TypeInv
      <3>3. CASE Works
        BY <3>1, <3>3 DEF Works, resolve_start, resolve_headers, fetch_headers,
              insert_fetched_header, resolve_bodies, bodies_incomplete, collect_missing,
              fetch_bodies, merge_body, insert_fetched_body, cacheVars
      <3>4. CASE Answers
        BY <3>1, <3>4, AnswerStep DEF TypeInv, cacheVars
      <3>5. QED
        BY <3>1, <3>2, <3>3, <3>4
           DEF Next, start_eth_request_handler, Answers, Works, recv, DeliverRequest,
               Finished, vars, cacheVars
    <2>5. QED
      BY <2>3, <2>4
  <1>4. /\ Len(incoming') <= IncomingCap /\ imports' \in 0 .. MaxImports
        /\ received' \in 0 .. MaxRequests
        /\ response'.req \in Requests \cup {NoJob.req} /\ response'.payload \in Seq(Block)
        /\ raced' \in BOOLEAN /\ aligned' \in BOOLEAN
    <2>1. CASE \E b \in NewBlocks : ImportBlock(b)
      BY <2>1, BoundsAssumption DEF ImportBlock, channelVars, historyVars, TypeInv
    <2>2. CASE \E r \in Requests : DeliverRequest(r)
      <3>1. PICK r \in Requests : DeliverRequest(r)
        BY <2>2
      <3>2. received' \in 0 .. MaxRequests
        BY <3>1, BoundsAssumption DEF DeliverRequest, TypeInv
      <3>3. Len(incoming') <= IncomingCap
        <4>1. PICK S : S = [id : Nat, req : Requests]
          OBVIOUS
        <4>2. incoming \in Seq(S)
          BY <4>1 DEF TypeInv, ChannelInv
        <4>3. CASE incoming' = incoming
          BY <4>3 DEF TypeInv
        <4>4. CASE /\ Len(incoming) < IncomingCap
                   /\ incoming' = Append(incoming, [id |-> received', req |-> r])
          <5>1. PICK x : x = [id |-> received', req |-> r]
            OBVIOUS
          <5>2. Len(incoming') = Len(incoming) + 1 /\ Len(incoming) \in Nat
            BY <4>2, <4>4, <5>1
          <5>3. QED
            BY <4>4, <5>2, BoundsAssumption
        <4>5. QED
          BY <3>1, <4>3, <4>4 DEF DeliverRequest
      <3>4. QED
        BY <3>1, <3>2, <3>3 DEF DeliverRequest, cacheVars, historyVars, TypeInv
    <2>3. CASE recv
      <3>1. Len(incoming') <= IncomingCap
        <4>1. PICK S : S = [id : Nat, req : Requests]
          OBVIOUS
        <4>2. incoming \in Seq(S) /\ incoming # <<>> /\ incoming' = Tail(incoming)
          BY <2>3, <4>1 DEF recv, TypeInv, ChannelInv
        <4>3. Len(incoming') = Len(incoming) - 1 /\ Len(incoming) \in Nat
          BY <4>2
        <4>4. QED
          BY <4>3, BoundsAssumption DEF TypeInv
      <3>2. QED
        BY <2>3, <3>1 DEF recv, cacheVars, historyVars, TypeInv
    <2>4. CASE Answers
      <3>1. PICK payload, from : payload \in Seq(Block) /\ Respond(payload, from)
        BY <2>4, AnswerStep DEF TypeInv
      <3>2. pc # "recv" /\ UNCHANGED <<cacheVars, historyVars>>
        BY <2>4, AnswerStep DEF TypeInv
      <3>3. job.req \in Requests
        BY <3>2 DEF TypeInv, ChannelInv
      <3>4. response'.req = job.req /\ response'.payload = payload
        BY <3>1 DEF Respond
      <3>5. QED
        BY <3>1, <3>2, <3>3, <3>4 DEF Respond, cacheVars, historyVars, TypeInv
    <2>5. CASE Works
      <3>1. UNCHANGED <<channelVars, response>>
        BY <2>5, WorkStep
      <3>2. imports' = imports /\ raced' \in BOOLEAN /\ aligned' \in BOOLEAN
        BY <2>5 DEF Works, resolve_start, resolve_headers, fetch_headers,
              insert_fetched_header, resolve_bodies, bodies_incomplete, collect_missing,
              fetch_bodies, merge_body, insert_fetched_body, cacheVars, historyVars, TypeInv
      <3>3. QED
        BY <3>1, <3>2 DEF channelVars, TypeInv
    <2>6. CASE UNCHANGED vars
      BY <2>6 DEF vars, cacheVars, channelVars, historyVars, TypeInv
    <2>7. QED
      BY <2>1, <2>2, <2>3, <2>4, <2>5, <2>6
         DEF Next, start_eth_request_handler, Answers, Works, Finished
  <1>5. QED
    BY <1>1, <1>2, <1>3, <1>4 DEF TypeInv

LEMMA TypesStart == Init => TypeInv
  <1> SUFFICES ASSUME Init PROVE TypeInv
    OBVIOUS
  <1>1. IsBlockCache(cache)
    <2>1. PICK d : d = new(BlockCacheSize)
      OBVIOUS
    <2>2. /\ d.capacity = BlockCacheSize /\ d.headers_by_hash = LruEmpty
          /\ d.headers_by_number = LruEmpty /\ d.hash_by_number = LruEmpty
          /\ d.bodies_by_hash = LruEmpty /\ IsCacheRecord(d)
      BY <2>1 DEF new, IsCacheRecord
    <2>3. QED
      BY <2>1, <2>2, EmptyIsLru, BoundsAssumption DEF Init, IsBlockCache
  <1>2. ChannelInv /\ LoopInv
    BY DEF Init, ChannelInv, LoopInv, Idle
  <1>3. /\ Len(incoming) <= IncomingCap /\ rebroadcast_rx \in Seq(Block)
        /\ response.payload \in Seq(Block) /\ response.req = NoJob.req
        /\ imports \in 0 .. MaxImports /\ received \in 0 .. MaxRequests
        /\ raced \in BOOLEAN /\ aligned \in BOOLEAN
    <2>1. response = [req |-> NoJob.req, payload |-> <<>>, from |-> "none"]
      BY DEF Init
    <2>2. response.payload = <<>> /\ response.req = NoJob.req
      BY <2>1
    <2>3. <<>> \in Seq(Block) /\ Len(<<>>) = 0
      OBVIOUS
    <2>4. 0 <= IncomingCap /\ 0 \in 0 .. MaxImports /\ 0 \in 0 .. MaxRequests
      BY BoundsAssumption
    <2>5. QED
      BY <2>2, <2>3, <2>4 DEF Init
  <1>4. QED
    BY <1>1, <1>2, <1>3 DEF TypeInv

\* The cache is well formed and within its capacity, and the request being
\* handled and those in the channel wait for their answers, in every reachable
\* state (start_eth_request_handler, BlockCache), for every capacity and every
\* set of requests.
THEOREM EthProxyTypeCorrect == Spec => []TypeOK
  <1>1. TypeInv => TypeOK
    <2> SUFFICES ASSUME TypeInv PROVE TypeOK
      OBVIOUS
    <2>1. pc \in {"recv", "start", "headers", "insert_headers", "bodies", "missing", "merge",
                  "merge_insert", "receipts", "block_access_lists", "node_data"}
      BY DEF TypeInv, ChannelInv, Doing
    <2>2. job = NoJob \/ job \in [id : open, req : Requests]
      BY DEF TypeInv, ChannelInv, Idle
    <2>3. QED
      BY <2>1, <2>2 DEF TypeInv, ChannelInv, LoopInv, TypeOK
  <1>2. QED
    BY <1>1, TypesStart, TypesKept, PTL DEF Spec

-----------------------------------------------------------------------------
(***************************************************************************)
(* Header answers.                                                         *)
(***************************************************************************)

\* One more header of the number asked for next.
LEMMA NextInSequence ==
    ASSUME NEW req \in Requests, req.kind = "headers", NEW headers \in Seq(Block),
           InSequence(headers, req), Len(headers) < req.limit, NEW h \in Block,
           NumberOf[h] = AskedNumbers(req, Len(headers) + 1)
    PROVE  InSequence(Append(headers, h), req)
  <1>1. PICK n \in Nat, limit \in Nat : n = Len(headers) /\ limit = req.limit
    BY HeaderRequest
  <1>2. PICK more : more = Append(headers, h)
    OBVIOUS
  <1>3. /\ Len(more) = n + 1 /\ DOMAIN more = 1 .. n + 1 /\ DOMAIN headers = 1 .. n
        /\ more[n + 1] = h /\ \A k \in 1 .. n : more[k] = headers[k]
    BY <1>1, <1>2
  <1>4. \A k \in 1 .. n + 1 : k \in 1 .. n \/ k = n + 1
    OBVIOUS
  <1>5. \A k \in 1 .. n + 1 : NumberOf[more[k]] = AskedNumbers(req, k)
    BY <1>1, <1>3, <1>4 DEF InSequence
  <1>6. n + 1 <= limit
    BY <1>1
  <1>7. QED
    BY <1>1, <1>2, <1>3, <1>5, <1>6 DEF InSequence

\* No headers are in sequence.
LEMMA NothingInSequence ==
    ASSUME NEW req \in Requests, req.kind = "headers"
    PROVE  InSequence(<<>>, req)
  <1>1. req.limit \in Nat
    BY HeaderRequest
  <1>2. QED
    BY <1>1 DEF InSequence

\* The walk over the cache stays on the numbers asked for, whatever is imported
\* or evicted between two look-ups.
LEMMA HeaderWalk ==
    ASSUME TypeInv, IndexInv, HeadersInv,
           resolve_start \/ resolve_headers \/ fetch_headers \/ insert_fetched_header
    PROVE  HeadersInv'
  <1>1. job.req \in Requests /\ job.req.kind = "headers" /\ job' = job /\ response' = response
    <2>1. /\ Works /\ pc \in {"start", "headers", "insert_headers"}
      BY DEF Works, resolve_start, resolve_headers, fetch_headers, insert_fetched_header,
             HeadersResolved
    <2>2. QED
      BY <2>1, WorkStep DEF TypeInv, ChannelInv, Doing
  <1>2. PICK req \in Requests : req = job.req /\ req.kind = "headers"
    BY <1>1
  <1>3. HeadersInSequence'
    BY <1>1 DEF HeadersInv, HeadersInSequence, AskedNumbers
  <1>4. CASE resolve_start
    <2>1. /\ pc = "start" /\ pc' = "headers" /\ found' = found /\ found = <<>>
          /\ current_number' = {NumberOf[h] : h \in get_header_by_hash(cache, req.start.hash)}
      BY <1>2, <1>4 DEF resolve_start, HeadersInv
    <2>2. "hash" \in DOMAIN req.start /\ First(req) = NumberOf[req.start.hash]
      BY <1>2, <2>1, HeaderRequest DEF TypeInv, ChannelInv, Doing, First
    <2>3. \A h \in get_header_by_hash(cache, req.start.hash) : h = req.start.hash
      BY DEF get_header_by_hash, Lookup, contains, IndexInv, IndexesAgree
    <2>4. \A n \in current_number' : n = AskedNumbers(req, 1)
      BY <1>2, <2>1, <2>2, <2>3, AskedNumbersSteps
    <2>5. Len(<<>>) + 1 = 1
      OBVIOUS
    <2>6. QED
      BY <1>1, <1>2, <1>3, <2>1, <2>4, <2>5, NothingInSequence DEF HeadersInv
  <1>5. CASE resolve_headers
    <2>1. /\ pc = "headers" /\ pc' = "headers" /\ Len(found) < req.limit
          /\ InSequence(found, req)
          /\ \A n \in current_number : n = AskedNumbers(req, Len(found) + 1)
          /\ found \in Seq(Block) /\ current_number \subseteq 0 .. MaxU64
      BY <1>2, <1>5 DEF resolve_headers, HeadersInv, TypeInv, LoopInv
    <2>2. PICK n, hit :
            /\ n \in current_number /\ hit = get_header_by_number(cache, n)
            /\ found' = IF hit = {} THEN found ELSE Append(found, CHOOSE h \in hit : TRUE)
            /\ current_number' = IF hit = {} THEN {} ELSE next_number(n, req)
      BY <1>2, <1>5 DEF resolve_headers
    <2>3. CASE hit = {}
      BY <1>1, <1>2, <1>3, <2>1, <2>2, <2>3 DEF HeadersInv
    <2>4. CASE hit # {}
      <3>1. PICK h : h = CHOOSE x \in hit : TRUE
        OBVIOUS
      <3>2. h \in hit /\ h \in Block
        BY <2>2, <2>4, <3>1, LookupTypes DEF TypeInv
      <3>3. NumberOf[h] = n
        BY <2>2, <3>2
           DEF get_header_by_number, Lookup, contains, IndexInv, IndexesAgree
      <3>4. /\ found' = Append(found, h) /\ NumberOf[h] = AskedNumbers(req, Len(found) + 1)
            /\ n = AskedNumbers(req, Len(found) + 1) /\ n \in 0 .. MaxU64
        BY <2>1, <2>2, <2>4, <3>1, <3>3
      <3>5. InSequence(found', req)
        BY <1>2, <2>1, <3>2, <3>4, NextInSequence
      <3>6. PICK l \in Nat : l = Len(found) /\ Len(found') = l + 1
        BY <2>1, <3>2, <3>4
      <3>7. \A m \in current_number' : m = AskedNumbers(req, (l + 1) + 1)
        <4>1. l + 1 \in Nat
          OBVIOUS
        <4>2. AskedNumbers(req, (l + 1) + 1) =
                IF req.rising THEN AskedNumbers(req, l + 1) + (req.skip + 1)
                              ELSE AskedNumbers(req, l + 1) - (req.skip + 1)
          BY <1>2, <4>1, AskedNumbersSteps
        <4>3. \A m \in current_number' : m = IF req.rising THEN n + (req.skip + 1)
                                                           ELSE n - (req.skip + 1)
          BY <1>2, <2>2, <2>4, <3>4, NextNumber
        <4>4. n = AskedNumbers(req, l + 1)
          BY <3>4, <3>6
        <4>5. QED
          BY <4>2, <4>3, <4>4
      <3>8. QED
        BY <1>1, <1>2, <1>3, <2>1, <3>5, <3>6, <3>7 DEF HeadersInv
    <2>5. QED
      BY <2>3, <2>4
  <1>6. CASE fetch_headers
    <2>1. pc' = "insert_headers" /\ fetched' \in HeaderAnswers(req)
      BY <1>2, <1>6 DEF fetch_headers
    <2>2. req.skip = 0 => InSequence(fetched', req)
      BY <1>2, <2>1, HeaderAnswer
    <2>3. QED
      BY <1>1, <1>2, <1>3, <2>1, <2>2 DEF HeadersInv
  <1>7. CASE insert_fetched_header
    BY <1>1, <1>3, <1>7 DEF insert_fetched_header, HeadersInv
  <1>8. QED
    BY <1>4, <1>5, <1>6, <1>7

\* Every answer to a header request is one in sequence.
LEMMA HeaderAnswered ==
    ASSUME TypeInv, HeadersInv, Answers
    PROVE  HeadersInv'
  <1>1. /\ pc # "recv" /\ job.req \in Requests /\ Doing(pc, job.req) /\ pc' = "recv"
    BY AnswerStep DEF TypeInv, ChannelInv, Respond
  <1>2. PICK req \in Requests : req = job.req
    BY <1>1
  <1>3. ASSUME NEW payload, NEW from, Respond(payload, from),
               req.kind = "headers" /\ (from = "peer" => req.skip = 0)
                  => InSequence(payload, req)
        PROVE  HeadersInv'
    <2>1. response'.req = req /\ response'.payload = payload /\ response'.from = from
      BY <1>2, <1>3 DEF Respond
    <2>2. HeadersInSequence'
      BY <1>3, <2>1 DEF HeadersInSequence, InSequence, AskedNumbers
    <2>3. QED
      BY <1>1, <2>2 DEF HeadersInv
  <1>4. CASE headers_from_cache
    <2>1. Respond(found, "cache") /\ InSequence(found, req)
      BY <1>2, <1>4 DEF headers_from_cache, HeadersResolved, HeadersInv
    <2>2. QED
      BY <1>3, <2>1
  <1>5. CASE headers_from_peer
    <2>1. Respond(fetched, "peer") /\ (req.skip = 0 => InSequence(fetched, req))
      BY <1>2, <1>5 DEF headers_from_peer, HeadersInv
    <2>2. QED
      BY <1>3, <2>1
  <1>6. CASE fetch_headers_failed
    <2>1. Respond(<<>>, "error") /\ req.kind = "headers"
      BY <1>1, <1>2, <1>6 DEF fetch_headers_failed, HeadersResolved, Doing
    <2>2. QED
      BY <1>3, <2>1, NothingInSequence
  <1>7. CASE \/ answer_without_data \/ bodies_from_cache \/ nothing_missing
             \/ fetch_bodies_failed \/ bodies_from_peer
    <2>1. req.kind # "headers"
      BY <1>1, <1>2, <1>7 DEF answer_without_data, bodies_from_cache, nothing_missing,
                              fetch_bodies_failed, bodies_from_peer, Doing
    <2>2. PICK payload, from : Respond(payload, from)
      BY AnswerStep DEF TypeInv
    <2>3. QED
      BY <1>3, <2>1, <2>2
  <1>8. QED
    BY <1>4, <1>5, <1>6, <1>7 DEF Answers

LEMMA IndexHolds == Spec => []IndexInv
  BY IndexStart, IndexKept, PTL DEF Spec

\* A header answer is the run of numbers the peer asked for, up to the limit and
\* without gap or wrap-around, although blocks come into and go out of the cache
\* while resolve_headers_from_cache walks it; for every request, capacity and
\* chain of the upstream peers.
THEOREM HeadersCorrect == Spec => []HeadersInSequence
  <1>1. Init => HeadersInv
    <2> SUFFICES ASSUME Init PROVE HeadersInv
      OBVIOUS
    <2>1. response.req.kind = "none" /\ pc = "recv"
      BY DEF Init, NoJob
    <2>2. QED
      BY <2>1 DEF HeadersInv, HeadersInSequence
  <1>2. TypeInv /\ IndexInv /\ HeadersInv /\ [Next]_vars => HeadersInv'
    <2> SUFFICES ASSUME TypeInv, IndexInv, HeadersInv, [Next]_vars PROVE HeadersInv'
      OBVIOUS
    <2>1. CASE UNCHANGED <<pc, job, loopVars, response>>
      BY <2>1 DEF HeadersInv, HeadersInSequence, InSequence, AskedNumbers, loopVars
    <2>2. CASE recv
      <3>1. /\ Idle /\ job'.req \in Requests /\ Doing(pc', job'.req) /\ pc' # "insert_headers"
            /\ found' = found /\ response' = response
            /\ pc' = "headers" => current_number' = {job'.req.start.number}
                                  /\ "number" \in DOMAIN job'.req.start
        BY <2>2, RecvStep DEF TypeInv
      <3>2. HeadersInSequence'
        BY <3>1 DEF HeadersInv, HeadersInSequence, AskedNumbers
      <3>3. ASSUME pc' = "headers"
            PROVE  /\ InSequence(found', job'.req)
                   /\ \A n \in current_number' : n = AskedNumbers(job'.req, Len(found') + 1)
        <4>1. PICK req \in Requests : req = job'.req /\ req.kind = "headers"
          BY <3>1, <3>3 DEF Doing
        <4>2. found' = <<>> /\ Len(<<>>) + 1 = 1
          BY <3>1 DEF Idle
        <4>3. current_number' = {First(req)}
          BY <3>1, <3>3, <4>1 DEF First
        <4>4. AskedNumbers(req, 1) = First(req) /\ InSequence(<<>>, req)
          BY <4>1, AskedNumbersSteps, NothingInSequence
        <4>5. QED
          BY <4>1, <4>2, <4>3, <4>4
      <3>4. QED
        BY <3>1, <3>2, <3>3 DEF HeadersInv, Idle
    <2>3. CASE Answers
      BY <2>3, HeaderAnswered
    <2>4. CASE resolve_start \/ resolve_headers \/ fetch_headers \/ insert_fetched_header
      BY <2>4, HeaderWalk
    <2>5. CASE \/ resolve_bodies \/ bodies_incomplete \/ collect_missing \/ fetch_bodies
               \/ merge_body \/ insert_fetched_body
      <3>1. pc' \notin {"start", "headers", "insert_headers"} /\ response' = response
        BY <2>5 DEF resolve_bodies, bodies_incomplete, collect_missing, fetch_bodies,
                    merge_body, insert_fetched_body
      <3>2. QED
        BY <3>1 DEF HeadersInv, HeadersInSequence, AskedNumbers
    <2>6. QED
      BY <2>1, <2>2, <2>3, <2>4, <2>5
         DEF Next, start_eth_request_handler, Answers, ImportBlock, DeliverRequest, Finished,
             vars
  <1>3. HeadersInv => HeadersInSequence
    BY DEF HeadersInv
  <1>4. QED
    BY <1>1, <1>2, <1>3, TypesStart, TypesKept, IndexHolds, PTL DEF Spec

-----------------------------------------------------------------------------
(***************************************************************************)
(* Body answers.                                                           *)
(***************************************************************************)

\* With such a map a look-up gives the body asked for.
LEMMA OwnBody ==
    ASSUME NEW c, IsBlockCache(c), BodiesMatchHash(c), NEW h
    PROVE  SetToSeq(get_body_by_hash(c, h)) =
             IF get_body_by_hash(c, h) = {} THEN <<>> ELSE <<h>>
  BY LookupAsSequence DEF BodiesMatchHash

\* The empty payload.
LEMMA UpToNothing ==
    ASSUME NEW hashes, NEW n \in Nat
    PROVE  UpTo(<<>>, hashes, n)
  <1>1. <<>> \in [DOMAIN <<>> -> 1 .. n] /\ DOMAIN <<>> = {}
    OBVIOUS
  <1>2. QED
    BY <1>1 DEF UpTo

\* A payload grows with the loop, by nothing or by the body of its hash.
LEMMA UpToNext ==
    ASSUME NEW hashes \in Seq(Block), NEW payload \in Seq(Block), NEW n \in Nat \ {0},
           UpTo(payload, hashes, n - 1), NEW h, h = hashes[n], h \in Block
    PROVE  /\ UpTo(payload, hashes, (n + 1) - 1)
           /\ UpTo(Append(payload, h), hashes, (n + 1) - 1)
  <1>1. PICK l \in Nat : l = Len(payload) /\ DOMAIN payload = 1 .. l
    OBVIOUS
  <1>2. PICK at \in [1 .. l -> 1 .. n - 1] :
          /\ \A k \in 1 .. l : payload[k] = hashes[at[k]]
          /\ \A j, k \in 1 .. l : j < k => at[j] < at[k]
    BY <1>1 DEF UpTo
  <1>3. (n + 1) - 1 = n /\ n \in 1 .. n /\ \A k \in 1 .. n - 1 : k \in 1 .. n /\ k < n
    OBVIOUS
  <1>4. UpTo(payload, hashes, n)
    <2>1. at \in [1 .. l -> 1 .. n]
      BY <1>3
    <2>2. QED
      BY <1>1, <1>2, <2>1 DEF UpTo
  <1>5. UpTo(Append(payload, h), hashes, n)
    <2>1. PICK more : more = Append(payload, h)
      OBVIOUS
    <2>2. /\ DOMAIN more = 1 .. l + 1 /\ more[l + 1] = h
          /\ \A k \in 1 .. l : more[k] = payload[k]
      BY <1>1, <2>1
    <2>3. PICK wider : wider = [k \in 1 .. l + 1 |-> IF k = l + 1 THEN n ELSE at[k]]
      OBVIOUS
    <2>4. \A k \in 1 .. l + 1 : k \in 1 .. l \/ k = l + 1
      OBVIOUS
    <2>5. \A k \in 1 .. l : k \in 1 .. l + 1 /\ k # l + 1 /\ at[k] \in 1 .. n - 1
      BY <1>2
    <2>6. wider \in [1 .. l + 1 -> 1 .. n]
      BY <1>3, <2>3, <2>4, <2>5
    <2>7. \A k \in 1 .. l + 1 : more[k] = hashes[wider[k]]
      BY <1>2, <2>2, <2>3, <2>4, <2>5
    <2>8. ASSUME NEW j \in 1 .. l + 1, NEW k \in 1 .. l + 1, j < k PROVE wider[j] < wider[k]
      <3>1. j \in 1 .. l
        BY <2>8
      <3>2. CASE k \in 1 .. l
        BY <1>2, <2>3, <2>5, <2>8, <3>1, <3>2
      <3>3. CASE k = l + 1
        BY <1>3, <2>3, <2>5, <2>8, <3>1, <3>3
      <3>4. QED
        BY <2>4, <3>2, <3>3
    <2>9. QED
      BY <2>1, <2>2, <2>6, <2>7, <2>8 DEF UpTo
  <1>6. QED
    BY <1>3, <1>4, <1>5

\* A payload that got through all hashes is in the order of the request.
LEMMA UpToAll ==
    ASSUME NEW hashes \in Seq(Block), NEW payload, UpTo(payload, hashes, Len(hashes))
    PROVE  InRequestOrder(payload, hashes)
  <1>1. DOMAIN hashes = 1 .. Len(hashes)
    OBVIOUS
  <1>2. QED
    BY <1>1 DEF UpTo, InRequestOrder

\* The place looked up last is behind all others.
LEMMA RisingNext ==
    ASSUME NEW places \in Seq(Nat), Rising(places), NEW n \in Nat,
           \A k \in DOMAIN places : places[k] < n
    PROVE  /\ Rising(Append(places, n))
           /\ \A k \in DOMAIN Append(places, n) :
                Append(places, n)[k] < n + 1
                /\ (k \in DOMAIN places \/ k = Len(places) + 1)
  <1>0. PICK more : more = Append(places, n)
    OBVIOUS
  <1>1. PICK l \in Nat : l = Len(places) /\ more = Append(places, n)
    BY <1>0
  <1>2. /\ DOMAIN more = 1 .. l + 1 /\ DOMAIN places = 1 .. l /\ more[l + 1] = n
        /\ \A k \in 1 .. l : more[k] = places[k]
    BY <1>1
  <1>3. \A k \in 1 .. l + 1 : k \in 1 .. l \/ k = l + 1
    OBVIOUS
  <1>4. \A k \in 1 .. l : places[k] \in Nat /\ places[k] < n
    BY <1>2
  <1>5. Rising(more)
    <2> SUFFICES ASSUME NEW j \in 1 .. l + 1, NEW k \in 1 .. l + 1, j < k
                 PROVE  more[j] < more[k]
      BY <1>2 DEF Rising
    <2>1. j \in 1 .. l
      OBVIOUS
    <2>2. CASE k \in 1 .. l
      BY <1>2, <2>1, <2>2 DEF Rising
    <2>3. CASE k = l + 1
      BY <1>2, <1>4, <2>1, <2>3
    <2>4. QED
      BY <1>3, <2>2, <2>3
  <1>6. \A k \in 1 .. l + 1 : more[k] < n + 1
    BY <1>2, <1>3, <1>4
  <1>7. QED
    BY <1>1, <1>2, <1>3, <1>5, <1>6

\* The fetched body that is taken is the one of the hash the loop is at, and what
\* is left of the answer belongs to the places that follow.
LEMMA TakesItsOwnBody ==
    ASSUME TypeInv, pc = "merge_insert", NEW hashes, BodiesSoFar(hashes)
    PROVE  /\ fetched[1] = hashes[i]
           /\ absent' = absent /\ i' = i + 1 /\ fetched' = RemoveAt(fetched, 1)
                => \E c \in 0 .. Len(absent) : Pending(c, hashes)'
  <1>1. /\ Rising(absent) /\ i \in Range(absent) /\ absent \in Seq(Nat \ {0})
        /\ fetched \in Seq(Block) /\ fetched # <<>> /\ i \in Nat \ {0}
    BY DEF BodiesSoFar, TypeInv, LoopInv
  <1>2. PICK c \in 0 .. Len(absent) : Pending(c, hashes)
    BY DEF BodiesSoFar
  <1>3. PICK n \in Nat : n = Len(absent) /\ DOMAIN absent = 1 .. n
    BY <1>1
  <1>4. \A k \in 1 .. n : absent[k] \in Nat \ {0}
    BY <1>1, <1>3
  <1>5. 1 \in DOMAIN fetched
    BY <1>1
  <1>6. /\ c + 1 \in 1 .. n /\ fetched[1] = hashes[absent[c + 1]]
        /\ \A k \in 1 .. c : absent[k] < i
        /\ \A k \in 1 .. n : k > c => absent[k] >= i
        /\ \A q \in DOMAIN fetched :
             c + q \in 1 .. n /\ fetched[q] = hashes[absent[c + q]]
    BY <1>1, <1>2, <1>3, <1>5 DEF Pending
  <1>7. absent[c + 1] = i
    <2>1. PICK k \in 1 .. n : absent[k] = i
      BY <1>1, <1>3 DEF Range
    <2>2. ~(k <= c)
      <3>1. ASSUME k <= c PROVE FALSE
        <4>1. k \in 1 .. c
          BY <1>3, <1>6, <2>1, <3>1
        <4>2. absent[k] < i
          BY <1>6, <4>1
        <4>3. QED
          BY <1>1, <2>1, <4>2
      <3>2. QED
        BY <3>1
    <2>3. ~(c + 1 < k)
      <3>1. ASSUME c + 1 < k PROVE absent[c + 1] < absent[k]
        BY <1>1, <1>3, <1>6, <3>1 DEF Rising
      <3>2. absent[c + 1] \in Nat /\ absent[c + 1] >= i
        BY <1>4, <1>6
      <3>3. QED
        BY <1>1, <2>1, <3>1, <3>2
    <2>4. k = c + 1
      BY <2>2, <2>3
    <2>5. QED
      BY <2>1, <2>4
  <1>8. ASSUME absent' = absent, i' = i + 1, fetched' = RemoveAt(fetched, 1)
        PROVE  \E d \in 0 .. Len(absent) : Pending(d, hashes)'
    <2>1. \A k \in 1 .. c + 1 : absent'[k] < i'
      <3>1. ASSUME NEW k \in 1 .. c + 1 PROVE absent[k] < i + 1
        <4>1. CASE k \in 1 .. c
          <5>1. k \in 1 .. n /\ absent[k] < i
            BY <1>3, <1>6, <4>1
          <5>2. QED
            BY <1>1, <1>4, <5>1
        <4>2. CASE k = c + 1
          BY <1>1, <1>7, <4>2
        <4>3. QED
          BY <4>1, <4>2
      <3>2. QED
        BY <1>8, <3>1
    <2>2. \A k \in DOMAIN absent' : k > c + 1 => absent'[k] >= i'
      <3>1. ASSUME NEW k \in 1 .. n, k > c + 1 PROVE absent[k] >= i + 1
        <4>1. absent[c + 1] < absent[k]
          BY <1>1, <1>3, <1>6, <3>1 DEF Rising
        <4>2. QED
          BY <1>1, <1>4, <1>7, <4>1
      <3>2. QED
        BY <1>3, <1>8, <3>1
    <2>3. \A q \in DOMAIN fetched' :
             (c + 1) + q \in DOMAIN absent' /\ fetched'[q] = hashes[absent'[(c + 1) + q]]
      <3>1. ASSUME NEW q \in DOMAIN fetched'
            PROVE  (c + 1) + q \in 1 .. n /\ fetched'[q] = hashes[absent[(c + 1) + q]]
        <4>1. q \in Nat \ {0} /\ q + 1 \in DOMAIN fetched /\ fetched'[q] = fetched[q + 1]
          BY <1>1, <1>8, RestOfAnswer
        <4>2. c + (q + 1) = (c + 1) + q
          BY <4>1
        <4>3. c + (q + 1) \in 1 .. n /\ fetched[q + 1] = hashes[absent[c + (q + 1)]]
          BY <1>6, <4>1
        <4>4. QED
          BY <4>1, <4>2, <4>3
      <3>2. QED
        BY <1>3, <1>8, <3>1
    <2>4. Pending(c + 1, hashes)'
      BY <2>1, <2>2, <2>3 DEF Pending
    <2>5. c + 1 \in 0 .. Len(absent)
      BY <1>3, <1>6
    <2>6. QED
      BY <2>4, <2>5
  <1>9. QED
    BY <1>6, <1>7, <1>8

\* The loops over the hashes gather the bodies in the order of the request.
LEMMA BodyWork ==
    ASSUME TypeInv, BodiesMatchHash(cache), BodiesSoFar(job.req.hashes), ~raced', aligned',
           \/ resolve_bodies \/ bodies_incomplete \/ collect_missing \/ fetch_bodies
           \/ merge_body \/ insert_fetched_body
    PROVE  BodiesSoFar(job.req.hashes)'
  <1>1. /\ LoopInv /\ IsBlockCache(cache) /\ job.req \in Requests /\ job.req.kind = "bodies"
        /\ job' = job
    <2>1. pc \in {"bodies", "missing", "merge", "merge_insert"} /\ job' = job
      BY DEF resolve_bodies, bodies_incomplete, collect_missing, fetch_bodies, merge_body,
             insert_fetched_body
    <2>2. QED
      BY <2>1 DEF TypeInv, ChannelInv, Doing
  <1>2. PICK hashes \in Seq(Block), N \in Nat :
          hashes = job.req.hashes /\ hashes = job'.req.hashes /\ N = Len(hashes)
    BY <1>1, RequestsAssumption DEF IsRequest
  <1>3. BodiesSoFar(hashes)
    BY <1>2
  <1>4. /\ i \in Nat \ {0} /\ found \in Seq(Block) /\ missing \in Seq(Block)
        /\ absent \in Seq(Nat \ {0}) /\ fetched \in Seq(Block) /\ all_bodies \in Seq(Block)
        /\ pc \in {"bodies", "missing", "merge"} => i <= N + 1
    BY <1>1, <1>2 DEF LoopInv
  <1>5. i <= N => hashes[i] \in Block
    BY <1>2, <1>4, ElementAt
  <1>6. SUFFICES BodiesSoFar(hashes)'
    BY <1>2
  <1>7. CASE resolve_bodies
    <2>1. /\ pc = "bodies" /\ pc' = "bodies" /\ i <= N /\ i' = i + 1
          /\ found' = found \o SetToSeq(get_body_by_hash(cache, hashes[i]))
          /\ UNCHANGED <<missing, absent, all_bodies>>
      BY <1>2, <1>7 DEF resolve_bodies
    <2>2. UpTo(found, hashes, i - 1) /\ missing = <<>> /\ absent = <<>> /\ all_bodies = <<>>
      BY <1>3, <2>1 DEF BodiesSoFar
    <2>3. PICK h \in Block : h = hashes[i]
      BY <1>5, <2>1
    <2>4. found' = found \/ found' = Append(found, h)
      <3>1. SetToSeq(get_body_by_hash(cache, h)) \in {<<>>, <<h>>}
        BY <1>1, OwnBody
      <3>2. found' = found \o <<>> \/ found' = found \o <<h>>
        BY <2>1, <2>3, <3>1
      <3>3. found \o <<>> = found /\ found \o <<h>> = Append(found, h)
        BY <1>4
      <3>4. QED
        BY <3>2, <3>3
    <2>5. UpTo(found', hashes, (i + 1) - 1)
      BY <1>4, <2>2, <2>3, <2>4, UpToNext
    <2>6. QED
      BY <2>1, <2>2, <2>5 DEF BodiesSoFar, UpTo
  <1>8. CASE bodies_incomplete
    <2>1. /\ pc = "bodies" /\ pc' = "missing" /\ i > N
          /\ UNCHANGED <<found, missing, absent, all_bodies>>
      BY <1>2, <1>8 DEF bodies_incomplete
    <2>2. i - 1 = N
      BY <1>4, <2>1
    <2>3. UpTo(found, hashes, N) /\ missing = <<>> /\ absent = <<>> /\ all_bodies = <<>>
      BY <1>3, <2>1, <2>2 DEF BodiesSoFar
    <2>4. Rising(<<>>) /\ DOMAIN <<>> = {}
      BY DEF Rising
    <2>5. QED
      BY <1>2, <2>1, <2>3, <2>4 DEF BodiesSoFar, UpTo, Rising
  <1>9. CASE collect_missing
    <2>1. /\ pc = "missing" /\ pc' = "missing" /\ i <= N /\ i' = i + 1
          /\ UNCHANGED <<found, all_bodies>>
          /\ \/ missing' = Append(missing, hashes[i]) /\ absent' = Append(absent, i)
             \/ missing' = missing /\ absent' = absent
      BY <1>2, <1>9 DEF collect_missing
    <2>2. /\ UpTo(found, hashes, Len(hashes)) /\ all_bodies = <<>>
          /\ Len(absent) = Len(missing) /\ Rising(absent)
          /\ \A k \in DOMAIN absent : absent[k] < i /\ missing[k] = hashes[absent[k]]
      BY <1>3, <2>1 DEF BodiesSoFar
    <2>3. PICK n \in Nat : n = Len(absent) /\ DOMAIN absent = 1 .. n
      BY <1>4
    <2>4. absent \in Seq(Nat) /\ i \in Nat /\ \A k \in 1 .. n : absent[k] \in Nat
      BY <1>4, <2>3
    <2>5. CASE missing' = missing /\ absent' = absent
      <3>1. \A k \in DOMAIN absent' : absent'[k] < i' /\ missing'[k] = hashes[absent'[k]]
        BY <2>1, <2>2, <2>3, <2>4, <2>5
      <3>2. UpTo(found, hashes, Len(hashes))'
        BY <2>1, <2>2 DEF UpTo
      <3>3. Rising(absent)'
        BY <2>2, <2>5 DEF Rising
      <3>4. QED
        BY <2>1, <2>2, <2>5, <3>1, <3>2, <3>3 DEF BodiesSoFar
    <2>6. CASE missing' = Append(missing, hashes[i]) /\ absent' = Append(absent, i)
      <3>1. PICK h \in Block : h = hashes[i]
        BY <1>5, <2>1
      <3>2. /\ DOMAIN absent' = 1 .. n + 1 /\ Len(absent') = n + 1 /\ absent'[n + 1] = i
            /\ \A k \in 1 .. n : absent'[k] = absent[k]
        BY <2>3, <2>4, <2>6
      <3>3. /\ Len(missing') = n + 1 /\ missing'[n + 1] = h
            /\ \A k \in 1 .. n : missing'[k] = missing[k]
        BY <1>4, <2>2, <2>3, <2>6, <3>1
      <3>4. PICK longer : longer = Append(absent, i)
        OBVIOUS
      <3>5. Rising(longer) /\ \A k \in DOMAIN longer : longer[k] < i + 1
        BY <2>2, <2>4, <3>4, RisingNext
      <3>6. Rising(absent') /\ \A k \in DOMAIN absent' : absent'[k] < i'
        BY <2>1, <2>6, <3>4, <3>5
      <3>7. \A k \in DOMAIN absent' : missing'[k] = hashes[absent'[k]]
        <4>1. \A k \in 1 .. n + 1 : k \in 1 .. n \/ k = n + 1
          OBVIOUS
        <4>2. QED
          BY <2>2, <2>3, <3>1, <3>2, <3>3, <4>1
      <3>8. Len(absent') = Len(missing')
        BY <3>2, <3>3
      <3>9. UpTo(found, hashes, Len(hashes))' /\ Rising(absent)'
        BY <2>1, <2>2, <3>6 DEF UpTo, Rising
      <3>10. QED
        BY <2>1, <2>2, <3>6, <3>7, <3>8, <3>9 DEF BodiesSoFar
    <2>7. QED
      BY <2>1, <2>5, <2>6
  <1>10. CASE fetch_bodies
    <2>1. /\ pc = "missing" /\ pc' = "merge" /\ i' = 1
          /\ UNCHANGED <<missing, absent, all_bodies>>
          /\ fetched' \in BodyAnswers(missing) /\ IsPrefix(fetched', missing)
      BY <1>10 DEF fetch_bodies
    <2>2. /\ all_bodies = <<>> /\ Len(absent) = Len(missing) /\ Rising(absent)
          /\ \A k \in DOMAIN absent : missing[k] = hashes[absent[k]]
      BY <1>3, <2>1 DEF BodiesSoFar
    <2>3. PICK n \in Nat : n = Len(absent) /\ DOMAIN absent = 1 .. n
      BY <1>4
    <2>4. PICK answer \in Seq(Block), l \in Nat :
            answer = fetched' /\ l = Len(answer) /\ DOMAIN answer = 1 .. l
      <3>1. fetched' \in Seq(Block)
        BY <1>4, <2>1, BodyAnswer
      <3>2. QED
        BY <3>1
    <2>5. l <= n /\ \A q \in 1 .. l : answer[q] = missing[q]
      <3>1. l <= Len(missing) /\ SubSeq(answer, 1, l) = SubSeq(missing, 1, l)
        BY <2>1, <2>4 DEF IsPrefix
      <3>2. \A q \in 1 .. l : SubSeq(answer, 1, l)[q] = answer[q]
                              /\ SubSeq(missing, 1, l)[q] = missing[q]
        BY <1>4, <2>4, <3>1
      <3>3. QED
        BY <2>2, <2>3, <3>1, <3>2
    <2>6. \A q \in DOMAIN fetched' :
             0 + q \in DOMAIN absent /\ fetched'[q] = hashes[absent[0 + q]]
      <3>1. ASSUME NEW q \in 1 .. l PROVE 0 + q = q /\ q \in 1 .. n
        BY <2>5
      <3>2. QED
        BY <2>2, <2>3, <2>4, <2>5, <3>1
    <2>7. \A k \in DOMAIN absent : absent[k] >= 1
      <3>1. \A k \in 1 .. n : absent[k] \in Nat \ {0}
        BY <1>4, <2>3
      <3>2. QED
        BY <2>3, <3>1
    <2>8. Pending(0, hashes)' /\ 0 \in 0 .. Len(absent)
      BY <2>1, <2>3, <2>6, <2>7 DEF Pending
    <2>9. UpTo(<<>>, hashes, 1 - 1)
      BY UpToNothing
    <2>10. UpTo(all_bodies, hashes, i - 1)'
      BY <2>1, <2>2, <2>9 DEF UpTo
    <2>11. Rising(absent)' /\ \E c \in 0 .. Len(absent') : Pending(c, hashes)'
      BY <2>1, <2>2, <2>8 DEF Rising
    <2>12. QED
      BY <2>1, <2>10, <2>11 DEF BodiesSoFar
  <1>11. CASE merge_body
    <2>1. /\ pc = "merge" /\ i <= N /\ UNCHANGED <<absent, fetched>>
          /\ all_bodies' = all_bodies \o SetToSeq(get_body_by_hash(cache, hashes[i]))
          /\ get_body_by_hash(cache, hashes[i]) = {} <=> i \in Range(absent)
          /\ IF get_body_by_hash(cache, hashes[i]) = {} /\ fetched # <<>>
             THEN pc' = "merge_insert" /\ i' = i ELSE pc' = pc /\ i' = i + 1
      BY <1>2, <1>11 DEF merge_body, TypeInv
    <2>2. UpTo(all_bodies, hashes, i - 1) /\ Rising(absent)
      BY <1>3, <2>1 DEF BodiesSoFar
    <2>3. PICK c \in 0 .. Len(absent) : Pending(c, hashes)
      BY <1>3, <2>1 DEF BodiesSoFar
    <2>4. PICK h \in Block : h = hashes[i]
      BY <1>5, <2>1
    <2>5. SetToSeq(get_body_by_hash(cache, h)) = IF get_body_by_hash(cache, h) = {} THEN <<>>
                                                                                ELSE <<h>>
      BY <1>1, OwnBody
    <2>6. CASE get_body_by_hash(cache, h) = {} /\ fetched # <<>>
      <3>1. pc' = "merge_insert" /\ i' = i /\ all_bodies' = all_bodies /\ i \in Range(absent)
        BY <1>4, <2>1, <2>4, <2>5, <2>6
      <3>2. Pending(c, hashes)'
        BY <2>1, <2>3, <3>1 DEF Pending
      <3>3. UpTo(all_bodies, hashes, i - 1)' /\ Rising(absent)'
        BY <2>1, <2>2, <3>1 DEF UpTo, Rising
      <3>4. i' \in Range(absent')
        BY <2>1, <3>1
      <3>5. \E d \in 0 .. Len(absent') : Pending(d, hashes)'
        BY <2>1, <2>3, <3>2
      <3>6. QED
        BY <3>1, <3>3, <3>4, <3>5 DEF BodiesSoFar
    <2>7. CASE ~(get_body_by_hash(cache, h) = {} /\ fetched # <<>>)
      <3>1. /\ pc' = "merge" /\ i' = i + 1
            /\ all_bodies' = all_bodies \/ all_bodies' = Append(all_bodies, h)
            /\ fetched # <<>> => i \notin Range(absent)
        <4>1. pc' = "merge" /\ i' = i + 1 /\ (fetched # <<>> => i \notin Range(absent))
          BY <2>1, <2>4, <2>7
        <4>2. all_bodies' = all_bodies \o <<>> \/ all_bodies' = all_bodies \o <<h>>
          BY <2>1, <2>4, <2>5
        <4>3. all_bodies \o <<>> = all_bodies /\ all_bodies \o <<h>> = Append(all_bodies, h)
          <5>1. all_bodies \in Seq(Block)
            BY <1>4
          <5>2. QED
            BY <5>1
        <4>4. QED
          BY <4>1, <4>2, <4>3
      <3>2. UpTo(all_bodies', hashes, (i + 1) - 1)
        BY <1>4, <2>2, <2>4, <3>1, UpToNext
      <3>3. PICK n \in Nat : n = Len(absent) /\ DOMAIN absent = 1 .. n
        BY <1>4
      <3>4. \A k \in 1 .. n : absent[k] \in Nat
        BY <1>4, <3>3
      <3>5. \A k \in 1 .. c : absent'[k] < i'
        <4>1. \A k \in 1 .. c : k \in 1 .. n /\ absent[k] < i
          BY <2>3, <3>3 DEF Pending
        <4>2. ASSUME NEW k \in 1 .. c PROVE absent[k] < i + 1
          <5>1. absent[k] \in Nat /\ absent[k] < i
            BY <3>4, <4>1
          <5>2. i \in Nat
            BY <1>4
          <5>3. QED
            BY <5>1, <5>2
        <4>3. QED
          BY <2>1, <3>1, <4>2
      <3>6. fetched' # <<>> => \A k \in DOMAIN absent' : k > c => absent'[k] >= i'
        <4>1. ASSUME fetched # <<>>, NEW k \in 1 .. n, k > c PROVE absent[k] >= i + 1
          <5>1. absent[k] >= i /\ absent[k] # i /\ absent[k] \in Nat
            BY <2>3, <3>1, <3>3, <3>4, <4>1 DEF Pending, Range
          <5>2. QED
            BY <1>4, <5>1
        <4>2. QED
          BY <2>1, <3>1, <3>3, <4>1
      <3>7. Pending(c, hashes)'
        BY <2>1, <2>3, <3>5, <3>6 DEF Pending
      <3>8. UpTo(all_bodies, hashes, i - 1)' /\ Rising(absent)'
        BY <2>1, <2>2, <3>1, <3>2 DEF UpTo, Rising
      <3>9. \E d \in 0 .. Len(absent') : Pending(d, hashes)'
        BY <2>1, <2>3, <3>7
      <3>10. QED
        BY <3>1, <3>8, <3>9 DEF BodiesSoFar
    <2>8. QED
      BY <2>6, <2>7
  <1>12. CASE insert_fetched_body
    <2>1. /\ pc = "merge_insert" /\ pc' = "merge" /\ i' = i + 1 /\ absent' = absent
          /\ all_bodies' = Append(all_bodies, fetched[1])
          /\ fetched' = RemoveAt(fetched, 1)
      BY <1>12 DEF insert_fetched_body, next_fetched
    <2>2. /\ fetched[1] = hashes[i] /\ i <= N
          /\ \E c \in 0 .. Len(absent) : Pending(c, hashes)'
      BY <1>1, <1>2, <1>3, <2>1, TakesItsOwnBody DEF LoopInv
    <2>3. UpTo(all_bodies, hashes, i - 1) /\ Rising(absent)
      BY <1>3, <2>1 DEF BodiesSoFar
    <2>4. UpTo(all_bodies', hashes, (i + 1) - 1)
      BY <1>4, <1>5, <2>1, <2>2, <2>3, UpToNext
    <2>5. UpTo(all_bodies, hashes, i - 1)' /\ Rising(absent)'
      BY <2>1, <2>3, <2>4 DEF UpTo, Rising
    <2>6. \E d \in 0 .. Len(absent') : Pending(d, hashes)'
      BY <2>1, <2>2
    <2>7. QED
      BY <2>1, <2>5, <2>6 DEF BodiesSoFar
  <1>13. QED
    BY <1>7, <1>8, <1>9, <1>10, <1>11, <1>12

\* Every answer to a body request holds bodies in the order of the request.
LEMMA BodyAnswered ==
    ASSUME TypeInv, BodiesSoFar(job.req.hashes), Answers
    PROVE  /\ pc' = "recv" /\ UNCHANGED <<cache, raced, aligned>>
           /\ response'.req.kind = "bodies" =>
                InRequestOrder(response'.payload, response'.req.hashes)
  <1>1. /\ pc # "recv" /\ job.req \in Requests /\ Doing(pc, job.req) /\ pc' = "recv"
        /\ LoopInv /\ UNCHANGED <<cache, raced, aligned>>
    BY AnswerStep DEF TypeInv, ChannelInv, Respond, cacheVars, historyVars
  <1>2. PICK req \in Requests : req = job.req
    BY <1>1
  <1>3. ASSUME NEW payload, NEW from, Respond(payload, from),
               req.kind = "bodies" => InRequestOrder(payload, req.hashes)
        PROVE  response'.req.kind = "bodies" =>
                 InRequestOrder(response'.payload, response'.req.hashes)
    <2>1. response'.req = req /\ response'.payload = payload
      BY <1>2, <1>3 DEF Respond
    <2>2. QED
      BY <1>3, <2>1
  <1>4. CASE answer_without_data \/ headers_from_cache \/ fetch_headers_failed
             \/ headers_from_peer
    <2>1. req.kind # "bodies"
      BY <1>1, <1>2, <1>4 DEF answer_without_data, headers_from_cache, fetch_headers_failed,
                              headers_from_peer, HeadersResolved, Doing
    <2>2. PICK payload, from : Respond(payload, from)
      BY <1>1, AnswerStep
    <2>3. QED
      BY <1>1, <1>3, <2>1, <2>2
  <1>5. CASE bodies_from_cache \/ nothing_missing \/ fetch_bodies_failed \/ bodies_from_peer
    <2>1. pc \in {"bodies", "missing", "merge"} /\ i > Len(job.req.hashes)
      BY <1>5 DEF bodies_from_cache, nothing_missing, fetch_bodies_failed, bodies_from_peer
    <2>2. PICK hashes \in Seq(Block), N \in Nat : hashes = req.hashes /\ N = Len(hashes)
      <3>1. req.kind = "bodies"
        BY <1>1, <1>2, <2>1 DEF Doing
      <3>2. req.hashes \in Seq(Block)
        BY <3>1, RequestsAssumption DEF IsRequest
      <3>3. QED
        BY <3>2
    <2>3. i - 1 = N
      <3>1. i \in Nat \ {0} /\ i <= N + 1 /\ i > N
        BY <1>1, <1>2, <2>1, <2>2 DEF LoopInv
      <3>2. QED
        BY <3>1
    <2>4. PICK payload, from :
            /\ Respond(payload, from)
            /\ \/ payload = found /\ pc \in {"bodies", "missing"}
               \/ payload = all_bodies /\ pc = "merge"
      BY <1>5 DEF bodies_from_cache, nothing_missing, fetch_bodies_failed, bodies_from_peer
    <2>5. UpTo(payload, hashes, N)
      BY <1>2, <2>2, <2>3, <2>4 DEF BodiesSoFar
    <2>6. InRequestOrder(payload, hashes)
      BY <2>2, <2>5, UpToAll
    <2>7. QED
      BY <1>1, <1>3, <2>2, <2>4, <2>6
  <1>6. QED
    BY <1>1, <1>4, <1>5 DEF Answers

\* Every step stores a body under its own hash only.
LEMMA BodiesStayOwn ==
    ASSUME TypeInv, BodiesMatchHash(cache), BodiesSoFar(job.req.hashes), [Next]_vars
    PROVE  BodiesMatchHash(cache')
  <1>1. IsCacheRecord(cache)
    BY DEF TypeInv, IsBlockCache
  <1>2. CASE UNCHANGED cache
    BY <1>2
  <1>3. CASE \E block \in NewBlocks : ImportBlock(block)
    BY <1>1, <1>3, UpdateKeepsBodies DEF ImportBlock, on_new_block
  <1>4. CASE resolve_start
    BY <1>1, <1>4, UpdateKeepsBodies DEF resolve_start
  <1>5. CASE resolve_headers
    BY <1>1, <1>5, UpdateKeepsBodies DEF resolve_headers
  <1>6. CASE insert_fetched_header
    BY <1>1, <1>6, UpdateKeepsBodies DEF insert_fetched_header
  <1>7. CASE resolve_bodies
    BY <1>1, <1>7, UpdateKeepsBodies DEF resolve_bodies
  <1>8. CASE collect_missing
    BY <1>1, <1>8, UpdateKeepsBodies DEF collect_missing
  <1>9. CASE merge_body
    BY <1>1, <1>9, UpdateKeepsBodies DEF merge_body
  <1>10. CASE insert_fetched_body
    <2>1. PICK hashes : hashes = job.req.hashes
      OBVIOUS
    <2>2. pc = "merge_insert" /\ cache' = insert_body(cache, hashes[i], fetched[1])
      BY <1>10, <2>1 DEF insert_fetched_body, next_fetched
    <2>3. fetched[1] = hashes[i]
      BY <2>1, <2>2, TakesItsOwnBody
    <2>4. QED
      BY <1>1, <2>2, <2>3, UpdateKeepsBodies
  <1>11. CASE Answers
    BY <1>11, BodyAnswered
  <1>12. QED
    BY <1>2, <1>3, <1>4, <1>5, <1>6, <1>7, <1>8, <1>9, <1>10, <1>11
       DEF Next, start_eth_request_handler, Answers, DeliverRequest, Finished, recv,
           fetch_headers, bodies_incomplete, fetch_bodies, vars, cacheVars

\* The combining loop of GetBlockBodies is right as long as no body came into or
\* went out of the cache between the look-up of missing_hashes and the loop, and
\* every upstream answer was a first part of the bodies asked for; for every
\* capacity, every request, with a hash asked for twice too, and every length of
\* the upstream answer.
THEOREM BodiesCorrect == Spec => []BodiesExactUnlessRaced
  <1>1. Init => BodiesInv
    <2> SUFFICES ASSUME Init PROVE BodiesInv
      OBVIOUS
    <2>1. response.req.kind = "none" /\ pc = "recv"
      BY DEF Init, NoJob
    <2>2. BodiesMatchHash(cache)
      BY DEF Init, new, BodiesMatchHash, LruEmpty
    <2>3. QED
      BY <2>1, <2>2 DEF BodiesInv, BodiesSoFar
  <1>2. TypeInv /\ BodiesInv /\ [Next]_vars => BodiesInv'
    <2> SUFFICES ASSUME TypeInv, BodiesInv, [Next]_vars, ~raced', aligned' PROVE BodiesInv'
      BY DEF BodiesInv
    <2>1. ~raced /\ aligned
      <3>1. CASE UNCHANGED historyVars
        BY <3>1 DEF historyVars
      <3>2. CASE merge_body
        BY <3>2 DEF merge_body
      <3>3. CASE fetch_bodies
        BY <3>3 DEF fetch_bodies
      <3>4. CASE Answers
        BY <3>4, AnswerStep DEF TypeInv, historyVars
      <3>5. CASE \/ recv \/ resolve_start \/ resolve_headers \/ fetch_headers
                 \/ insert_fetched_header \/ resolve_bodies \/ bodies_incomplete
                 \/ collect_missing \/ insert_fetched_body
        BY <3>1, <3>5 DEF recv, resolve_start, resolve_headers, fetch_headers,
                          insert_fetched_header, resolve_bodies, bodies_incomplete,
                          collect_missing, insert_fetched_body, historyVars
      <3>6. QED
        BY <3>1, <3>2, <3>3, <3>4, <3>5
           DEF Next, start_eth_request_handler, Answers, ImportBlock, DeliverRequest, Finished,
               vars
    <2>2. /\ BodiesMatchHash(cache) /\ BodiesSoFar(job.req.hashes)
          /\ response.req.kind = "bodies" =>
               InRequestOrder(response.payload, response.req.hashes)
      BY <2>1 DEF BodiesInv
    <2>3. BodiesMatchHash(cache')
      BY <2>2, BodiesStayOwn
    <2>4. ASSUME BodiesSoFar(job.req.hashes)', response' = response PROVE BodiesInv'
      BY <2>2, <2>3, <2>4 DEF BodiesInv, InRequestOrder, BodiesMatchHash
    <2>5. CASE UNCHANGED <<pc, job, loopVars, response>>
      <3>1. BodiesSoFar(job.req.hashes)'
        BY <2>2, <2>5 DEF BodiesSoFar, Pending, UpTo, Rising, loopVars
      <3>2. QED
        BY <2>4, <2>5, <3>1
    <2>6. CASE recv
      <3>1. /\ Idle /\ response' = response /\ pc' \notin {"missing", "merge", "merge_insert"}
            /\ UNCHANGED <<i, found, missing, absent, all_bodies>>
        BY <2>6, RecvStep DEF TypeInv
      <3>2. PICK hashes : hashes = job'.req.hashes
        OBVIOUS
      <3>3. UpTo(<<>>, hashes, 1 - 1)
        BY UpToNothing
      <3>4. BodiesSoFar(job.req.hashes)'
        BY <3>1, <3>2, <3>3 DEF BodiesSoFar, Idle, UpTo
      <3>5. QED
        BY <2>4, <3>1, <3>4
    <2>7. CASE Answers
      <3>1. /\ pc' = "recv"
            /\ response'.req.kind = "bodies" =>
                 InRequestOrder(response'.payload, response'.req.hashes)
        BY <2>2, <2>7, BodyAnswered
      <3>2. QED
        BY <2>3, <3>1 DEF BodiesInv, BodiesSoFar, InRequestOrder, BodiesMatchHash
    <2>8. CASE resolve_start \/ resolve_headers \/ fetch_headers \/ insert_fetched_header
      <3>1. pc' \in {"headers", "insert_headers"} /\ response' = response
        BY <2>8 DEF resolve_start, resolve_headers, fetch_headers, insert_fetched_header
      <3>2. BodiesSoFar(job.req.hashes)'
        BY <3>1 DEF BodiesSoFar
      <3>3. QED
        BY <2>4, <3>1, <3>2
    <2>9. CASE \/ resolve_bodies \/ bodies_incomplete \/ collect_missing \/ fetch_bodies
               \/ merge_body \/ insert_fetched_body
      <3>1. BodiesSoFar(job.req.hashes)'
        BY <2>2, <2>9, BodyWork
      <3>2. response' = response
        BY <2>9 DEF resolve_bodies, bodies_incomplete, collect_missing, fetch_bodies,
                    merge_body, insert_fetched_body
      <3>3. QED
        BY <2>4, <3>1, <3>2
    <2>10. QED
      BY <2>5, <2>6, <2>7, <2>8, <2>9
         DEF Next, start_eth_request_handler, Answers, ImportBlock, DeliverRequest, Finished,
             vars
  <1>3. BodiesInv => BodiesExactUnlessRaced
    BY DEF BodiesInv, BodiesExactUnlessRaced, BodiesExact
  <1>4. QED
    BY <1>1, <1>2, <1>3, TypesStart, TypesKept, PTL DEF Spec
=============================================================================
