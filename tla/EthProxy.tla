------------------------------ MODULE EthProxy ------------------------------
(***************************************************************************)
(* eth_proxy.rs: the task that answers the ETH requests of peers from the  *)
(* block cache and, on a miss, from other peers through reth's FetchClient.*)
(*                                                                         *)
(* The handler is one sequential task. It shares the cache with the block  *)
(* import callback, which runs on another thread, so every lock of the     *)
(* cache is a step of its own and a NewBlock may be imported between any   *)
(* two of them, during the awaits in particular.                           *)
(***************************************************************************)
EXTENDS BlockImport, SequencesExt

CONSTANTS
    Requests,        \* the requests peers may send (see IsRequest)
    Views,           \* the chains of the upstream peers: number -> block
    NewBlocks,       \* the blocks that peers may announce
    UpstreamBodies,  \* the blocks of which the upstream peers may send the body
    BlockCacheSize,  \* block_cache_size of the configuration
    IncomingCap,     \* capacity of the request channel (256 in network.rs)
    MaxU64,          \* the largest block number
    MaxImports,      \* bound: announcements in a behaviour
    MaxRequests      \* bound: requests in a behaviour

\* A request names its kind and what the handler reads of it.
IsRequest(r) ==
    \/ /\ r.kind = "headers"
       /\ r.start \in [number : 0 .. MaxU64] \cup [hash : Block]
       /\ r.limit \in Nat /\ r.skip \in Nat /\ r.rising \in BOOLEAN
    \/ r.kind = "bodies" /\ r.hashes \in Seq(Block)
    \/ r.kind \in {"receipts", "block_access_lists", "node_data"}

ASSUME RequestsAssumption == \A r \in Requests : IsRequest(r)
ASSUME ViewsAssumption ==
    \A v \in Views : \A n \in DOMAIN v : v[n] \in Block /\ NumberOf[v[n]] = n
ASSUME BlocksAssumption ==
    /\ NewBlocks \subseteq Block /\ UpstreamBodies \subseteq Block
    /\ \A b \in Block : NumberOf[b] <= MaxU64
ASSUME BoundsAssumption ==
    /\ BlockCacheSize \in Nat /\ MaxU64 \in Nat
    /\ IncomingCap \in Nat \ {0} /\ MaxImports \in Nat /\ MaxRequests \in Nat

VARIABLES
    incoming,        \* the channel of requests, in order of arrival
    open,            \* the ids of the requests whose sender still waits for an answer
    pc,              \* where the handler is
    job,             \* the request being handled, with its id
    i,               \* index of the loop the handler is in
    current_number,  \* resolve_headers_from_cache: Option<u64>
    found,           \* headers or bodies the first pass took from the cache
    missing,         \* missing_hashes
    absent,          \* history: the places of missing_hashes in the request
    fetched,         \* what the upstream peer sent, not yet consumed
    all_bodies,      \* the bodies of the combined response
    response,        \* the last answer: its request, payload and origin
    \* Bounds and history:
    imports,         \* announcements so far
    received,        \* requests so far
    raced,           \* did a body appear or vanish between look-up and merge?
    aligned          \* was every upstream answer a first part of the bodies asked for?

historyVars == <<raced, aligned>>
cacheVars == <<cache, rebroadcast_rx, imports>>
channelVars == <<incoming, open, received>>
loopVars == <<i, current_number, found, missing, absent, fetched, all_bodies>>
vars == <<cacheVars, channelVars, pc, job, loopVars, response, historyVars>>

NoJob == [id |-> 0, req |-> [kind |-> "none"]]

NewLoop ==
    /\ i' = 1 /\ current_number' = {} /\ found' = <<>>
    /\ missing' = <<>> /\ absent' = <<>> /\ fetched' = <<>> /\ all_bodies' = <<>>

Init ==
    /\ cache = new(BlockCacheSize)
    /\ rebroadcast_rx = <<>>
    /\ incoming = <<>> /\ open = {} /\ received = 0 /\ imports = 0
    /\ pc = "recv" /\ job = NoJob
    /\ i = 1 /\ current_number = {} /\ found = <<>>
    /\ missing = <<>> /\ absent = <<>> /\ fetched = <<>> /\ all_bodies = <<>>
    /\ response = [req |-> NoJob.req, payload |-> <<>>, from |-> "none"]
    /\ raced = FALSE /\ aligned = TRUE
-----------------------------------------------------------------------------
(***************************************************************************)
(* The environment of the handler.                                         *)
(***************************************************************************)

\* The network manager imports an announced block (block_import.rs).
ImportBlock(block) ==
    /\ imports < MaxImports
    /\ on_new_block(block)
    /\ imports' = imports + 1
    /\ UNCHANGED <<channelVars, pc, job, loopVars, response, historyVars>>

\* The network manager hands a request over; a full channel drops it.
DeliverRequest(r) ==
    /\ received < MaxRequests
    /\ received' = received + 1
    /\ \/ /\ Len(incoming) < IncomingCap
          /\ incoming' = Append(incoming, [id |-> received', req |-> r])
          /\ open' = open \cup {received'}
       \/ /\ Len(incoming) >= IncomingCap
          /\ UNCHANGED <<incoming, open>>
    /\ UNCHANGED <<cacheVars, pc, job, loopVars, response, historyVars>>

\* The chain a peer with view v serves for a request: the run of headers from
\* the start in the direction asked for, without gaps. HeadersRequest has no
\* skip.
ViewRun(v, req) ==
    LET first == IF "number" \in DOMAIN req.start THEN req.start.number
                                                  ELSE NumberOf[req.start.hash]
        at(k) == IF req.rising THEN first + (k - 1) ELSE first - (k - 1)
        served == {k \in 1 .. req.limit : \A m \in 1 .. k : at(m) \in DOMAIN v}
        known == "hash" \in DOMAIN req.start =>
                    first \in DOMAIN v /\ v[first] = req.start.hash
    IN IF known THEN [k \in served |-> v[at(k)]] ELSE <<>>

\* The answers of get_headers: some peer's run, or a first part of it. This
\* takes the upstream peers to be honest, since the handler passes on what they
\* send.
HeaderAnswers(req) == UNION {Prefixes(ViewRun(v, req)) : v \in Views}

\* The bodies of a payload are those of hashes at increasing places.
InRequestOrder(payload, hashes) ==
    \E at \in [DOMAIN payload -> DOMAIN hashes] :
        /\ \A k \in DOMAIN payload : payload[k] = hashes[at[k]]
        /\ \A j, k \in DOMAIN payload : j < k => at[j] < at[k]

\* The answers of get_block_bodies: any bodies, at most as many as asked for.
\* The handler compares them with nothing, so they may be bodies of other
\* blocks, or leave some out.
BodyAnswers(hashes) == SeqOf(UpstreamBodies, Len(hashes))
-----------------------------------------------------------------------------
(***************************************************************************)
(* The handler.                                                            *)
(***************************************************************************)

\* response.send(..), or the drop of its channel; then the next iteration.
Respond(payload, from) ==
    /\ response' = [req |-> job.req, payload |-> payload, from |-> from]
    /\ open' = open \ {job.id}
    /\ pc' = "recv"
    /\ job' = NoJob
    /\ NewLoop
    /\ UNCHANGED <<incoming, received>>

\* incoming.recv() and the match on the request.
recv ==
    /\ pc = "recv" /\ incoming # <<>>
    /\ job' = Head(incoming)
    /\ incoming' = Tail(incoming)
    /\ LET req == Head(incoming).req IN
         /\ pc' = IF req.kind = "headers" /\ "hash" \in DOMAIN req.start THEN "start"
                                                                         ELSE req.kind
         /\ current_number' = IF req.kind = "headers" /\ "number" \in DOMAIN req.start
                              THEN {req.start.number} ELSE {}
    /\ UNCHANGED <<cacheVars, open, received, i, found, missing, absent, fetched,
                   all_bodies, response, historyVars>>

\* Receipts and access lists are answered with nothing; GetNodeData is dropped
\* and its channel with it.
answer_without_data ==
    /\ pc \in {"receipts", "block_access_lists", "node_data"}
    /\ Respond(<<>>, IF pc = "node_data" THEN "dropped" ELSE "nothing")
    /\ UNCHANGED <<cacheVars, historyVars>>

\* BlockHashOrNumber::Hash: the number of the header with that hash.
resolve_start ==
    /\ pc = "start"
    /\ pc' = "headers"
    /\ current_number' =
         {NumberOf[h] : h \in get_header_by_hash(cache, job.req.start.hash)}
    /\ cache' = touch_header_by_hash(cache, job.req.start.hash)
    /\ UNCHANGED <<rebroadcast_rx, imports, channelVars, job, i, found, missing,
                   absent, fetched, all_bodies, response, historyVars>>

\* A mutant of next_number: the addition wraps around.
next_number_wraps(n, req) ==
    IF req.rising THEN {(n + req.skip + 1) % (MaxU64 + 1)}
                  ELSE {m \in 0 .. MaxU64 : m + req.skip + 1 = n}

\* checked_add and checked_sub of the step skip + 1.
next_number(n, req) ==
    {m \in 0 .. MaxU64 : IF req.rising THEN m = n + req.skip + 1
                                       ELSE m + req.skip + 1 = n}

\* One iteration of the loop of resolve_headers_from_cache; a miss breaks.
resolve_headers ==
    /\ pc = "headers"
    /\ Len(found) < job.req.limit
    /\ \E n \in current_number :
         LET hit == get_header_by_number(cache, n) IN
           /\ found' = IF hit = {} THEN found ELSE Append(found, CHOOSE h \in hit : TRUE)
           /\ current_number' = IF hit = {} THEN {} ELSE next_number(n, job.req)
           /\ cache' = touch_header_by_number(cache, n)
    /\ UNCHANGED <<rebroadcast_rx, imports, channelVars, pc, job, i, missing, absent,
                   fetched, all_bodies, response, historyVars>>

HeadersResolved ==
    pc = "headers" /\ (current_number = {} \/ Len(found) >= job.req.limit)

\* A non-empty run is the answer.
headers_from_cache ==
    /\ HeadersResolved /\ found # <<>>
    /\ Respond(found, "cache")
    /\ UNCHANGED <<cacheVars, historyVars>>

\* Nothing cached: fetch_client.get_headers(..).await returns headers.
fetch_headers ==
    /\ HeadersResolved /\ found = <<>>
    /\ \E answer \in HeaderAnswers(job.req) : fetched' = answer
    /\ pc' = "insert_headers"
    /\ UNCHANGED <<cacheVars, channelVars, job, i, current_number, found, missing,
                   absent, all_bodies, response, historyVars>>

\* get_headers returns an error: an empty answer.
fetch_headers_failed ==
    /\ HeadersResolved /\ found = <<>>
    /\ Respond(<<>>, "error")
    /\ UNCHANGED <<cacheVars, historyVars>>

\* Cache the fetched headers, one lock each.
insert_fetched_header ==
    /\ pc = "insert_headers" /\ i <= Len(fetched)
    /\ cache' = insert_header(cache, fetched[i], fetched[i])
    /\ i' = i + 1
    /\ UNCHANGED <<rebroadcast_rx, imports, channelVars, pc, job, current_number, found,
                   missing, absent, fetched, all_bodies, response, historyVars>>

headers_from_peer ==
    /\ pc = "insert_headers" /\ i > Len(fetched)
    /\ Respond(fetched, "peer")
    /\ UNCHANGED <<cacheVars, historyVars>>

\* One iteration of resolve_bodies_from_cache.
resolve_bodies ==
    /\ pc = "bodies" /\ i <= Len(job.req.hashes)
    /\ LET hash == job.req.hashes[i] IN
         /\ found' = found \o SetToSeq(get_body_by_hash(cache, hash))
         /\ cache' = touch_body_by_hash(cache, hash)
    /\ i' = i + 1
    /\ UNCHANGED <<rebroadcast_rx, imports, channelVars, pc, job, current_number, missing,
                   absent, fetched, all_bodies, response, historyVars>>

\* Every body found: that is the answer.
bodies_from_cache ==
    /\ pc = "bodies" /\ i > Len(job.req.hashes)
    /\ Len(found) = Len(job.req.hashes) /\ found # <<>>
    /\ Respond(found, "cache")
    /\ UNCHANGED <<cacheVars, historyVars>>

bodies_incomplete ==
    /\ pc = "bodies" /\ i > Len(job.req.hashes)
    /\ Len(found) # Len(job.req.hashes) \/ found = <<>>
    /\ pc' = "missing"
    /\ i' = 1
    /\ UNCHANGED <<cacheVars, channelVars, job, current_number, found, missing, absent,
                   fetched, all_bodies, response, historyVars>>

\* One iteration of the filter that collects missing_hashes: a second look at
\* the cache.
collect_missing ==
    /\ pc = "missing" /\ i <= Len(job.req.hashes)
    /\ LET hash == job.req.hashes[i] IN
         /\ IF get_body_by_hash(cache, hash) = {}
            THEN missing' = Append(missing, hash) /\ absent' = Append(absent, i)
            ELSE UNCHANGED <<missing, absent>>
         /\ cache' = touch_body_by_hash(cache, hash)
    /\ i' = i + 1
    /\ UNCHANGED <<rebroadcast_rx, imports, channelVars, pc, job, current_number, found,
                   fetched, all_bodies, response, historyVars>>

\* Nothing missing any more: what the first pass found is the answer.
nothing_missing ==
    /\ pc = "missing" /\ i > Len(job.req.hashes) /\ missing = <<>>
    /\ Respond(found, "cache")
    /\ UNCHANGED <<cacheVars, historyVars>>

\* fetch_client.get_block_bodies(missing_hashes).await returns bodies.
fetch_bodies ==
    /\ pc = "missing" /\ i > Len(job.req.hashes) /\ missing # <<>>
    /\ \E answer \in BodyAnswers(missing) :
         /\ fetched' = answer
         /\ aligned' = (aligned /\ IsPrefix(answer, missing))
    /\ pc' = "merge"
    /\ i' = 1
    /\ UNCHANGED <<cacheVars, channelVars, job, current_number, found, missing, absent,
                   all_bodies, response, raced>>

\* A mutant: the error path forgets to answer.
fetch_bodies_failed_silent ==
    /\ pc = "missing" /\ i > Len(job.req.hashes) /\ missing # <<>>
    /\ pc' = "recv" /\ job' = NoJob
    /\ NewLoop
    /\ UNCHANGED <<cacheVars, channelVars, response, historyVars>>

\* get_block_bodies returns an error: the first pass is the answer.
fetch_bodies_failed ==
    /\ pc = "missing" /\ i > Len(job.req.hashes) /\ missing # <<>>
    /\ Respond(found, "error")
    /\ UNCHANGED <<cacheVars, historyVars>>

\* One iteration of the combining loop: the cached body, or else the next
\* fetched one, which is cached under this hash by a second lock.
merge_body ==
    /\ pc = "merge" /\ i <= Len(job.req.hashes)
    /\ LET hash == job.req.hashes[i]
           hit == get_body_by_hash(cache, hash) IN
         /\ all_bodies' = all_bodies \o SetToSeq(hit)
         /\ cache' = touch_body_by_hash(cache, hash)
         /\ raced' = (raced \/ (hit = {} <=> i \notin Range(absent)))
         /\ IF hit = {} /\ fetched # <<>>
            THEN pc' = "merge_insert" /\ i' = i
            ELSE pc' = pc /\ i' = i + 1
    /\ UNCHANGED <<rebroadcast_rx, imports, channelVars, job, current_number, found,
                   missing, absent, fetched, response, aligned>>

\* A mutant of next_fetched: the fetched bodies are consumed from the end.
next_fetched_last == Len(fetched)

\* fetched_iter.next(): where the next fetched body is.
next_fetched == 1

insert_fetched_body ==
    /\ pc = "merge_insert"
    /\ cache' = insert_body(cache, job.req.hashes[i], fetched[next_fetched])
    /\ all_bodies' = Append(all_bodies, fetched[next_fetched])
    /\ fetched' = RemoveAt(fetched, next_fetched)
    /\ pc' = "merge"
    /\ i' = i + 1
    /\ UNCHANGED <<rebroadcast_rx, imports, channelVars, job, current_number, found,
                   missing, absent, response, historyVars>>

bodies_from_peer ==
    /\ pc = "merge" /\ i > Len(job.req.hashes)
    /\ Respond(all_bodies, "peer")
    /\ UNCHANGED <<cacheVars, historyVars>>

start_eth_request_handler ==
    \/ recv \/ answer_without_data
    \/ resolve_start \/ resolve_headers \/ headers_from_cache
    \/ fetch_headers \/ fetch_headers_failed \/ insert_fetched_header \/ headers_from_peer
    \/ resolve_bodies \/ bodies_from_cache \/ bodies_incomplete
    \/ collect_missing \/ nothing_missing \/ fetch_bodies \/ fetch_bodies_failed
    \/ merge_body \/ insert_fetched_body \/ bodies_from_peer

\* The bounds are spent and every request is answered.
Finished ==
    /\ received = MaxRequests /\ imports = MaxImports
    /\ pc = "recv" /\ incoming = <<>>
    /\ UNCHANGED vars

Next ==
    \/ \E block \in NewBlocks : ImportBlock(block)
    \/ \E r \in Requests : DeliverRequest(r)
    \/ start_eth_request_handler
    \/ Finished

(***************************************************************************)
(* Fairness: the task is polled as long as it can go on, and FetchClient   *)
(* resolves every request, with an error at the latest when its own        *)
(* timeout expires, so no await of the handler lasts for ever.             *)
(***************************************************************************)
Spec == Init /\ [][Next]_vars /\ WF_vars(start_eth_request_handler)
-----------------------------------------------------------------------------
(***************************************************************************)
(* Properties.                                                             *)
(***************************************************************************)

\* The cache is well formed and within its capacity, the channel within its
\* own, and the handler's variables have the types of the code's.
TypeOK ==
    /\ IsBlockCache(cache)
    /\ rebroadcast_rx \in Seq(Block)
    /\ incoming \in Seq([id : Nat, req : Requests]) /\ Len(incoming) <= IncomingCap
    /\ open \subseteq 1 .. received
    /\ pc \in {"recv", "start", "headers", "insert_headers", "bodies", "missing", "merge",
               "merge_insert", "receipts", "block_access_lists", "node_data"}
    /\ job = NoJob \/ job \in [id : open, req : Requests]
    /\ i \in Nat \ {0}
    /\ current_number \subseteq 0 .. MaxU64
    /\ {found, missing, fetched, all_bodies} \subseteq Seq(Block) /\ absent \in Seq(Nat \ {0})
    /\ response.req \in Requests \cup {NoJob.req} /\ response.payload \in Seq(Block)
    /\ imports \in 0 .. MaxImports /\ received \in 0 .. MaxRequests
    /\ raced \in BOOLEAN /\ aligned \in BOOLEAN

\* The header indexes of the cache agree although import and handler write
\* them in any order and each map evicts by its own recency (insert,
\* insert_header and the promoting gets of block_cache.rs).
HeaderIndexesAgree == IndexesAgree(cache)

\* The numbers a header request asks for: the k-th is the start plus or minus
\* (k - 1) steps of skip + 1.
AskedNumbers(req, k) ==
    LET first == IF "number" \in DOMAIN req.start THEN req.start.number
                                                  ELSE NumberOf[req.start.hash]
        dist == (k - 1) * (req.skip + 1)
    IN IF req.rising THEN first + dist ELSE first - dist

\* A header answer is the run of numbers the peer asked for, no longer than
\* the limit and without gap or wrap-around, also when blocks are imported or
\* evicted while resolve_headers_from_cache walks the cache. The exception is a
\* proxied request with a skip, which HeadersRequest cannot carry.
HeadersInSequence ==
    response.req.kind = "headers" /\ (response.from = "peer" => response.req.skip = 0) =>
        /\ Len(response.payload) <= response.req.limit
        /\ \A k \in DOMAIN response.payload :
              NumberOf[response.payload[k]] = AskedNumbers(response.req, k)

\* A GetBlockBodies answer holds bodies of the hashes asked for, in the order
\* of the request, and every body is cached under its own hash (what the
\* combining loop is for, and what the bodies_by_hash map says of itself).
BodiesExact ==
    /\ BodiesMatchHash(cache)
    /\ response.req.kind = "bodies" => InRequestOrder(response.payload, response.req.hashes)

\* The combining loop of GetBlockBodies is right as long as no body came into
\* or went out of the cache between the look-up of missing_hashes and the
\* loop, and the upstream answers were first parts of the bodies asked for: then
\* every body is cached under its own hash and the bodies are sent in the order
\* of the request, however short the upstream answer is.
BodiesExactUnlessRaced == ~raced /\ aligned => BodiesExact

\* The same of upstream answers that were first parts of the bodies asked for,
\* whatever is imported or evicted while the handler waits.
BodiesExactIfAligned == aligned => BodiesExact

\* Every request taken into the channel is answered or its channel dropped:
\* no path through start_eth_request_handler forgets the response.
RequestsAnswered == \A id \in 1 .. MaxRequests : id \in open ~> id \notin open
=============================================================================
