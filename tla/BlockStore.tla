----------------------------- MODULE BlockStore -----------------------------
(***************************************************************************)
(* The block cache across restarts: load_from_file at start-up and         *)
(* save_to_file at shutdown (block_cache.rs), as start_sentry_network      *)
(* calls them, with crashes of the process at any point, in the middle of  *)
(* a save included. While the process runs, its tasks use the cache        *)
(* through the operations of BlockCache, one lock at a time.               *)
(*                                                                         *)
(* The file is the count of the blocks and the entries written so far; a   *)
(* part of an entry reads like no entry, because read_block_entry fails.   *)
(***************************************************************************)
EXTENDS BlockCache, SequencesExt

CONSTANTS
    Capacities,   \* the values block_cache_size is set to, one per start
    MaxOps,       \* bound: cache operations in a behaviour
    MaxStarts     \* bound: starts of the process in a behaviour

ASSUME StoreAssumption == Capacities \subseteq Nat /\ MaxOps \in Nat /\ MaxStarts \in Nat

VARIABLES
    process,      \* "down", "up" or "saving"
    cache,        \* the cache of the running process
    file,         \* block_cache.bin
    to_write,     \* the blocks save_to_file has still to write
    head,         \* the head chosen at the last start: latest(), an Option
    \* Bounds and history:
    ops, starts,
    loaded_from,  \* the file as it was at the last start
    fresh,        \* has the cache not been used since the last start?
    drained       \* the cache as it was when the last save began

vars == <<process, cache, file, to_write, head, ops, starts, loaded_from, fresh, drained>>

NoFile == [exists |-> FALSE, count |-> {}, entries |-> <<>>]

Init ==
    /\ process = "down" /\ cache = new(0) /\ file = NoFile /\ to_write = <<>> /\ head = {}
    /\ ops = 0 /\ starts = 0 /\ loaded_from = NoFile /\ fresh = FALSE /\ drained = new(0)

\* A mutant of Earlier: the recency order of the map, not sorted.
Earlier_recency(c, m, n) == c.hash_by_number[m].age < c.hash_by_number[n].age

\* The order of sort_by_key.
Earlier(c, m, n) == m < n

\* The blocks that have all three of hash, header and body, by number.
drain_blocks(c) ==
    LET complete == {n \in DOMAIN c.hash_by_number :
                       /\ contains(c.headers_by_number, n)
                       /\ contains(c.bodies_by_hash, peek(c.hash_by_number, n))}
        order == CHOOSE s \in SetToSeqs(complete) :
                     \A j, k \in DOMAIN s : j < k => Earlier(c, s[j], s[k])
    IN [k \in DOMAIN order |->
          LET hash == peek(c.hash_by_number, order[k])
          IN [hash |-> hash, header |-> peek(c.headers_by_number, order[k]),
              body |-> peek(c.bodies_by_hash, hash)]]

\* A mutant of load_from_file: a torn file is rejected as a whole.
load_all_or_nothing(c, f) ==
    IF f.count = {Len(f.entries)}
    THEN FoldLeft(LAMBDA d, e : insert(d, e.hash, e.header, e.body), c, f.entries)
    ELSE c

\* load_from_file: no file or no count, nothing is loaded; else entries are
\* inserted in order, at most min(count, capacity), until one cannot be read.
load_from_file(c, f) ==
    LET load_count == UNION {1 .. (IF n < c.capacity THEN n ELSE c.capacity) : n \in f.count}
        readable == DOMAIN f.entries \cap load_count
    IN FoldLeft(LAMBDA d, k : insert(d, f.entries[k].hash, f.entries[k].header, f.entries[k].body),
                c, [k \in readable |-> k])

\* The process starts: new cache, restored from disk; its latest block is the
\* head announced to peers.
start(capacity) ==
    /\ process = "down" /\ starts < MaxStarts
    /\ process' = "up"
    /\ cache' = load_from_file(new(capacity), file)
    /\ head' = latest(cache')
    /\ starts' = starts + 1
    /\ loaded_from' = file
    /\ fresh' = TRUE
    /\ UNCHANGED <<file, to_write, ops, drained>>

\* The tasks of the process use the cache, until main returns.
CacheOperation(c) ==
    /\ process \in {"up", "saving"} /\ ops < MaxOps
    /\ cache' = c
    /\ ops' = ops + 1
    /\ fresh' = FALSE
    /\ UNCHANGED <<process, file, to_write, head, starts, loaded_from, drained>>

\* Announced blocks are inserted whole; the request handler (EthProxy) inserts
\* fetched headers and bodies, a body not always under its own hash, and
\* promotes the entries it reads.
ImportBlock(b)     == CacheOperation(insert(cache, b, b, b))
ProxyHeader(b)     == CacheOperation(insert_header(cache, b, b))
ProxyBody(b, body) == CacheOperation(insert_body(cache, b, body))
ReadHeader(n)      == CacheOperation(touch_header_by_number(cache, n))
ReadBody(b)        == CacheOperation(touch_body_by_hash(cache, b))

\* Shutdown: save_to_file drains the cache and creates (truncates) the file.
begin_save ==
    /\ process = "up"
    /\ process' = "saving"
    /\ to_write' = drain_blocks(cache)
    /\ file' = [exists |-> TRUE, count |-> {}, entries |-> <<>>]
    /\ drained' = cache
    /\ UNCHANGED <<cache, head, ops, starts, loaded_from, fresh>>

write_count ==
    /\ process = "saving" /\ file.count = {}
    /\ file' = [file EXCEPT !.count = {Len(to_write)}]
    /\ UNCHANGED <<process, cache, to_write, head, ops, starts, loaded_from, fresh, drained>>

write_entry ==
    /\ process = "saving" /\ file.count # {} /\ to_write # <<>>
    /\ file' = [file EXCEPT !.entries = Append(@, Head(to_write))]
    /\ to_write' = Tail(to_write)
    /\ UNCHANGED <<process, cache, head, ops, starts, loaded_from, fresh, drained>>

\* Everything is written; the process ends.
stop ==
    /\ process = "saving" /\ file.count # {} /\ to_write = <<>>
    /\ process' = "down"
    /\ UNCHANGED <<cache, file, to_write, head, ops, starts, loaded_from, fresh, drained>>

\* The process is killed, or a write fails and the shutdown goes on without it.
crash ==
    /\ process \in {"up", "saving"}
    /\ process' = "down"
    /\ to_write' = <<>>
    /\ UNCHANGED <<cache, file, head, ops, starts, loaded_from, fresh, drained>>

Finished == process = "down" /\ starts = MaxStarts /\ UNCHANGED vars

Next ==
    \/ \E capacity \in Capacities : start(capacity)
    \/ \E b \in Block : ImportBlock(b) \/ ProxyHeader(b) \/ ReadBody(b)
    \/ \E b, body \in Block : ProxyBody(b, body)
    \/ \E b \in Block : ReadHeader(NumberOf[b])
    \/ begin_save \/ write_count \/ write_entry \/ stop \/ crash
    \/ Finished

Spec == Init /\ [][Next]_vars
-----------------------------------------------------------------------------
(***************************************************************************)
(* Properties.                                                             *)
(***************************************************************************)

Entry == [hash : Block, header : Block, body : Block]

\* The cache is well formed and the file holds block entries, never more of
\* them than it announces.
TypeOK ==
    /\ process \in {"down", "up", "saving"}
    /\ IsBlockCache(cache) /\ IsBlockCache(drained)
    /\ file.entries \in Seq(Entry) /\ to_write \in Seq(Entry)
    /\ \A n \in file.count : Len(file.entries) <= n
    /\ head \subseteq [hash : Block, header : Block]
    /\ ops \in 0 .. MaxOps /\ starts \in 0 .. MaxStarts

\* The blocks a start with this cache can take from the file.
Restorable ==
    {loaded_from.entries[k] : k \in {m \in DOMAIN loaded_from.entries : m <= cache.capacity}}

\* Whatever a crash left of the file, load_from_file restores each block that
\* was written whole, up to the capacity and no other, with header and body
\* under its hash and number: the load itself evicts nothing.
LoadRestoresWritten ==
    fresh =>
        /\ DOMAIN cache.bodies_by_hash = {e.hash : e \in Restorable}
        /\ DOMAIN cache.headers_by_hash = {e.hash : e \in Restorable}
        /\ \A e \in Restorable :
             /\ Lookup(cache.hash_by_number, NumberOf[e.header]) = {e.hash}
             /\ Lookup(cache.headers_by_number, NumberOf[e.header]) = {e.header}
             /\ Lookup(cache.bodies_by_hash, e.hash) = {e.body}

\* The file never mixes blocks: an entry's header is that of its hash and its
\* body the one the cache held under that hash when the save began, in a torn
\* file too, and numbers ascend strictly (drain_blocks).
EntriesIntact ==
    /\ \A k \in DOMAIN file.entries :
         LET e == file.entries[k]
         IN e.header = e.hash /\ {e.body} = Lookup(drained.bodies_by_hash, e.hash)
    /\ \A j, k \in DOMAIN file.entries :
         j < k => NumberOf[file.entries[j].header] < NumberOf[file.entries[k].header]

\* The head announced after a start is the newest block restored, and there is
\* none only when nothing was restored.
HeadIsNewestRestored ==
    fresh =>
        /\ (head = {}) = (Restorable = {})
        /\ \A h \in head, e \in Restorable :
             h.header = h.hash /\ NumberOf[e.header] <= NumberOf[h.header]

\* A completed save holds every block whose header and body the cache had.
SavedAllBlocks ==
    process = "saving" /\ file.count # {} /\ to_write = <<>> =>
        \A n \in DOMAIN drained.headers_by_number :
            LET b == peek(drained.headers_by_number, n)
            IN b \in DOMAIN drained.bodies_by_hash =>
                 \E k \in DOMAIN file.entries : file.entries[k].hash = b

\* A start restores the most recent blocks of the file, as many as the maps of
\* the new cache hold.
RestoresRecent ==
    fresh => \A k \in DOMAIN loaded_from.entries :
               k > Len(loaded_from.entries) - Cap(cache) =>
                   loaded_from.entries[k].hash \in DOMAIN cache.headers_by_hash
=============================================================================
