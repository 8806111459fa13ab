------------------------------ MODULE TxDedup ------------------------------
(***************************************************************************)
(* dedup.rs: TxDedup, the LRU set of recently seen transaction hashes that *)
(* decides which transactions the forwarder passes on, with its counters.  *)
(* Its one caller is the forwarding loop, so calls never overlap and one   *)
(* call is one step.                                                       *)
(***************************************************************************)
EXTENDS Lru, FiniteSets

CONSTANTS
    Hash,         \* transaction hashes
    CacheSize,    \* DedupConfig.cache_size
    CounterMod    \* the AtomicU64 counters wrap around here (2^64 in the code)

ASSUME CacheSizeAssumption == CacheSize \in Nat \ {0}
ASSUME CounterModAssumption == CounterMod \in Nat \ {0}

VARIABLES
    cache,        \* TxDedup.cache: LruCache<B256, ()>
    total,        \* DedupStats.total
    unique,       \* DedupStats.unique
    duplicates,   \* DedupStats.duplicates
    last,         \* the last call and what it returned
    \* History, read only by the properties:
    seen,         \* the hashes of all calls so far
    since         \* for each hash, the other hashes seen since its last call

vars == <<cache, total, unique, duplicates, last, seen, since>>

Init ==
    /\ cache = LruEmpty
    /\ total = 0
    /\ unique = 0
    /\ duplicates = 0
    /\ last = [hash |-> "none", is_new |-> FALSE]
    /\ seen = {}
    /\ since = [h \in Hash |-> {}]

\* fetch_add(1) on an AtomicU64.
Incremented(counter) == (counter + 1) % CounterMod

\* A mutant of CacheAfter: the cache is one entry too large.
CacheAfter_oversized(c, cap, h) ==
    IF contains(c, h) THEN promote(c, h) ELSE push(c, cap + 1, h, "unit")

\* The critical section of check_and_insert, on the cache alone.
CacheAfter(c, cap, h) == IF contains(c, h) THEN promote(c, h) ELSE push(c, cap, h, "unit")

RecordHistory(h) ==
    /\ seen' = seen \cup {h}
    /\ since' = [g \in Hash |-> IF g = h THEN {} ELSE since[g] \cup {h}]

\* A mutant: a duplicate keeps its place, so the set is first-in first-out.
check_and_insert_no_promote(hash) ==
    /\ total' = Incremented(total)
    /\ LET is_new == ~contains(cache, hash) IN
         /\ cache' = IF is_new THEN push(cache, CacheSize, hash, "unit") ELSE cache
         /\ unique' = IF is_new THEN Incremented(unique) ELSE unique
         /\ duplicates' = IF is_new THEN duplicates ELSE Incremented(duplicates)
         /\ last' = [hash |-> hash, is_new |-> is_new]
    /\ RecordHistory(hash)

\* A mutant: a duplicate is counted as unique too.
check_and_insert_miscount(hash) ==
    /\ total' = Incremented(total)
    /\ LET is_new == ~contains(cache, hash) IN
         /\ cache' = CacheAfter(cache, CacheSize, hash)
         /\ unique' = Incremented(unique)
         /\ duplicates' = IF is_new THEN duplicates ELSE Incremented(duplicates)
         /\ last' = [hash |-> hash, is_new |-> is_new]
    /\ RecordHistory(hash)

\* check_and_insert(hash): TRUE iff the hash is not in the cache.
check_and_insert(hash) ==
    /\ total' = Incremented(total)
    /\ LET is_new == ~contains(cache, hash) IN
         /\ cache' = CacheAfter(cache, CacheSize, hash)
         /\ unique' = IF is_new THEN Incremented(unique) ELSE unique
         /\ duplicates' = IF is_new THEN duplicates ELSE Incremented(duplicates)
         /\ last' = [hash |-> hash, is_new |-> is_new]
    /\ RecordHistory(hash)

Next == \E hash \in Hash : check_and_insert(hash)

Spec == Init /\ [][Next]_vars
-----------------------------------------------------------------------------
(***************************************************************************)
(* Properties.                                                             *)
(***************************************************************************)

\* The LRU set is a well-formed cache of at most CacheSize hashes and the
\* counters are natural numbers (TxDedup, DedupStats).
TypeOK ==
    /\ IsLru(cache, Hash, {"unit"}, CacheSize)
    /\ total \in 0 .. CounterMod - 1
    /\ unique \in 0 .. CounterMod - 1
    /\ duplicates \in 0 .. CounterMod - 1
    /\ last \in [hash : Hash \cup {"none"}, is_new : BOOLEAN]
    /\ seen \subseteq Hash
    /\ since \in [Hash -> SUBSET Hash]

\* Why the window is exact: the age of a remembered hash counts the hashes seen
\* since, which are the more recent entries of the LRU list that promote and
\* push maintain, and a forgotten hash was pushed out by CacheSize others.
RecencyInv ==
    /\ \A h \in DOMAIN cache :
          /\ h \in seen
          /\ since[h] = {j \in DOMAIN cache : cache[j].age < cache[h].age}
          /\ cache[h].age = Cardinality(since[h])
    /\ \A h \in seen \ DOMAIN cache : Cardinality(since[h]) >= CacheSize
    /\ \A h \in Hash : IsFiniteSet(since[h])

\* The dedup window is exact: check_and_insert remembers a hash as long as
\* fewer than CacheSize other hashes have come in since the last time it was
\* seen, and not a call longer.
WindowExact ==
    \A h \in Hash :
        h \in DOMAIN cache <=> h \in seen /\ Cardinality(since[h]) < CacheSize

\* The statistics check_and_insert logs are consistent: every call was counted
\* once, as unique or as a duplicate, also after the counters wrapped around.
StatsExact == total = (unique + duplicates) % CounterMod

\* The memory of the deduplicator is used in full: the cache drops no hash
\* before it holds CacheSize of them, and never holds more.
CacheFilled ==
    Cardinality(DOMAIN cache) =
        IF Cardinality(seen) < CacheSize THEN Cardinality(seen) ELSE CacheSize

\* What the window promises, without the LRU list (TxDedupWindow).
Window == INSTANCE TxDedupWindow

\* TxDedup implements TxDedupWindow: every answer of check_and_insert is the
\* one the window definition gives.
ImplementsWindow == Window!Spec
=============================================================================
