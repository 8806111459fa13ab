----------------------------- MODULE BlockCache -----------------------------
(***************************************************************************)
(* block_cache.rs: BlockCache, the four LRU maps behind one mutex in which *)
(* the sentry keeps recent blocks. Every operation below is one critical   *)
(* section of that mutex, written as an operator on the cache record.      *)
(*                                                                         *)
(* A block is named by its hash. A header is represented by the hash of    *)
(* the block it is the header of (Header::hash_slow recovers it) and a     *)
(* body by the hash of the block it belongs to, so that a body stored      *)
(* under another block's hash is visible as such. An Option is a set of at *)
(* most one element.                                                       *)
(***************************************************************************)
EXTENDS Lru

CONSTANTS
    Block,               \* block hashes
    NumberOf,            \* header.number, for each block
    DEFAULT_CACHE_SIZE   \* the capacity used in place of 0

ASSUME NumberOfAssumption == NumberOf \in [Block -> Nat]
ASSUME DefaultAssumption == DEFAULT_CACHE_SIZE \in Nat \ {0}

\* BlockCache::new.
new(capacity) ==
    [capacity          |-> capacity,
     headers_by_hash   |-> LruEmpty,
     headers_by_number |-> LruEmpty,
     hash_by_number    |-> LruEmpty,
     bodies_by_hash    |-> LruEmpty]

\* The capacity of each of the four maps.
Cap(c) == IF c.capacity = 0 THEN DEFAULT_CACHE_SIZE ELSE c.capacity

\* A mutant of insert_header: the hash a number already has is not replaced.
insert_header_keeps_hash(c, hash, header) ==
    [c EXCEPT !.headers_by_hash   = push(@, Cap(c), hash, header),
              !.headers_by_number = push(@, Cap(c), NumberOf[header], header),
              !.hash_by_number    = IF contains(@, NumberOf[header]) THEN @
                                    ELSE push(@, Cap(c), NumberOf[header], hash)]

\* Insert just a header (from a proxy response).
insert_header(c, hash, header) ==
    [c EXCEPT !.headers_by_hash   = push(@, Cap(c), hash, header),
              !.headers_by_number = push(@, Cap(c), NumberOf[header], header),
              !.hash_by_number    = push(@, Cap(c), NumberOf[header], hash)]

\* A mutant of insert_body: the map is one entry too large.
insert_body_oversized(c, hash, body) ==
    [c EXCEPT !.bodies_by_hash = push(@, Cap(c) + 1, hash, body)]

\* Insert just a body (from a proxy response).
insert_body(c, hash, body) == [c EXCEPT !.bodies_by_hash = push(@, Cap(c), hash, body)]

\* Insert a block (header and body): the same four pushes under one lock.
insert(c, hash, header, body) == insert_body(insert_header(c, hash, header), hash, body)

\* LruCache::get as an Option; the cache afterwards is given by the touch_
\* operators, since a get promotes its entry.
Lookup(lru, key) == IF contains(lru, key) THEN {peek(lru, key)} ELSE {}

get_header_by_hash(c, hash)     == Lookup(c.headers_by_hash, hash)
touch_header_by_hash(c, hash)   == [c EXCEPT !.headers_by_hash = promote(@, hash)]
get_header_by_number(c, number) == Lookup(c.headers_by_number, number)
touch_header_by_number(c, number) == [c EXCEPT !.headers_by_number = promote(@, number)]
get_body_by_hash(c, hash)       == Lookup(c.bodies_by_hash, hash)
touch_body_by_hash(c, hash)     == [c EXCEPT !.bodies_by_hash = promote(@, hash)]

\* A mutant of latest: the lowest number is taken.
latest_lowest(c) ==
    {[hash |-> peek(c.hash_by_number, n), header |-> peek(c.headers_by_number, n)] :
        n \in {m \in DOMAIN c.hash_by_number :
                 /\ \A k \in DOMAIN c.hash_by_number : m <= k
                 /\ contains(c.headers_by_number, m)}}

\* The highest cached number with its hash and header, as an Option.
latest(c) ==
    {[hash |-> peek(c.hash_by_number, n), header |-> peek(c.headers_by_number, n)] :
        n \in {m \in DOMAIN c.hash_by_number :
                 /\ \A k \in DOMAIN c.hash_by_number : k <= m
                 /\ contains(c.headers_by_number, m)}}

\* c has the fields of struct BlockCacheInner, and the capacity.
IsCacheRecord(c) ==
    c = [capacity          |-> c.capacity,
         headers_by_hash   |-> c.headers_by_hash,
         headers_by_number |-> c.headers_by_number,
         hash_by_number    |-> c.hash_by_number,
         bodies_by_hash    |-> c.bodies_by_hash]

\* The type of a cache.
IsBlockCache(c) ==
    /\ IsCacheRecord(c)
    /\ c.capacity \in Nat
    /\ IsLru(c.headers_by_hash, Block, Block, Cap(c))
    /\ IsLru(c.headers_by_number, Nat, Block, Cap(c))
    /\ IsLru(c.hash_by_number, Nat, Block, Cap(c))
    /\ IsLru(c.bodies_by_hash, Block, Block, Cap(c))

(***************************************************************************)
(* The header indexes tell one story: a hash maps to its own header, a     *)
(* number to a header of that number, and where both number maps hold an   *)
(* entry (each evicts by its own recency order) they name the same block.  *)
(***************************************************************************)
IndexesAgree(c) ==
    /\ \A h \in DOMAIN c.headers_by_hash : peek(c.headers_by_hash, h) = h
    /\ \A n \in DOMAIN c.headers_by_number : NumberOf[peek(c.headers_by_number, n)] = n
    /\ \A n \in DOMAIN c.hash_by_number : NumberOf[peek(c.hash_by_number, n)] = n
    /\ \A n \in DOMAIN c.headers_by_number \cap DOMAIN c.hash_by_number :
          peek(c.headers_by_number, n) = peek(c.hash_by_number, n)

\* Every body is stored under the hash of its own block.
BodiesMatchHash(c) == \A h \in DOMAIN c.bodies_by_hash : peek(c.bodies_by_hash, h) = h
=============================================================================
