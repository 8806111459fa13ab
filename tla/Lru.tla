-------------------------------- MODULE Lru --------------------------------
(***************************************************************************)
(* The least-recently-used map of the `lru` crate, as the sentry uses it   *)
(* in dedup.rs and block_cache.rs.                                         *)
(*                                                                         *)
(* A cache is a function from the keys present to their value and age. Age *)
(* 0 is the most recently used entry; the ages of the entries present are  *)
(* 0, 1, 2, ... in the order of the crate's internal list, so the entry a  *)
(* full cache evicts is the one whose age would reach the capacity.        *)
(***************************************************************************)
EXTENDS Naturals

LruEmpty == [k \in {} |-> [val |-> 0, age |-> 0]]

contains(c, k) == k \in DOMAIN c

\* The value under k, which stays where it is in the recency order.
peek(c, k) == c[k].val

(***************************************************************************)
(* The age of entry j once k has become the most recently used entry: the  *)
(* entries that were more recent than k move back by one, all of them when *)
(* k is new.                                                               *)
(***************************************************************************)
AgeBehind(c, k, j) ==
    IF k \in DOMAIN c /\ c[k].age < c[j].age THEN c[j].age ELSE c[j].age + 1

\* k becomes the most recently used entry (promote, and the effect of get).
promote(c, k) ==
    IF k \in DOMAIN c
    THEN [j \in DOMAIN c |->
            [val |-> c[j].val, age |-> IF j = k THEN 0 ELSE AgeBehind(c, k, j)]]
    ELSE c

\* k -> v becomes the most recently used entry, replacing the value k had or,
\* when the cache is full, evicting the least recently used entry.
push(c, cap, k, v) ==
    [j \in {k} \cup {i \in DOMAIN c \ {k} : AgeBehind(c, k, i) < cap} |->
        IF j = k THEN [val |-> v, age |-> 0]
                 ELSE [val |-> c[j].val, age |-> AgeBehind(c, k, j)]]

(***************************************************************************)
(* c is a cache from keys in K to values in V holding at most cap entries, *)
(* no two of them equally recent.                                          *)
(***************************************************************************)
IsLru(c, K, V, cap) ==
    /\ DOMAIN c \subseteq K
    /\ c \in [DOMAIN c -> [val : V, age : Nat]]
    /\ \A k \in DOMAIN c : c[k].age < cap
    /\ \A j, k \in DOMAIN c : c[j].age = c[k].age => j = k
=============================================================================
