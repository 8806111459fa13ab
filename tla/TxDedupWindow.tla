--------------------------- MODULE TxDedupWindow ---------------------------
(***************************************************************************)
(* What the deduplicator of dedup.rs promises its caller: a call is        *)
(* answered "new" exactly when the hash was never seen before or at least  *)
(* CacheSize other hashes have come in since it was last seen. There is no *)
(* LRU list here; TxDedup is shown to implement this specification.        *)
(***************************************************************************)
EXTENDS Naturals, FiniteSets

CONSTANTS Hash, CacheSize

VARIABLES last, seen, since

windowVars == <<last, seen, since>>

Init ==
    /\ last = [hash |-> "none", is_new |-> FALSE]
    /\ seen = {}
    /\ since = [h \in Hash |-> {}]

Check(h) ==
    /\ last' = [hash |-> h,
                is_new |-> h \notin seen \/ Cardinality(since[h]) >= CacheSize]
    /\ seen' = seen \cup {h}
    /\ since' = [g \in Hash |-> IF g = h THEN {} ELSE since[g] \cup {h}]

Next == \E h \in Hash : Check(h)

Spec == Init /\ [][Next]_windowVars
=============================================================================
