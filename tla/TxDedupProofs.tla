--------------------------- MODULE TxDedupProofs ---------------------------
(***************************************************************************)
(* Proofs about TxDedup, for every set of hashes and every cache size: its *)
(* type, that its window is exact, that it implements TxDedupWindow, that  *)
(* its statistics add up and that it forgets nothing before it is full. Of *)
(* CacheProofs only the lemmas about one LRU map are used.                 *)
(***************************************************************************)
EXTENDS TxDedup, CacheProofs

USE CacheSizeAssumption, CounterModAssumption

\* Both branches of check_and_insert leave a well-formed cache.
LEMMA CacheAfterLru ==
    ASSUME NEW c, NEW h \in Hash, IsLru(c, Hash, {"unit"}, CacheSize)
    PROVE  IsLru(CacheAfter(c, CacheSize, h), Hash, {"unit"}, CacheSize)
  BY PushLru, PromoteLru DEF CacheAfter

\* TxDedup::new gives an empty, well-formed set and counters at zero.
LEMMA InitTypeOK == Init => TypeOK
  BY EmptyIsLru DEF Init, TypeOK

\* One call of check_and_insert keeps the types.
LEMMA NextTypeOK == TypeOK /\ [Next]_vars => TypeOK'
  <1> SUFFICES ASSUME TypeOK, [Next]_vars PROVE TypeOK'
    OBVIOUS
  <1>1. CASE Next
    <2>1. PICK h \in Hash : check_and_insert(h)
      BY <1>1 DEF Next
    <2>2. IsLru(cache', Hash, {"unit"}, CacheSize)
      BY <2>1, CacheAfterLru DEF check_and_insert, TypeOK
    <2>3. /\ total' \in 0 .. CounterMod - 1
          /\ unique' \in 0 .. CounterMod - 1
          /\ duplicates' \in 0 .. CounterMod - 1
      BY <2>1 DEF check_and_insert, TypeOK, Incremented
    <2>4. last' \in [hash : Hash \cup {"none"}, is_new : BOOLEAN]
      BY <2>1 DEF check_and_insert
    <2>5. seen' \subseteq Hash /\ since' \in [Hash -> SUBSET Hash]
      BY <2>1 DEF check_and_insert, RecordHistory, TypeOK
    <2>6. QED
      BY <2>2, <2>3, <2>4, <2>5 DEF TypeOK
  <1>2. CASE UNCHANGED vars
    BY <1>2 DEF TypeOK, vars
  <1>3. QED
    BY <1>1, <1>2

\* check_and_insert keeps the LRU set well formed and within cache_size, its
\* counters in range, and its history of the right type.
THEOREM TypeCorrect == Spec => []TypeOK
  BY InitTypeOK, NextTypeOK, PTL DEF Spec
-----------------------------------------------------------------------------
(***************************************************************************)
(* RecencyInv is the recency of CacheProofs for the deduplicator's cache   *)
(* and history, which both branches of check_and_insert keep.              *)
(***************************************************************************)
LEMMA RecencyIsRecent == RecencyInv <=> Recent(cache, CacheSize, Hash, seen, since)
  BY Zenon DEF RecencyInv, Recent

\* One call of check_and_insert is one use of its hash.
LEMMA CheckKeepsRecency ==
    ASSUME TypeOK, RecencyInv, NEW x \in Hash, check_and_insert(x)
    PROVE  RecencyInv'
  <1>1. /\ IsLru(cache, Hash, {"unit"}, CacheSize) /\ seen \in SUBSET Hash
        /\ Recent(cache, CacheSize, Hash, seen, since)
    BY RecencyIsRecent DEF TypeOK
  <1>2. seen' = seen \cup {x} /\ since' = SinceAfter(since, Hash, x)
    BY DEF check_and_insert, RecordHistory, SinceAfter
  <1>3. CASE x \in DOMAIN cache
    <2>1. cache' = promote(cache, x)
      BY <1>3 DEF check_and_insert, CacheAfter, contains
    <2>2. Recent(promote(cache, x), CacheSize, Hash, seen \cup {x}, SinceAfter(since, Hash, x))
      BY <1>1, <1>3, PromoteKeepsRecency
    <2>3. QED
      BY <1>2, <2>1, <2>2, Zenon DEF RecencyInv, Recent
  <1>4. CASE x \notin DOMAIN cache
    <2>1. cache' = push(cache, CacheSize, x, "unit")
      BY <1>4 DEF check_and_insert, CacheAfter, contains
    <2>2. Recent(push(cache, CacheSize, x, "unit"), CacheSize, Hash, seen \cup {x},
                 SinceAfter(since, Hash, x))
      BY <1>1, PushKeepsRecency
    <2>3. QED
      BY <1>2, <2>1, <2>2, Zenon DEF RecencyInv, Recent
  <1>5. QED
    BY <1>3, <1>4

\* The age of a remembered hash counts the hashes check_and_insert saw since,
\* and a forgotten hash was pushed out by CacheSize others.
THEOREM RecencyCorrect == Spec => []RecencyInv
  <1>1. Init => RecencyInv
    BY EmptyIsLru, FS_EmptySet DEF Init, RecencyInv
  <1>2. TypeOK /\ RecencyInv /\ [Next]_vars => RecencyInv'
    <2> SUFFICES ASSUME TypeOK, RecencyInv, [Next]_vars PROVE RecencyInv'
      OBVIOUS
    <2>1. CASE Next
      <3>1. PICK x \in Hash : check_and_insert(x)
        BY <2>1 DEF Next
      <3>2. QED
        BY <3>1, CheckKeepsRecency
    <2>2. CASE UNCHANGED vars
      BY <2>2 DEF RecencyInv, vars
    <2>3. QED
      BY <2>1, <2>2
  <1>3. QED
    BY <1>1, <1>2, TypeCorrect, PTL DEF Spec

\* The recency order decides the window: ages below CacheSize are the hashes
\* check_and_insert still knows.
LEMMA RecencyGivesWindow == TypeOK /\ RecencyInv => WindowExact
  <1> SUFFICES ASSUME TypeOK, RecencyInv, NEW h \in Hash
               PROVE  h \in DOMAIN cache <=> h \in seen /\ Cardinality(since[h]) < CacheSize
    BY DEF WindowExact
  <1>1. /\ IsLru(cache, Hash, {"unit"}, CacheSize) /\ seen \in SUBSET Hash
        /\ Recent(cache, CacheSize, Hash, seen, since)
    BY RecencyIsRecent DEF TypeOK
  <1>2. QED
    BY <1>1, RecentIsPresent

\* The window of check_and_insert is exact: a hash is remembered until
\* CacheSize other hashes have been seen after it, and no longer.
THEOREM WindowCorrect == Spec => []WindowExact
  BY TypeCorrect, RecencyCorrect, RecencyGivesWindow, PTL

\* TxDedup implements the window specification: every answer of
\* check_and_insert is the one the last CacheSize distinct hashes determine.
THEOREM DedupRefinesWindow == Spec => ImplementsWindow
  <1>1. Init => Window!Init
    BY DEF Init, Window!Init
  <1>2. TypeOK /\ RecencyInv /\ WindowExact /\ [Next]_vars => [Window!Next]_(Window!windowVars)
    <2> SUFFICES ASSUME TypeOK, RecencyInv, WindowExact, [Next]_vars
                 PROVE  [Window!Next]_(Window!windowVars)
      OBVIOUS
    <2>1. CASE Next
      <3>1. PICK h \in Hash : check_and_insert(h)
        BY <2>1 DEF Next
      <3>2. h \notin DOMAIN cache <=> h \notin seen \/ ~(Cardinality(since[h]) < CacheSize)
        BY DEF WindowExact
      <3>3. Cardinality(since[h]) \in Nat
        BY FS_CardinalityType DEF RecencyInv
      <3>4. (h \notin DOMAIN cache) = (h \notin seen \/ Cardinality(since[h]) >= CacheSize)
        BY <3>2, <3>3
      <3>5. Window!Check(h)
        <4>1. last' = [hash |-> h, is_new |-> h \notin DOMAIN cache]
          BY <3>1 DEF check_and_insert, contains
        <4>2. last' = [hash |-> h,
                       is_new |-> (h \notin seen \/ Cardinality(since[h]) >= CacheSize)]
          BY <3>4, <4>1, Zenon
        <4>3. seen' = seen \cup {h} /\ since' = [g \in Hash |-> IF g = h THEN {} ELSE since[g] \cup {h}]
          BY <3>1 DEF check_and_insert, RecordHistory
        <4>4. QED
          BY <4>2, <4>3, Zenon DEF Window!Check, Window!Cardinality, Cardinality
      <3>6. QED
        BY <3>5 DEF Window!Next
    <2>2. CASE UNCHANGED vars
      BY <2>2 DEF vars, Window!windowVars
    <2>3. QED
      BY <2>1, <2>2
  <1>3. QED
    BY <1>1, <1>2, TypeCorrect, RecencyCorrect, WindowCorrect, PTL
       DEF Spec, ImplementsWindow, Window!Spec
-----------------------------------------------------------------------------
(***************************************************************************)
(* The statistics. A call adds one to the total and to one of the others,  *)
(* modulo the width of the counters.                                       *)
(***************************************************************************)

\* fetch_add on one of two counters is fetch_add on their sum, wrapped or not.
LEMMA IncrementedSum ==
    ASSUME NEW a \in 0 .. CounterMod - 1, NEW b \in 0 .. CounterMod - 1
    PROVE  Incremented((a + b) % CounterMod) = (Incremented(a) + b) % CounterMod
  <1>1. CounterMod \in Nat /\ CounterMod > 0
    OBVIOUS
  <1>2. Incremented(a) = IF a + 1 = CounterMod THEN 0 ELSE a + 1
    BY <1>1 DEF Incremented
  <1>3. (a + b) % CounterMod = IF a + b < CounterMod THEN a + b ELSE a + b - CounterMod
    BY <1>1
  <1>4. CASE a + 1 = CounterMod
    <2>1. (Incremented(a) + b) % CounterMod = b
      BY <1>1, <1>2, <1>4
    <2>2. CASE b = 0
      BY <1>1, <1>2, <1>3, <1>4, <2>1, <2>2 DEF Incremented
    <2>3. CASE b > 0
      <3>1. (a + b) % CounterMod = b - 1
        BY <1>1, <1>3, <1>4, <2>3
      <3>2. b % CounterMod = b
        BY <1>1
      <3>3. QED
        BY <2>1, <3>1, <3>2 DEF Incremented
    <2>4. QED
      BY <2>2, <2>3
  <1>5. CASE a + 1 # CounterMod
    <2>1. (Incremented(a) + b) % CounterMod = (a + 1 + b) % CounterMod
      BY <1>2, <1>5
    <2>2. CASE a + b < CounterMod
      BY <1>1, <1>3, <2>1, <2>2 DEF Incremented
    <2>3. CASE a + b >= CounterMod
      <3>1. /\ a + b - CounterMod + 1 \in 0 .. CounterMod - 1
            /\ a + 1 + b - CounterMod \in 0 .. CounterMod - 1
        BY <1>1, <1>5, <2>3
      <3>2. (a + 1 + b) % CounterMod = a + 1 + b - CounterMod
        BY <1>1, <3>1
      <3>3. (a + b - CounterMod + 1) % CounterMod = a + b - CounterMod + 1
        BY <1>1, <3>1
      <3>4. QED
        BY <1>3, <2>1, <2>3, <3>2, <3>3 DEF Incremented
    <2>4. QED
      BY <2>2, <2>3
  <1>6. QED
    BY <1>4, <1>5

\* The logged statistics stay consistent for every counter width: total is
\* unique plus duplicates, also after the AtomicU64 counters wrapped.
THEOREM StatsCorrect == Spec => []StatsExact
  <1>1. Init => StatsExact
    BY DEF Init, StatsExact
  <1>2. TypeOK /\ StatsExact /\ [Next]_vars => StatsExact'
    <2> SUFFICES ASSUME TypeOK, StatsExact, [Next]_vars PROVE StatsExact'
      OBVIOUS
    <2>1. CASE Next
      <3>1. PICK x \in Hash : check_and_insert(x)
        BY <2>1 DEF Next
      <3>2. unique \in 0 .. CounterMod - 1 /\ duplicates \in 0 .. CounterMod - 1
        BY DEF TypeOK
      <3>3. total' = Incremented((unique + duplicates) % CounterMod)
        BY <3>1 DEF check_and_insert, StatsExact
      <3>4. CASE unique' = Incremented(unique) /\ duplicates' = duplicates
        BY <3>2, <3>3, <3>4, IncrementedSum DEF StatsExact
      <3>5. CASE unique' = unique /\ duplicates' = Incremented(duplicates)
        <4>1. unique + duplicates = duplicates + unique
          BY <3>2
        <4>2. total' = (Incremented(duplicates) + unique) % CounterMod
          BY <3>2, <3>3, <4>1, IncrementedSum
        <4>3. Incremented(duplicates) + unique = unique + Incremented(duplicates)
          BY <3>2 DEF Incremented
        <4>4. QED
          BY <3>5, <4>2, <4>3 DEF StatsExact
      <3>6. QED
        BY <3>1, <3>4, <3>5 DEF check_and_insert
    <2>2. CASE UNCHANGED vars
      BY <2>2 DEF StatsExact, vars
    <2>3. QED
      BY <2>1, <2>2
  <1>3. QED
    BY <1>1, <1>2, TypeCorrect, PTL DEF Spec
-----------------------------------------------------------------------------
(***************************************************************************)
(* The cache is filled. Below its capacity it holds every hash seen, so no *)
(* entry is old enough to be dropped; at its capacity the ages are all the *)
(* numbers below it, so a push drops exactly the oldest.                   *)
(***************************************************************************)
FilledInv ==
    /\ IsFiniteSet(DOMAIN cache) /\ IsFiniteSet(seen)
    /\ CacheFilled

\* A cache that is not full drops nothing.
LEMMA NotFullKeepsAll ==
    ASSUME TypeOK, RecencyInv, FilledInv, Cardinality(DOMAIN cache) < CacheSize,
           NEW j \in DOMAIN cache
    PROVE  cache[j].age + 1 < CacheSize
  <1> DEFINE S == DOMAIN cache
  <1>1. IsFiniteSet(S) /\ Cardinality(S) \in Nat
    BY FS_CardinalityType DEF FilledInv
  <1>2. cache[j].age = Cardinality(since[j]) /\ since[j] \subseteq S \ {j}
    <2>1. since[j] = {i \in S : cache[i].age < cache[j].age} /\ cache[j].age = Cardinality(since[j])
      BY DEF RecencyInv
    <2>2. cache[j].age \in Nat
      BY DEF TypeOK, IsLru
    <2>3. QED
      BY <2>1, <2>2
  <1>3. IsFiniteSet(S \ {j}) /\ Cardinality(S \ {j}) = Cardinality(S) - 1
    BY <1>1, FS_RemoveElement
  <1>4. Cardinality(since[j]) <= Cardinality(S) - 1
    BY <1>2, <1>3, FS_Subset
  <1>5. cache[j].age \in Nat
    BY DEF TypeOK, IsLru
  <1>6. QED
    BY <1>1, <1>2, <1>4, <1>5

\* A full cache has exactly one entry at the end of its list.
LEMMA FullHasOldest ==
    ASSUME TypeOK, IsFiniteSet(DOMAIN cache), Cardinality(DOMAIN cache) = CacheSize
    PROVE  \E h \in DOMAIN cache : cache[h].age = CacheSize - 1
  <1> DEFINE S == DOMAIN cache
             f == [j \in S |-> cache[j].age]
  <1> SUFFICES ASSUME \A h \in S : cache[h].age # CacheSize - 1 PROVE FALSE
    OBVIOUS
  <1>1. /\ \A j \in S : cache[j].age \in Nat /\ cache[j].age < CacheSize
        /\ \A i, j \in S : cache[i].age = cache[j].age => i = j
    BY DEF TypeOK, IsLru
  <1>2. f \in [S -> 0 .. CacheSize - 2]
    BY <1>1
  <1>3. IsFiniteSet(0 .. CacheSize - 2) /\ Cardinality(0 .. CacheSize - 2) = CacheSize - 1
    <2>1. CacheSize - 2 \in Int /\ 0 \in Int
      OBVIOUS
    <2>2. /\ IsFiniteSet(0 .. CacheSize - 2)
          /\ Cardinality(0 .. CacheSize - 2) = IF 0 > CacheSize - 2 THEN 0 ELSE CacheSize - 2 - 0 + 1
      BY <2>1, FS_Interval, Zenon
    <2>3. QED
      BY <2>2
  <1>4. Cardinality(0 .. CacheSize - 2) < Cardinality(S)
    BY <1>3
  <1> HIDE DEF f
  <1>5. \E i, j \in S : i # j /\ f[i] = f[j]
    BY <1>2, <1>3, <1>4, FS_PigeonHole
  <1>6. QED
    BY <1>1, <1>5 DEF f

\* A new hash fills a free slot or takes the place of the oldest entry.
LEMMA PushKeepsFilled ==
    ASSUME TypeOK, RecencyInv, FilledInv, NEW x \in Hash, check_and_insert(x),
           x \notin DOMAIN cache
    PROVE  FilledInv'
  <1> DEFINE S == DOMAIN cache
             Kept == {j \in S : cache[j].age + 1 < CacheSize}
  <1>1. DOMAIN cache' = Kept \cup {x}
    <2>1. cache' = push(cache, CacheSize, x, "unit")
      BY DEF check_and_insert, CacheAfter, contains
    <2>2. \A j \in S : j # x /\ AgeBehind(cache, x, j) = cache[j].age + 1
      BY DEF AgeBehind
    <2>3. QED
      BY <2>1, <2>2 DEF push
  <1>2. seen' = seen \cup {x} /\ S \subseteq seen
    BY DEF check_and_insert, RecordHistory, RecencyInv
  <1>3. /\ IsFiniteSet(S) /\ Cardinality(S) \in Nat
        /\ IsFiniteSet(seen) /\ Cardinality(seen) \in Nat
    BY FS_CardinalityType DEF FilledInv
  <1>4. IsFiniteSet(seen') /\ Cardinality(seen') \in {Cardinality(seen), Cardinality(seen) + 1}
    BY <1>2, <1>3, FS_AddElement
  <1>5. CASE Cardinality(S) < CacheSize
    <2>1. Cardinality(S) = Cardinality(seen)
      BY <1>3, <1>5 DEF FilledInv, CacheFilled
    <2>2. S = seen
      BY <1>2, <1>3, <2>1, FS_Subset
    <2>3. Kept = S
      BY <1>5, NotFullKeepsAll
    <2>4. IsFiniteSet(DOMAIN cache') /\ Cardinality(DOMAIN cache') = Cardinality(S) + 1
      BY <1>1, <1>3, <2>3, FS_AddElement
    <2>5. Cardinality(seen') = Cardinality(S) + 1
      BY <1>2, <1>3, <2>2, FS_AddElement
    <2>6. CacheFilled'
      BY <1>3, <1>5, <2>4, <2>5 DEF CacheFilled
    <2>7. QED
      BY <1>4, <2>4, <2>6 DEF FilledInv
  <1>6. CASE ~(Cardinality(S) < CacheSize)
    <2>1. Cardinality(S) = CacheSize /\ Cardinality(seen) >= CacheSize
      BY <1>3, <1>6 DEF FilledInv, CacheFilled
    <2>2. PICK h \in S : cache[h].age = CacheSize - 1
      BY <1>3, <2>1, FullHasOldest
    <2>3. Kept = S \ {h}
      BY <2>2 DEF TypeOK, IsLru
    <2>4. IsFiniteSet(Kept) /\ Cardinality(Kept) = CacheSize - 1
      BY <1>3, <2>1, <2>2, <2>3, FS_RemoveElement
    <2>5. IsFiniteSet(DOMAIN cache') /\ Cardinality(DOMAIN cache') = CacheSize
      <3>1. PICK T : T = Kept
        OBVIOUS
      <3>2. x \notin T /\ DOMAIN cache' = T \cup {x} /\ IsFiniteSet(T)
        BY <1>1, <2>4, <3>1
      <3>3. Cardinality(T \cup {x}) = Cardinality(T) + 1 /\ IsFiniteSet(T \cup {x})
        BY <3>2, FS_AddElement
      <3>4. CacheSize - 1 + 1 = CacheSize
        OBVIOUS
      <3>5. QED
        BY <2>4, <3>1, <3>2, <3>3, <3>4
    <2>6. CacheFilled'
      BY <1>3, <1>4, <2>1, <2>5 DEF CacheFilled
    <2>7. QED
      BY <1>4, <2>5, <2>6 DEF FilledInv
  <1>7. QED
    BY <1>5, <1>6

\* The deduplicator uses its memory in full: it holds every hash seen until
\* cache_size of them are in, and exactly cache_size from then on.
THEOREM FilledCorrect == Spec => []CacheFilled
  <1>1. Init => FilledInv
    BY EmptyIsLru, FS_EmptySet DEF Init, FilledInv, CacheFilled
  <1>2. TypeOK /\ RecencyInv /\ FilledInv /\ [Next]_vars => FilledInv'
    <2> SUFFICES ASSUME TypeOK, RecencyInv, FilledInv, [Next]_vars PROVE FilledInv'
      OBVIOUS
    <2>1. CASE Next
      <3>1. PICK x \in Hash : check_and_insert(x)
        BY <2>1 DEF Next
      <3>2. CASE x \in DOMAIN cache
        <4>1. DOMAIN cache' = DOMAIN cache
          BY <3>1, <3>2 DEF check_and_insert, CacheAfter, contains, promote
        <4>2. seen' = seen
          BY <3>1, <3>2 DEF check_and_insert, RecordHistory, RecencyInv
        <4>3. QED
          BY <4>1, <4>2 DEF FilledInv, CacheFilled
      <3>3. CASE x \notin DOMAIN cache
        BY <3>1, <3>3, PushKeepsFilled
      <3>4. QED
        BY <3>2, <3>3
    <2>2. CASE UNCHANGED vars
      BY <2>2 DEF FilledInv, CacheFilled, vars
    <2>3. QED
      BY <2>1, <2>2
  <1>3. QED
    BY <1>1, <1>2, TypeCorrect, RecencyCorrect, PTL DEF Spec, FilledInv
=============================================================================
