---------------------------- MODULE CacheProofs ----------------------------
(***************************************************************************)
(* Lemmas about the caches of the sentry, which the proofs about the       *)
(* components that keep one cite: what push and promote of an LRU map      *)
(* preserve and what they return, for any capacity, keys and values; what  *)
(* an LRU map remembers; and what the operations of the block cache, which *)
(* is four such maps, keep of its types and of its indexes.                *)
(***************************************************************************)
EXTENDS BlockCache, FiniteSetTheorems, TLAPS

\* The empty cache is well formed, whatever its capacity (LruCache::new).
LEMMA EmptyIsLru ==
    ASSUME NEW K, NEW V, NEW cap
    PROVE  IsLru(LruEmpty, K, V, cap) /\ DOMAIN LruEmpty = {}
  BY DEF IsLru, LruEmpty

\* The new age of an entry behind the key that moved to the front is a positive
\* number, below the capacity when that key was in the cache already.
LEMMA AgeBehindBounds ==
    ASSUME NEW K, NEW V, NEW cap \in Nat, NEW c, IsLru(c, K, V, cap), NEW k,
           NEW i \in DOMAIN c \ {k}
    PROVE  /\ AgeBehind(c, k, i) \in Nat
           /\ AgeBehind(c, k, i) > 0
           /\ k \in DOMAIN c => AgeBehind(c, k, i) < cap
  <1>1. \A j \in DOMAIN c : c[j].age \in Nat /\ c[j].age < cap
    BY DEF IsLru
  <1>2. k \in DOMAIN c => c[i].age # c[k].age
    BY DEF IsLru
  <1>3. AgeBehind(c, k, i) \in Nat /\ AgeBehind(c, k, i) > 0
    BY <1>1 DEF AgeBehind
  <1>4. ASSUME k \in DOMAIN c PROVE AgeBehind(c, k, i) < cap
    BY <1>1, <1>2, <1>4 DEF AgeBehind
  <1>5. QED
    BY <1>3, <1>4

\* Entries stay ordered: two entries that differ in age before k moved to the
\* front differ in age afterwards.
LEMMA AgeBehindInjective ==
    ASSUME NEW K, NEW V, NEW cap, NEW c, IsLru(c, K, V, cap), NEW k,
           NEW i \in DOMAIN c \ {k}, NEW j \in DOMAIN c \ {k},
           AgeBehind(c, k, i) = AgeBehind(c, k, j)
    PROVE  i = j
  <1>1. \A l \in DOMAIN c : c[l].age \in Nat
    BY DEF IsLru
  <1>2. k \in DOMAIN c => c[i].age # c[k].age /\ c[j].age # c[k].age
    BY DEF IsLru
  <1>3. c[i].age = c[j].age
    BY <1>1, <1>2 DEF AgeBehind
  <1>4. QED
    BY <1>3 DEF IsLru

\* promote keeps the keys and the values of a cache, and its well-formedness.
LEMMA PromoteLru ==
    ASSUME NEW K, NEW V, NEW cap \in Nat \ {0}, NEW c, IsLru(c, K, V, cap), NEW k
    PROVE  /\ IsLru(promote(c, k), K, V, cap)
           /\ DOMAIN promote(c, k) = DOMAIN c
           /\ \A j \in DOMAIN c : promote(c, k)[j].val = c[j].val
  <1> DEFINE d == promote(c, k)
  <1>1. CASE k \notin DOMAIN c
    BY <1>1 DEF promote
  <1>2. CASE k \in DOMAIN c
    <2>1. d = [j \in DOMAIN c |->
                 [val |-> c[j].val, age |-> IF j = k THEN 0 ELSE AgeBehind(c, k, j)]]
      BY <1>2 DEF promote
    <2>2. DOMAIN d = DOMAIN c
      BY <2>1
    <2>3. \A j \in DOMAIN c \ {k} :
             AgeBehind(c, k, j) \in Nat /\ AgeBehind(c, k, j) > 0 /\ AgeBehind(c, k, j) < cap
      BY <1>2, AgeBehindBounds
    <2>4. \A i, j \in DOMAIN c \ {k} : AgeBehind(c, k, i) = AgeBehind(c, k, j) => i = j
      BY AgeBehindInjective
    <2>5. \A j \in DOMAIN c : c[j].val \in V
      BY DEF IsLru
    <2>6. \A j \in DOMAIN c : d[j] \in [val : V, age : Nat] /\ d[j].age < cap
      BY <2>1, <2>3, <2>5
    <2>7. \A i, j \in DOMAIN c : d[i].age = d[j].age => i = j
      BY <2>1, <2>3, <2>4
    <2>8. d \in [DOMAIN d -> [val : V, age : Nat]]
      BY <2>1, <2>2, <2>6
    <2>9. DOMAIN d \subseteq K
      BY <2>2 DEF IsLru
    <2>10. IsLru(d, K, V, cap)
      BY <2>2, <2>6, <2>7, <2>8, <2>9 DEF IsLru
    <2>11. QED
      BY <2>1, <2>2, <2>10
  <1>3. QED
    BY <1>1, <1>2

\* push keeps a cache well formed; afterwards it holds the pushed entry, and of
\* the entries it held before at most those, with their values.
LEMMA PushLru ==
    ASSUME NEW K, NEW V, NEW cap \in Nat \ {0}, NEW c, IsLru(c, K, V, cap),
           NEW k \in K, NEW v \in V
    PROVE  /\ IsLru(push(c, cap, k, v), K, V, cap)
           /\ k \in DOMAIN push(c, cap, k, v)
           /\ push(c, cap, k, v)[k].val = v
           /\ DOMAIN push(c, cap, k, v) \subseteq DOMAIN c \cup {k}
           /\ \A j \in DOMAIN push(c, cap, k, v) \ {k} :
                 push(c, cap, k, v)[j].val = c[j].val
  <1> DEFINE d == push(c, cap, k, v)
             Kept == {i \in DOMAIN c \ {k} : AgeBehind(c, k, i) < cap}
  <1>1. d = [j \in {k} \cup Kept |->
               IF j = k THEN [val |-> v, age |-> 0]
                        ELSE [val |-> c[j].val, age |-> AgeBehind(c, k, j)]]
    BY DEF push
  <1>2. DOMAIN d = {k} \cup Kept
    BY <1>1
  <1>3. \A j \in Kept : j # k /\ j \in DOMAIN c
    OBVIOUS
  <1>4. d[k].val = v /\ d[k].age = 0 /\ d[k] = [val |-> v, age |-> 0]
    BY <1>1, <1>2
  <1>5. \A j \in Kept : /\ d[j] = [val |-> c[j].val, age |-> AgeBehind(c, k, j)]
                        /\ d[j].val = c[j].val
                        /\ d[j].age = AgeBehind(c, k, j)
    BY <1>1, <1>2, <1>3
  <1>6. \A j \in Kept : AgeBehind(c, k, j) \in Nat /\ AgeBehind(c, k, j) > 0
    BY <1>3, AgeBehindBounds
  <1>7. \A i, j \in Kept : AgeBehind(c, k, i) = AgeBehind(c, k, j) => i = j
    BY <1>3, AgeBehindInjective
  <1>8. \A j \in Kept : c[j].val \in V
    BY <1>3 DEF IsLru
  <1>9. \A j \in DOMAIN d : d[j] \in [val : V, age : Nat] /\ d[j].age < cap
    <2>1. d[k] \in [val : V, age : Nat] /\ d[k].age < cap
      BY <1>4
    <2>2. ASSUME NEW j \in Kept
          PROVE  d[j] \in [val : V, age : Nat] /\ d[j].age < cap
      <3>1. AgeBehind(c, k, j) < cap
        OBVIOUS
      <3>2. d[j] = [val |-> c[j].val, age |-> AgeBehind(c, k, j)]
        BY <1>5
      <3>3. c[j].val \in V /\ AgeBehind(c, k, j) \in Nat
        BY <1>6, <1>8
      <3> HIDE DEF d, Kept
      <3>4. QED
        BY <3>1, <3>2, <3>3
    <2>3. QED
      BY <1>2, <2>1, <2>2
  <1>10. \A i, j \in DOMAIN d : d[i].age = d[j].age => i = j
    <2> HIDE DEF d, Kept
    <2>1. SUFFICES ASSUME NEW i \in DOMAIN d, NEW j \in DOMAIN d, d[i].age = d[j].age
                   PROVE  i = j
      OBVIOUS
    <2>2. CASE i = k
      BY <1>2, <1>4, <1>5, <1>6, <2>1, <2>2
    <2>3. CASE j = k
      BY <1>2, <1>4, <1>5, <1>6, <2>1, <2>3
    <2>4. CASE i # k /\ j # k
      BY <1>2, <1>5, <1>7, <2>1, <2>4
    <2>5. QED
      BY <2>2, <2>3, <2>4
  <1>11. d \in [DOMAIN d -> [val : V, age : Nat]]
    <2>1. d = [j \in DOMAIN d |-> d[j]]
      BY <1>1, <1>2
    <2>2. QED
      BY <1>9, <2>1
  <1>12. DOMAIN d \subseteq K
    BY <1>2, <1>3 DEF IsLru
  <1>13. IsLru(d, K, V, cap)
    BY <1>9, <1>10, <1>11, <1>12 DEF IsLru
  <1>14. QED
    BY <1>2, <1>3, <1>4, <1>5, <1>13

\* A push stores the value under its key, adds no other key and keeps the
\* values of the entries that stay.
LEMMA PushValues ==
    ASSUME NEW c, NEW cap, NEW k, NEW v
    PROVE  /\ DOMAIN push(c, cap, k, v) \subseteq {k} \cup DOMAIN c
           /\ k \in DOMAIN push(c, cap, k, v)
           /\ peek(push(c, cap, k, v), k) = v
           /\ \A j \in DOMAIN push(c, cap, k, v) \ {k} :
                 peek(push(c, cap, k, v), j) = peek(c, j)
  BY DEF push, peek

\* A promotion changes neither the keys nor their values.
LEMMA PromoteValues ==
    ASSUME NEW c, NEW k
    PROVE  /\ DOMAIN promote(c, k) = DOMAIN c
           /\ \A j \in DOMAIN c : peek(promote(c, k), j) = peek(c, j)
  BY DEF promote, peek
-----------------------------------------------------------------------------
(***************************************************************************)
(* Recency. What an LRU map remembers is decided by the keys used: `old`   *)
(* is the set of the keys used so far and hist[k] the other keys used      *)
(* since the last use of k. The age of a key that is present counts them,  *)
(* and a key that is gone had as many of them as the map holds.            *)
(***************************************************************************)
Recent(c, cap, K, old, hist) ==
    /\ \A h \in DOMAIN c :
          /\ h \in old
          /\ hist[h] = {j \in DOMAIN c : c[j].age < c[h].age}
          /\ c[h].age = Cardinality(hist[h])
    /\ \A h \in old \ DOMAIN c : Cardinality(hist[h]) >= cap
    /\ \A h \in K : IsFiniteSet(hist[h])

\* The history once x has been used.
SinceAfter(hist, K, x) == [g \in K |-> IF g = x THEN {} ELSE hist[g] \cup {x}]

\* The counted keys of an entry after a key that was present moved to the front.
LEMMA FrontKeepsRecency ==
    ASSUME NEW K, NEW V, NEW cap \in Nat \ {0}, NEW c, IsLru(c, K, V, cap),
           NEW old \in SUBSET K, NEW hist, Recent(c, cap, K, old, hist),
           NEW x \in DOMAIN c, NEW d, DOMAIN d = DOMAIN c, d[x].age = 0,
           \A j \in DOMAIN c \ {x} : d[j].age = AgeBehind(c, x, j)
    PROVE  Recent(d, cap, K, old \cup {x}, SinceAfter(hist, K, x))
  <1> DEFINE known == old \cup {x}
             after == SinceAfter(hist, K, x)
             age(j) == c[j].age
  <1>1. DOMAIN d = DOMAIN c
    OBVIOUS
  <1>2. /\ known = old \cup {x}
        /\ after = [g \in K |-> IF g = x THEN {} ELSE hist[g] \cup {x}]
    BY DEF SinceAfter
  <1>3. /\ DOMAIN c \subseteq K
        /\ \A j \in DOMAIN c : age(j) \in Nat
        /\ \A i, j \in DOMAIN c : age(i) = age(j) => i = j
    BY DEF IsLru
  <1>4. /\ d[x].age = 0
        /\ \A j \in DOMAIN c \ {x} :
              d[j].age = IF age(x) < age(j) THEN age(j) ELSE age(j) + 1
    BY DEF AgeBehind
  <1> HIDE DEF known, after
  <1>5. \A h \in K : IsFiniteSet(after[h])
    BY <1>2, FS_EmptySet, FS_AddElement DEF Recent
  <1>6. ASSUME NEW h \in known \ DOMAIN d
        PROVE  Cardinality(after[h]) >= cap
    <2>1. h \in old \ DOMAIN c /\ h # x /\ h \in K
      BY <1>1, <1>2
    <2>2. after[h] = hist[h] \cup {x}
      BY <1>2, <2>1
    <2>3. IsFiniteSet(hist[h]) /\ Cardinality(hist[h]) >= cap
      BY <2>1 DEF Recent
    <2>4. Cardinality(hist[h]) \in Nat
      BY <2>3, FS_CardinalityType
    <2>5. Cardinality(after[h]) = Cardinality(hist[h])
           \/ Cardinality(after[h]) = Cardinality(hist[h]) + 1
      <3>1. Cardinality(hist[h] \cup {x}) =
              IF x \in hist[h] THEN Cardinality(hist[h]) ELSE Cardinality(hist[h]) + 1
        BY <2>3, FS_AddElement, Zenon
      <3>2. QED
        BY <2>2, <3>1
    <2>6. QED
      BY <2>3, <2>4, <2>5
  <1>7. ASSUME NEW h \in DOMAIN d
        PROVE  /\ h \in known
               /\ after[h] = {j \in DOMAIN d : d[j].age < d[h].age}
               /\ d[h].age = Cardinality(after[h])
    <2>1. h \in DOMAIN c /\ h \in K
      BY <1>1, <1>3
    <2>2. h \in known
      BY <1>2, <2>1 DEF Recent
    <2>3. CASE h = x
      <3>1. after[h] = {}
        BY <1>2, <2>1, <2>3
      <3>2. \A j \in DOMAIN c : ~(d[j].age < 0)
        BY <1>3, <1>4
      <3>3. QED
        BY <1>1, <1>4, <2>2, <2>3, <3>1, <3>2, FS_EmptySet
    <2>4. CASE h # x
      <3>1. /\ hist[h] = {j \in DOMAIN c : age(j) < age(h)}
            /\ age(h) = Cardinality(hist[h])
            /\ IsFiniteSet(hist[h])
        BY <2>1 DEF Recent
      <3>2. after[h] = hist[h] \cup {x}
        BY <1>2, <2>1, <2>4
      <3>3. age(h) # age(x)
        BY <1>3, <2>1, <2>4
      <3>4. CASE age(x) < age(h)
        <4>1. x \in hist[h] /\ d[h].age = age(h)
          BY <1>4, <2>1, <2>4, <3>1, <3>4
        <4>2. ASSUME NEW j \in DOMAIN c
              PROVE  d[j].age < d[h].age <=> age(j) < age(h)
          <5>1. CASE j = x
            BY <1>3, <1>4, <2>1, <3>4, <4>1, <5>1
          <5>2. CASE j # x
            BY <1>3, <1>4, <2>1, <2>4, <3>4, <4>1, <5>2
          <5>3. QED
            BY <5>1, <5>2
        <4>3. after[h] = {j \in DOMAIN d : d[j].age < d[h].age}
          BY <1>1, <3>1, <3>2, <4>1, <4>2
        <4>4. QED
          BY <2>2, <3>1, <3>2, <4>1, <4>3
      <3>5. CASE age(h) < age(x)
        <4>1. x \notin hist[h] /\ d[h].age = age(h) + 1
          BY <1>3, <1>4, <2>1, <2>4, <3>1, <3>5
        <4>2. ASSUME NEW j \in DOMAIN c
              PROVE  d[j].age < d[h].age <=> j = x \/ age(j) < age(h)
          <5>1. CASE j = x
            BY <1>3, <1>4, <2>1, <4>1, <5>1
          <5>2. CASE j # x
            BY <1>3, <1>4, <2>1, <2>4, <3>5, <4>1, <5>2
          <5>3. QED
            BY <5>1, <5>2
        <4>3. after[h] = {j \in DOMAIN d : d[j].age < d[h].age}
          BY <1>1, <3>1, <3>2, <4>2
        <4>4. d[h].age = Cardinality(after[h])
          <5>1. Cardinality(hist[h] \cup {x}) =
                  IF x \in hist[h] THEN Cardinality(hist[h]) ELSE Cardinality(hist[h]) + 1
            BY <3>1, FS_AddElement, Zenon
          <5>2. QED
            BY <3>1, <3>2, <4>1, <5>1
        <4>5. QED
          BY <2>2, <4>3, <4>4
      <3>6. QED
        BY <1>3, <2>1, <3>3, <3>4, <3>5
    <2>5. QED
      BY <2>3, <2>4
  <1>8. QED
    BY <1>5, <1>6, <1>7 DEF Recent, known, after

\* The same after a new key was pushed, which may have evicted an entry.
LEMMA NewKeyKeepsRecency ==
    ASSUME NEW K, NEW V, NEW cap \in Nat \ {0}, NEW c, IsLru(c, K, V, cap),
           NEW old \in SUBSET K, NEW hist, Recent(c, cap, K, old, hist),
           NEW x \in K \ DOMAIN c, NEW v
    PROVE  Recent(push(c, cap, x, v), cap, K, old \cup {x}, SinceAfter(hist, K, x))
  <1> DEFINE known == old \cup {x}
             after == SinceAfter(hist, K, x)
             d == push(c, cap, x, v)
             age(j) == c[j].age
             Kept == {j \in DOMAIN c : age(j) + 1 < cap}
  <1>1. /\ known = old \cup {x}
        /\ after = [g \in K |-> IF g = x THEN {} ELSE hist[g] \cup {x}]
    BY DEF SinceAfter
  <1>2. d = push(c, cap, x, v)
    OBVIOUS
  <1>3. /\ DOMAIN c \subseteq K
        /\ \A j \in DOMAIN c : age(j) \in Nat
        /\ \A i, j \in DOMAIN c : age(i) = age(j) => i = j
    BY DEF IsLru
  <1>4. \A j \in DOMAIN c : AgeBehind(c, x, j) = age(j) + 1
    BY DEF AgeBehind
  <1>5. DOMAIN d = {x} \cup Kept
    BY <1>2, <1>4 DEF push
  <1>6. d[x].age = 0 /\ \A j \in Kept : d[j].age = age(j) + 1
    BY <1>2, <1>4 DEF push
  <1> HIDE DEF known, after, d
  <1>7. \A h \in DOMAIN c : /\ hist[h] = {j \in DOMAIN c : age(j) < age(h)}
                               /\ age(h) = Cardinality(hist[h])
                               /\ IsFiniteSet(hist[h])
                               /\ h \in old
    BY <1>3 DEF Recent
  <1>8. \A h \in K : IsFiniteSet(after[h])
    BY <1>1, FS_EmptySet, FS_AddElement DEF Recent
  <1>9. ASSUME NEW h \in known \ DOMAIN d
        PROVE  Cardinality(after[h]) >= cap
    <2>1. h # x /\ h \in old /\ h \in K
      BY <1>1, <1>5
    <2>2. after[h] = hist[h] \cup {x}
      BY <1>1, <2>1
    <2>3. IsFiniteSet(hist[h])
      BY <2>1 DEF Recent
    <2>4. Cardinality(hist[h]) \in Nat
      BY <2>3, FS_CardinalityType
    <2>5. CASE h \notin DOMAIN c
      <3>1. Cardinality(hist[h]) >= cap
        BY <2>1, <2>5 DEF Recent
      <3>2. Cardinality(after[h]) = Cardinality(hist[h])
             \/ Cardinality(after[h]) = Cardinality(hist[h]) + 1
        BY <2>2, <2>3, FS_AddElement
      <3>3. QED
        BY <2>4, <3>1, <3>2
    <2>6. CASE h \in DOMAIN c
      <3>1. age(h) + 1 >= cap
        BY <1>3, <1>5, <2>6
      <3>2. x \notin hist[h]
        BY <1>7, <2>6
      <3>3. Cardinality(after[h]) = Cardinality(hist[h]) + 1
        BY <2>2, <2>3, <3>2, FS_AddElement
      <3>4. QED
        BY <1>7, <2>6, <3>1, <3>3
    <2>7. QED
      BY <2>5, <2>6
  <1>10. ASSUME NEW h \in DOMAIN d
         PROVE  /\ h \in known
                /\ after[h] = {j \in DOMAIN d : d[j].age < d[h].age}
                /\ d[h].age = Cardinality(after[h])
    <2>1. CASE h = x
      <3>1. after[h] = {} /\ h \in known
        BY <1>1, <2>1
      <3>2. \A j \in DOMAIN d : ~(d[j].age < 0)
        BY <1>3, <1>5, <1>6
      <3>3. QED
        BY <1>6, <2>1, <3>1, <3>2, FS_EmptySet
    <2>2. CASE h # x
      <3>1. h \in Kept /\ h \in DOMAIN c /\ h \in K
        BY <1>3, <1>5, <2>2
      <3>2. after[h] = hist[h] \cup {x} /\ h \in known
        BY <1>1, <1>7, <2>2, <3>1
      <3>3. x \notin hist[h]
        BY <1>7, <3>1
      <3>4. ASSUME NEW j \in DOMAIN d
            PROVE  d[j].age < d[h].age <=> j = x \/ age(j) < age(h)
        <4>1. CASE j = x
          BY <1>3, <1>6, <3>1, <4>1
        <4>2. CASE j # x
          BY <1>3, <1>5, <1>6, <3>1, <4>2
        <4>3. QED
          BY <4>1, <4>2
      <3>5. \A j \in DOMAIN c : age(j) < age(h) => j \in DOMAIN d
        BY <1>3, <1>5, <3>1
      <3>6. after[h] = {j \in DOMAIN d : d[j].age < d[h].age}
        BY <1>5, <1>7, <3>1, <3>2, <3>4, <3>5
      <3>7. d[h].age = Cardinality(after[h])
        <4>1. Cardinality(after[h]) = Cardinality(hist[h]) + 1
          <5>1. IsFiniteSet(hist[h])
            BY <1>7, <3>1
          <5>2. QED
            BY <3>2, <3>3, <5>1, FS_AddElement
        <4>2. d[h].age = age(h) + 1
          BY <1>6, <2>2, <3>1
        <4>3. age(h) = Cardinality(hist[h])
          BY <1>7, <3>1
        <4>4. QED
          BY <4>1, <4>2, <4>3
      <3>8. QED
        BY <3>2, <3>6, <3>7
    <2>3. QED
      BY <2>1, <2>2
  <1>11. QED
    BY <1>8, <1>9, <1>10 DEF Recent, known, after, d


\* A get of a key that is present, seen from the history of uses.
LEMMA PromoteKeepsRecency ==
    ASSUME NEW K, NEW V, NEW cap \in Nat \ {0}, NEW c, IsLru(c, K, V, cap),
           NEW old \in SUBSET K, NEW hist, Recent(c, cap, K, old, hist), NEW x \in DOMAIN c
    PROVE  Recent(promote(c, x), cap, K, old \cup {x}, SinceAfter(hist, K, x))
  <1> DEFINE d == promote(c, x)
  <1>1. /\ DOMAIN d = DOMAIN c /\ d[x].age = 0
        /\ \A j \in DOMAIN c \ {x} : d[j].age = AgeBehind(c, x, j)
    BY DEF promote
  <1> HIDE DEF d
  <1>2. Recent(d, cap, K, old \cup {x}, SinceAfter(hist, K, x))
    BY <1>1, FrontKeepsRecency
  <1>3. QED
    BY <1>2 DEF d

\* A push of any key, seen from the history of uses.
LEMMA PushKeepsRecency ==
    ASSUME NEW K, NEW V, NEW cap \in Nat \ {0}, NEW c, IsLru(c, K, V, cap),
           NEW old \in SUBSET K, NEW hist, Recent(c, cap, K, old, hist), NEW x \in K, NEW v
    PROVE  Recent(push(c, cap, x, v), cap, K, old \cup {x}, SinceAfter(hist, K, x))
  <1>1. CASE x \notin DOMAIN c
    BY <1>1, NewKeyKeepsRecency
  <1>2. CASE x \in DOMAIN c
    <2> DEFINE d == push(c, cap, x, v)
    <2>1. \A i \in DOMAIN c \ {x} : AgeBehind(c, x, i) < cap
      BY <1>2, AgeBehindBounds
    <2>2. /\ DOMAIN d = DOMAIN c /\ d[x].age = 0
          /\ \A j \in DOMAIN c \ {x} : d[j].age = AgeBehind(c, x, j)
      BY <1>2, <2>1 DEF push
    <2> HIDE DEF d
    <2>3. Recent(d, cap, K, old \cup {x}, SinceAfter(hist, K, x))
      BY <1>2, <2>2, FrontKeepsRecency
    <2>4. QED
      BY <2>3 DEF d
  <1>3. QED
    BY <1>1, <1>2

\* A key used is present unless as many other keys as the map holds were used
\* since.
LEMMA RecentIsPresent ==
    ASSUME NEW K, NEW V, NEW cap \in Nat \ {0}, NEW c, IsLru(c, K, V, cap),
           NEW old \in SUBSET K, NEW hist, Recent(c, cap, K, old, hist), NEW h \in K
    PROVE  /\ Cardinality(hist[h]) \in Nat
           /\ h \in DOMAIN c <=> h \in old /\ Cardinality(hist[h]) < cap
  <1>1. Cardinality(hist[h]) \in Nat
    BY FS_CardinalityType DEF Recent
  <1>2. ASSUME h \in DOMAIN c PROVE h \in old /\ Cardinality(hist[h]) < cap
    BY <1>2 DEF Recent, IsLru
  <1>3. ASSUME h \in old, h \notin DOMAIN c PROVE ~(Cardinality(hist[h]) < cap)
    BY <1>1, <1>3 DEF Recent
  <1>4. QED
    BY <1>1, <1>2, <1>3

-----------------------------------------------------------------------------
(***************************************************************************)
(* The four maps of the block cache, and their types.                      *)
(***************************************************************************)

\* The maps that each write replaces; the others and the capacity stay.
LEMMA MapsAfter ==
    ASSUME NEW c, IsCacheRecord(c), NEW b, NEW v, NEW n
    PROVE  /\ insert_header(c, b, b) =
                [capacity          |-> c.capacity,
                 headers_by_hash   |-> push(c.headers_by_hash, Cap(c), b, b),
                 headers_by_number |-> push(c.headers_by_number, Cap(c), NumberOf[b], b),
                 hash_by_number    |-> push(c.hash_by_number, Cap(c), NumberOf[b], b),
                 bodies_by_hash    |-> c.bodies_by_hash]
           /\ insert_body(c, b, v) =
                [capacity          |-> c.capacity,
                 headers_by_hash   |-> c.headers_by_hash,
                 headers_by_number |-> c.headers_by_number,
                 hash_by_number    |-> c.hash_by_number,
                 bodies_by_hash    |-> push(c.bodies_by_hash, Cap(c), b, v)]
           /\ touch_header_by_hash(c, b) =
                [capacity          |-> c.capacity,
                 headers_by_hash   |-> promote(c.headers_by_hash, b),
                 headers_by_number |-> c.headers_by_number,
                 hash_by_number    |-> c.hash_by_number,
                 bodies_by_hash    |-> c.bodies_by_hash]
           /\ touch_header_by_number(c, n) =
                [capacity          |-> c.capacity,
                 headers_by_hash   |-> c.headers_by_hash,
                 headers_by_number |-> promote(c.headers_by_number, n),
                 hash_by_number    |-> c.hash_by_number,
                 bodies_by_hash    |-> c.bodies_by_hash]
           /\ touch_body_by_hash(c, b) =
                [capacity          |-> c.capacity,
                 headers_by_hash   |-> c.headers_by_hash,
                 headers_by_number |-> c.headers_by_number,
                 hash_by_number    |-> c.hash_by_number,
                 bodies_by_hash    |-> promote(c.bodies_by_hash, b)]
  <1>1. PICK hh, hn, nh, bb, ph, pn, pb :
          /\ hh = push(c.headers_by_hash, Cap(c), b, b)
          /\ hn = push(c.headers_by_number, Cap(c), NumberOf[b], b)
          /\ nh = push(c.hash_by_number, Cap(c), NumberOf[b], b)
          /\ bb = push(c.bodies_by_hash, Cap(c), b, v)
          /\ ph = promote(c.headers_by_hash, b)
          /\ pn = promote(c.headers_by_number, n)
          /\ pb = promote(c.bodies_by_hash, b)
    OBVIOUS
  <1>2. insert_header(c, b, b) = [c EXCEPT !.headers_by_hash = hh, !.headers_by_number = hn,
                                           !.hash_by_number = nh]
    BY <1>1 DEF insert_header
  <1>3. insert_body(c, b, v) = [c EXCEPT !.bodies_by_hash = bb]
    BY <1>1 DEF insert_body
  <1>4. /\ touch_header_by_hash(c, b) = [c EXCEPT !.headers_by_hash = ph]
        /\ touch_header_by_number(c, n) = [c EXCEPT !.headers_by_number = pn]
        /\ touch_body_by_hash(c, b) = [c EXCEPT !.bodies_by_hash = pb]
    BY <1>1 DEF touch_header_by_hash, touch_header_by_number, touch_body_by_hash
  <1>5. QED
    BY <1>1, <1>2, <1>3, <1>4 DEF IsCacheRecord

\* One operation of a critical section on the cache, with the keys and values
\* the code gives it.
Updated(c) ==
    {insert_header(c, b, b) : b \in Block} \cup {insert_body(c, b, v) : b, v \in Block}
    \cup {touch_header_by_hash(c, b) : b \in Block}
    \cup {touch_header_by_number(c, n) : n \in Nat}
    \cup {touch_body_by_hash(c, b) : b \in Block}

\* Each operation keeps the four maps within the capacity.
LEMMA UpdateKeepsTypes ==
    ASSUME NEW c, IsBlockCache(c), NEW d \in Updated(c)
    PROVE  IsBlockCache(d)
  <1>1. Cap(c) \in Nat \ {0} /\ c.capacity \in Nat /\ IsCacheRecord(c)
    BY DefaultAssumption DEF IsBlockCache, Cap
  <1>2. ASSUME NEW hh, NEW hn, NEW nh, NEW bb,
               IsLru(hh, Block, Block, Cap(c)), IsLru(hn, Nat, Block, Cap(c)),
               IsLru(nh, Nat, Block, Cap(c)), IsLru(bb, Block, Block, Cap(c)),
               d = [capacity |-> c.capacity, headers_by_hash |-> hh, headers_by_number |-> hn,
                    hash_by_number |-> nh, bodies_by_hash |-> bb]
        PROVE  IsBlockCache(d)
    <2>1. /\ d.capacity = c.capacity /\ d.headers_by_hash = hh /\ d.headers_by_number = hn
          /\ d.hash_by_number = nh /\ d.bodies_by_hash = bb
      BY <1>2
    <2>2. Cap(d) = Cap(c)
      BY <2>1 DEF Cap
    <2>3. QED
      BY <1>1, <1>2, <2>1, <2>2 DEF IsBlockCache, IsCacheRecord
  <1>3. /\ IsLru(c.headers_by_hash, Block, Block, Cap(c))
        /\ IsLru(c.headers_by_number, Nat, Block, Cap(c))
        /\ IsLru(c.hash_by_number, Nat, Block, Cap(c))
        /\ IsLru(c.bodies_by_hash, Block, Block, Cap(c))
    BY DEF IsBlockCache
  <1>4. ASSUME NEW b \in Block, NEW v \in Block, NEW n \in Nat,
               \/ d = insert_header(c, b, b) \/ d = insert_body(c, b, v)
               \/ d = touch_header_by_hash(c, b) \/ d = touch_header_by_number(c, n)
               \/ d = touch_body_by_hash(c, b)
        PROVE  IsBlockCache(d)
    <2>1. NumberOf[b] \in Nat
      BY NumberOfAssumption
    <2>2. /\ IsLru(push(c.headers_by_hash, Cap(c), b, b), Block, Block, Cap(c))
          /\ IsLru(push(c.headers_by_number, Cap(c), NumberOf[b], b), Nat, Block, Cap(c))
          /\ IsLru(push(c.hash_by_number, Cap(c), NumberOf[b], b), Nat, Block, Cap(c))
          /\ IsLru(push(c.bodies_by_hash, Cap(c), b, v), Block, Block, Cap(c))
      BY <1>1, <1>3, <2>1, PushLru
    <2>3. /\ IsLru(promote(c.headers_by_hash, b), Block, Block, Cap(c))
          /\ IsLru(promote(c.headers_by_number, n), Nat, Block, Cap(c))
          /\ IsLru(promote(c.bodies_by_hash, b), Block, Block, Cap(c))
      BY <1>1, <1>3, PromoteLru
    <2>4. CASE d = insert_header(c, b, b)
      <3>1. d = [capacity          |-> c.capacity,
                 headers_by_hash   |-> push(c.headers_by_hash, Cap(c), b, b),
                 headers_by_number |-> push(c.headers_by_number, Cap(c), NumberOf[b], b),
                 hash_by_number    |-> push(c.hash_by_number, Cap(c), NumberOf[b], b),
                 bodies_by_hash    |-> c.bodies_by_hash]
        BY <1>1, <2>4, MapsAfter
      <3>2. QED
        BY <1>2, <1>3, <2>2, <3>1
    <2>5. CASE d = insert_body(c, b, v)
      BY <1>1, <1>2, <1>3, <2>2, <2>5, MapsAfter
    <2>6. CASE d = touch_header_by_hash(c, b)
      BY <1>1, <1>2, <1>3, <2>3, <2>6, MapsAfter
    <2>7. CASE d = touch_header_by_number(c, n)
      BY <1>1, <1>2, <1>3, <2>3, <2>7, MapsAfter
    <2>8. CASE d = touch_body_by_hash(c, b)
      BY <1>1, <1>2, <1>3, <2>3, <2>8, MapsAfter
    <2>9. QED
      BY <1>4, <2>4, <2>5, <2>6, <2>7, <2>8
  <1>5. ASSUME NEW n \in Nat, d = touch_header_by_number(c, n) PROVE IsBlockCache(d)
    <2>1. IsLru(promote(c.headers_by_number, n), Nat, Block, Cap(c))
      BY <1>1, <1>3, PromoteLru
    <2>2. QED
      BY <1>1, <1>2, <1>3, <1>5, <2>1, MapsAfter
  <1>6. 0 \in Nat
    OBVIOUS
  <1>7. QED
    BY <1>4, <1>5, <1>6 DEF Updated

\* The values a look-up may give.
LEMMA LookupTypes ==
    ASSUME NEW c, IsBlockCache(c)
    PROVE  /\ \A h : get_header_by_hash(c, h) \subseteq Block
           /\ \A n : get_header_by_number(c, n) \subseteq Block
           /\ \A h : get_body_by_hash(c, h) \subseteq Block
  BY DEF IsBlockCache, IsLru, get_header_by_hash, get_header_by_number, get_body_by_hash,
         Lookup, contains, peek

-----------------------------------------------------------------------------
(***************************************************************************)
(* The indexes of the block cache agree, and bodies are under their own hash. *)
(***************************************************************************)

\* insert_header keeps the header indexes in agreement: it replaces the entry
\* of a number in both number maps or in neither.
LEMMA InsertHeaderAgrees ==
    ASSUME NEW c, IsCacheRecord(c), IndexesAgree(c), NEW b
    PROVE  /\ IsCacheRecord(insert_header(c, b, b))
           /\ IndexesAgree(insert_header(c, b, b))
  <1> DEFINE n == NumberOf[b]
             hh == push(c.headers_by_hash, Cap(c), b, b)
             hn == push(c.headers_by_number, Cap(c), n, b)
             nh == push(c.hash_by_number, Cap(c), n, b)
             d == insert_header(c, b, b)
  <1>1. d = [capacity |-> c.capacity, headers_by_hash |-> hh, headers_by_number |-> hn,
             hash_by_number |-> nh, bodies_by_hash |-> c.bodies_by_hash]
    <2> DEFINE r == [c EXCEPT !.headers_by_hash = hh]
               s == [r EXCEPT !.headers_by_number = hn]
               t == [s EXCEPT !.hash_by_number = nh]
    <2>1. d = t
      BY DEF insert_header
    <2> HIDE DEF hh, hn, nh, d
    <2>2. r = [capacity |-> c.capacity, headers_by_hash |-> hh,
               headers_by_number |-> c.headers_by_number,
               hash_by_number |-> c.hash_by_number, bodies_by_hash |-> c.bodies_by_hash]
      BY DEF IsCacheRecord
    <2>3. s = [capacity |-> c.capacity, headers_by_hash |-> hh, headers_by_number |-> hn,
               hash_by_number |-> c.hash_by_number, bodies_by_hash |-> c.bodies_by_hash]
      <3> HIDE DEF r
      <3> QED BY <2>2
    <2>4. QED
      <3> HIDE DEF s
      <3> QED BY <2>1, <2>3
  <1>2. /\ DOMAIN hh \subseteq {b} \cup DOMAIN c.headers_by_hash
        /\ peek(hh, b) = b
        /\ \A j \in DOMAIN hh \ {b} : peek(hh, j) = peek(c.headers_by_hash, j)
    BY PushValues
  <1>3. /\ DOMAIN hn \subseteq {n} \cup DOMAIN c.headers_by_number
        /\ peek(hn, n) = b
        /\ \A j \in DOMAIN hn \ {n} : peek(hn, j) = peek(c.headers_by_number, j)
    BY PushValues
  <1>4. /\ DOMAIN nh \subseteq {n} \cup DOMAIN c.hash_by_number
        /\ peek(nh, n) = b
        /\ \A j \in DOMAIN nh \ {n} : peek(nh, j) = peek(c.hash_by_number, j)
    BY PushValues
  <1> HIDE DEF hh, hn, nh, d
  <1>5. d.headers_by_hash = hh /\ d.headers_by_number = hn /\ d.hash_by_number = nh
    BY <1>1
  <1>6. IsCacheRecord(d)
    BY <1>1 DEF IsCacheRecord
  <1>7. IndexesAgree(d)
    BY <1>2, <1>3, <1>4, <1>5 DEF IndexesAgree
  <1>8. QED
    BY <1>6, <1>7 DEF d

\* A cache whose header maps hold the same entries, in whatever recency
\* order, agrees when the original did.
LEMMA SameEntriesAgree ==
    ASSUME NEW c, IndexesAgree(c), NEW d,
           DOMAIN d.headers_by_hash = DOMAIN c.headers_by_hash,
           \A j \in DOMAIN c.headers_by_hash :
               peek(d.headers_by_hash, j) = peek(c.headers_by_hash, j),
           DOMAIN d.headers_by_number = DOMAIN c.headers_by_number,
           \A j \in DOMAIN c.headers_by_number :
               peek(d.headers_by_number, j) = peek(c.headers_by_number, j),
           d.hash_by_number = c.hash_by_number
    PROVE  IndexesAgree(d)
  BY DEF IndexesAgree

\* The promoting gets and insert_body leave the header entries as they are.
LEMMA TouchAgrees ==
    ASSUME NEW c, IsCacheRecord(c), IndexesAgree(c), NEW k, NEW v,
           NEW d \in {touch_header_by_hash(c, k), touch_header_by_number(c, k),
                      touch_body_by_hash(c, k), insert_body(c, k, v)}
    PROVE  IsCacheRecord(d) /\ IndexesAgree(d)
  <1>1. CASE d = touch_header_by_hash(c, k)
    <2>1. d = [capacity |-> c.capacity, headers_by_hash |-> promote(c.headers_by_hash, k),
               headers_by_number |-> c.headers_by_number,
               hash_by_number |-> c.hash_by_number, bodies_by_hash |-> c.bodies_by_hash]
      BY <1>1 DEF touch_header_by_hash, IsCacheRecord
    <2>2. QED
      BY <2>1, PromoteValues, SameEntriesAgree DEF IsCacheRecord
  <1>2. CASE d = touch_header_by_number(c, k)
    <2>1. d = [capacity |-> c.capacity, headers_by_hash |-> c.headers_by_hash,
               headers_by_number |-> promote(c.headers_by_number, k),
               hash_by_number |-> c.hash_by_number, bodies_by_hash |-> c.bodies_by_hash]
      BY <1>2 DEF touch_header_by_number, IsCacheRecord
    <2>2. QED
      BY <2>1, PromoteValues, SameEntriesAgree DEF IsCacheRecord
  <1>3. CASE d = touch_body_by_hash(c, k) \/ d = insert_body(c, k, v)
    <2>1. d = [capacity |-> c.capacity, headers_by_hash |-> c.headers_by_hash,
               headers_by_number |-> c.headers_by_number,
               hash_by_number |-> c.hash_by_number, bodies_by_hash |-> d.bodies_by_hash]
      BY <1>3 DEF touch_body_by_hash, insert_body, IsCacheRecord
    <2>2. QED
      BY <2>1, SameEntriesAgree DEF IsCacheRecord
  <1>4. QED
    BY <1>1, <1>2, <1>3

\* on_new_block of CachingBlockImport, and with it insert.
LEMMA InsertAgrees ==
    ASSUME NEW c, IsCacheRecord(c), IndexesAgree(c), NEW b
    PROVE  /\ IsCacheRecord(insert(c, b, b, b))
           /\ IndexesAgree(insert(c, b, b, b))
  <1>1. /\ IsCacheRecord(insert_header(c, b, b))
        /\ IndexesAgree(insert_header(c, b, b))
    BY InsertHeaderAgrees
  <1>2. QED
    BY <1>1, TouchAgrees DEF insert

\* A body stored under its own hash keeps the map true to itself, and so do all
\* operations on headers and the look-ups.
LEMMA UpdateKeepsBodies ==
    ASSUME NEW c, IsCacheRecord(c), BodiesMatchHash(c), NEW b, NEW n
    PROVE  /\ BodiesMatchHash(insert_header(c, b, b))
           /\ BodiesMatchHash(insert_body(c, b, b))
           /\ BodiesMatchHash(touch_header_by_hash(c, b))
           /\ BodiesMatchHash(touch_header_by_number(c, n))
           /\ BodiesMatchHash(touch_body_by_hash(c, b))
           /\ BodiesMatchHash(insert(c, b, b, b))
  <1>1. PICK d : d = insert_header(c, b, b)
    OBVIOUS
  <1>2. d.bodies_by_hash = c.bodies_by_hash /\ IsCacheRecord(d)
    <2>1. d = [capacity          |-> c.capacity,
               headers_by_hash   |-> push(c.headers_by_hash, Cap(c), b, b),
               headers_by_number |-> push(c.headers_by_number, Cap(c), NumberOf[b], b),
               hash_by_number    |-> push(c.hash_by_number, Cap(c), NumberOf[b], b),
               bodies_by_hash    |-> c.bodies_by_hash]
      BY <1>1, MapsAfter
    <2>2. QED
      BY <2>1 DEF IsCacheRecord
  <1>3. ASSUME NEW e, IsCacheRecord(e), BodiesMatchHash(e)
        PROVE  BodiesMatchHash(insert_body(e, b, b))
    <2>1. insert_body(e, b, b).bodies_by_hash = push(e.bodies_by_hash, Cap(e), b, b)
      BY <1>3, MapsAfter
    <2>2. QED
      BY <1>3, <2>1, PushValues DEF BodiesMatchHash
  <1>4. BodiesMatchHash(d)
    BY <1>2 DEF BodiesMatchHash
  <1>5. /\ touch_header_by_hash(c, b).bodies_by_hash = c.bodies_by_hash
        /\ touch_header_by_number(c, n).bodies_by_hash = c.bodies_by_hash
        /\ touch_body_by_hash(c, b).bodies_by_hash = promote(c.bodies_by_hash, b)
    BY DEF touch_header_by_hash, touch_header_by_number, touch_body_by_hash, IsCacheRecord
  <1>6. BodiesMatchHash(touch_body_by_hash(c, b))
    BY <1>5, PromoteValues DEF BodiesMatchHash
  <1>7. QED
    BY <1>1, <1>2, <1>3, <1>4, <1>5, <1>6 DEF insert, BodiesMatchHash
=============================================================================
