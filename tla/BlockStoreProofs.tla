-------------------------- MODULE BlockStoreProofs --------------------------
(***************************************************************************)
(* Proofs about BlockStore, for every set of blocks, every capacity and    *)
(* however often the process starts, saves and is killed: what the file    *)
(* holds is intact, and a start restores what was written of it.           *)
(*                                                                         *)
(* drain_blocks sorts and load_from_file folds, so two facts need an       *)
(* induction. It is carried out on the set of the numbers for which a fact *)
(* holds, from the least number outside of it.                             *)
(***************************************************************************)
EXTENDS BlockStore, CacheProofs, WellFoundedInduction

-----------------------------------------------------------------------------
(***************************************************************************)
(* Induction.                                                              *)
(***************************************************************************)

\* A set of natural numbers has a least one.
LEMMA LeastNatural ==
    ASSUME NEW T \in SUBSET Nat, T # {}
    PROVE  \E m \in T : \A n \in T : m <= n
  <1>1. PICK R : R = OpToRel(<, Nat)
    OBVIOUS
  <1>2. \A m, n \in Nat : <<m, n>> \in R <=> m < n
    BY <1>1 DEF OpToRel
  <1>3. PICK m \in T : \A n \in T : ~ (<<n, m>> \in R)
    BY <1>1, NatLessThanWellFounded, WFMin
  <1>4. ASSUME NEW n \in T PROVE m <= n
    <2>1. m \in Nat /\ n \in Nat
      OBVIOUS
    <2>2. ~(n < m)
      BY <1>2, <1>3, <2>1, Zenon
    <2>3. QED
      BY <2>1, <2>2
  <1>5. QED
    BY <1>4

\* A set that holds 0 and with each number the next one holds them all.
LEMMA InductionOnNat ==
    ASSUME NEW P \in SUBSET Nat, 0 \in P, \A n \in P : n + 1 \in P
    PROVE  P = Nat
  <1>1. SUFFICES ASSUME Nat \ P # {} PROVE FALSE
    OBVIOUS
  <1>2. PICK m \in Nat \ P : \A n \in Nat \ P : m <= n
    BY <1>1, LeastNatural
  <1>3. m - 1 \in Nat /\ m - 1 \in P
    BY <1>2
  <1>4. QED
    BY <1>2, <1>3

\* The same up to a bound.
LEMMA InductionUpTo ==
    ASSUME NEW n \in Nat, NEW P, 0 \in P, \A k \in 0 .. n - 1 : k \in P => k + 1 \in P
    PROVE  0 .. n \subseteq P
  <1>1. PICK Q : Q = {k \in Nat : k <= n => k \in P}
    OBVIOUS
  <1>2. Q \in SUBSET Nat /\ 0 \in Q
    BY <1>1
  <1>3. ASSUME NEW k \in Q PROVE k + 1 \in Q
    <2>1. k \in Nat /\ (k <= n => k \in P)
      BY <1>1, <1>3
    <2>2. k + 1 <= n => k + 1 \in P
      BY <2>1
    <2>3. QED
      BY <1>1, <2>1, <2>2
  <1>4. Q = Nat
    BY <1>2, <1>3, InductionOnNat
  <1>5. QED
    BY <1>1, <1>4

\* A finite set of natural numbers can be listed in order.
Lists(s, S) ==
    /\ s \in [1 .. Cardinality(S) -> S]
    /\ \A j, k \in 1 .. Cardinality(S) : j < k => s[j] < s[k]

LEMMA SortedList ==
    ASSUME NEW S \in SUBSET Nat, IsFiniteSet(S)
    PROVE  \E s : Lists(s, S)
  <1>1. PICK P : P = {n \in Nat : \A T \in SUBSET Nat :
                         IsFiniteSet(T) /\ Cardinality(T) = n => \E s : Lists(s, T)}
    OBVIOUS
  <1>2. 0 \in P
    <2>1. ASSUME NEW T \in SUBSET Nat, IsFiniteSet(T), Cardinality(T) = 0
          PROVE  Lists(<<>>, T)
      <3>1. <<>> \in [1 .. 0 -> T] /\ 1 .. 0 = {}
        OBVIOUS
      <3>2. QED
        BY <2>1, <3>1 DEF Lists
    <2>2. QED
      BY <1>1, <2>1
  <1>3. ASSUME NEW n \in P PROVE n + 1 \in P
    <2>1. n \in Nat
      BY <1>1, <1>3
    <2>2. ASSUME NEW T \in SUBSET Nat, IsFiniteSet(T), Cardinality(T) = n + 1
          PROVE  \E s : Lists(s, T)
      <3>1. T # {}
        BY <2>1, <2>2, FS_EmptySet
      <3>2. PICK m \in T : \A x \in T : m <= x
        BY <3>1, LeastNatural
      <3>3. PICK U : U = T \ {m}
        OBVIOUS
      <3>4. U \in SUBSET Nat /\ IsFiniteSet(U) /\ Cardinality(U) = n
        <4>1. Cardinality(T \ {m}) = Cardinality(T) - 1 /\ IsFiniteSet(T \ {m})
          BY <2>2, <3>2, FS_RemoveElement, Zenon
        <4>2. QED
          BY <2>1, <2>2, <3>3, <4>1
      <3>5. PICK s : Lists(s, U)
        BY <1>1, <1>3, <3>4
      <3>6. /\ \A k \in 1 .. n : s[k] \in U
            /\ \A j, k \in 1 .. n : j < k => s[j] < s[k]
        BY <3>4, <3>5 DEF Lists
      <3>7. \A x \in U : x \in T /\ m < x
        BY <3>2, <3>3
      <3>8. PICK t : t = [k \in 1 .. n + 1 |-> IF k = 1 THEN m ELSE s[k - 1]]
        OBVIOUS
      <3>9. \A k \in 1 .. n + 1 : k # 1 => k - 1 \in 1 .. n
        BY <2>1
      <3>10. t \in [1 .. n + 1 -> T]
        BY <3>2, <3>6, <3>7, <3>8, <3>9
      <3>11. ASSUME NEW j \in 1 .. n + 1, NEW k \in 1 .. n + 1, j < k PROVE t[j] < t[k]
        <4>1. k # 1 /\ k - 1 \in 1 .. n
          BY <2>1, <3>11
        <4>2. t[k] = s[k - 1] /\ s[k - 1] \in U
          BY <3>6, <3>8, <4>1
        <4>3. CASE j = 1
          BY <3>7, <3>8, <4>2, <4>3
        <4>4. CASE j # 1
          <5>1. j - 1 \in 1 .. n /\ j - 1 < k - 1
            BY <2>1, <3>11, <4>4
          <5>2. t[j] = s[j - 1]
            BY <3>8, <4>4
          <5>3. QED
            BY <3>6, <4>1, <4>2, <5>1, <5>2
        <4>5. QED
          BY <4>3, <4>4
      <3>12. Lists(t, T)
        BY <2>2, <3>10, <3>11 DEF Lists
      <3>13. QED
        BY <3>12
    <2>3. QED
      BY <1>1, <2>1, <2>2
  <1>4. P = Nat
    BY <1>1, <1>2, <1>3, InductionOnNat
  <1>5. Cardinality(S) \in P
    BY <1>4, FS_CardinalityType
  <1>6. QED
    BY <1>1, <1>5
-----------------------------------------------------------------------------
(***************************************************************************)
(* What drain_blocks writes.                                               *)
(***************************************************************************)

\* Entries of the file that were taken from the cache d: each is one block with
\* the body the cache held for it, by ascending number.
Intact(entries, d) ==
    /\ \A k \in DOMAIN entries :
         /\ entries[k].header = entries[k].hash
         /\ Lookup(d.bodies_by_hash, entries[k].hash) = {entries[k].body}
    /\ \A j, k \in DOMAIN entries :
         j < k => NumberOf[entries[j].header] < NumberOf[entries[k].header]

\* No two entries of a map have the same age, so there are finitely many.
LEMMA LruFinite ==
    ASSUME NEW K, NEW V, NEW cap \in Nat, NEW c, IsLru(c, K, V, cap)
    PROVE  IsFiniteSet(DOMAIN c)
  <1>1. PICK age : age = [k \in DOMAIN c |-> c[k].age]
    OBVIOUS
  <1>2. \A k \in DOMAIN c : c[k].age \in 0 .. cap - 1
    BY DEF IsLru
  <1>3. age \in Injection(DOMAIN c, 0 .. cap - 1)
    BY <1>1, <1>2 DEF Injection, IsInjective, IsLru
  <1>4. IsFiniteSet(0 .. cap - 1)
    BY FS_Interval
  <1>5. QED
    BY <1>3, <1>4, FS_Injection

LEMMA DrainedIntact ==
    ASSUME NEW c, IsBlockCache(c), IndexesAgree(c)
    PROVE  drain_blocks(c) \in Seq(Entry) /\ Intact(drain_blocks(c), c)
  <1>1. PICK complete : complete =
          {n \in DOMAIN c.hash_by_number :
             /\ contains(c.headers_by_number, n)
             /\ contains(c.bodies_by_hash, peek(c.hash_by_number, n))}
    OBVIOUS
  <1>2. complete \in SUBSET Nat /\ IsFiniteSet(complete)
    <2>1. Cap(c) \in Nat
      BY DefaultAssumption DEF IsBlockCache, Cap
    <2>2. IsFiniteSet(DOMAIN c.hash_by_number)
      BY <2>1, LruFinite DEF IsBlockCache
    <2>3. DOMAIN c.hash_by_number \subseteq Nat
      BY DEF IsBlockCache, IsLru
    <2>4. QED
      BY <1>1, <2>2, <2>3, FS_Subset
  <1>3. PICK order : order = CHOOSE s \in SetToSeqs(complete) :
                               \A j, k \in DOMAIN s : j < k => Earlier(c, s[j], s[k])
    OBVIOUS
  <1>4. drain_blocks(c) =
          [k \in DOMAIN order |->
             [hash |-> peek(c.hash_by_number, order[k]),
              header |-> peek(c.headers_by_number, order[k]),
              body |-> peek(c.bodies_by_hash, peek(c.hash_by_number, order[k]))]]
    BY <1>1, <1>3, Zenon DEF drain_blocks
  <1>5. PICK l \in Nat : l = Cardinality(complete)
    BY <1>2, FS_CardinalityType
  <1>6. /\ DOMAIN order = 1 .. l
        /\ \A k \in 1 .. l : order[k] \in complete
        /\ \A j, k \in 1 .. l : j < k => order[j] < order[k]
    <2>1. PICK s : Lists(s, complete)
      BY <1>2, SortedList
    <2>2. /\ s \in [1 .. l -> complete]
          /\ \A j, k \in 1 .. l : j < k => s[j] < s[k]
      BY <1>5, <2>1 DEF Lists
    <2>3. ASSUME NEW j \in 1 .. l, NEW k \in 1 .. l, j # k PROVE s[j] # s[k]
      <3>1. s[j] \in Nat /\ s[k] \in Nat
        BY <1>2, <2>2
      <3>2. j < k \/ k < j
        BY <2>3
      <3>3. QED
        BY <2>2, <3>1, <3>2
    <2>4. s \in SetToSeqs(complete)
      BY <1>5, <2>2, <2>3 DEF SetToSeqs
    <2>5. \A j, k \in DOMAIN s : j < k => Earlier(c, s[j], s[k])
      BY <2>2 DEF Earlier
    <2>6. order \in SetToSeqs(complete)
          /\ \A j, k \in DOMAIN order : j < k => Earlier(c, order[j], order[k])
      BY <1>3, <2>4, <2>5, Zenon
    <2>7. QED
      BY <1>5, <2>6 DEF SetToSeqs, Earlier
  <1>7. ASSUME NEW n \in complete
        PROVE  /\ peek(c.hash_by_number, n) \in Block
               /\ peek(c.headers_by_number, n) = peek(c.hash_by_number, n)
               /\ NumberOf[peek(c.headers_by_number, n)] = n
               /\ Lookup(c.bodies_by_hash, peek(c.hash_by_number, n)) =
                    {peek(c.bodies_by_hash, peek(c.hash_by_number, n))}
               /\ peek(c.bodies_by_hash, peek(c.hash_by_number, n)) \in Block
    <2>1. /\ n \in DOMAIN c.hash_by_number /\ n \in DOMAIN c.headers_by_number
          /\ peek(c.hash_by_number, n) \in DOMAIN c.bodies_by_hash
      BY <1>1 DEF contains
    <2>2. /\ peek(c.headers_by_number, n) = peek(c.hash_by_number, n)
          /\ NumberOf[peek(c.headers_by_number, n)] = n
      BY <2>1 DEF IndexesAgree
    <2>3. \A h \in DOMAIN c.bodies_by_hash : peek(c.bodies_by_hash, h) \in Block
      BY DEF IsBlockCache, IsLru, peek
    <2>4. peek(c.hash_by_number, n) \in Block
      BY <2>1 DEF IsBlockCache, IsLru, peek
    <2>5. QED
      BY <2>1, <2>2, <2>3, <2>4 DEF Lookup, contains
  <1>8. PICK entries : entries = drain_blocks(c)
    OBVIOUS
  <1>9. /\ DOMAIN entries = 1 .. l
        /\ \A k \in 1 .. l :
             entries[k] = [hash |-> peek(c.hash_by_number, order[k]),
                           header |-> peek(c.headers_by_number, order[k]),
                           body |-> peek(c.bodies_by_hash, peek(c.hash_by_number, order[k]))]
    BY <1>4, <1>6, <1>8
  <1>10. ASSUME NEW k \in 1 .. l
         PROVE  /\ entries[k] \in Entry /\ entries[k].header = entries[k].hash
                /\ NumberOf[entries[k].header] = order[k]
                /\ Lookup(c.bodies_by_hash, entries[k].hash) = {entries[k].body}
    BY <1>6, <1>7, <1>9 DEF Entry
  <1>11. entries \in Seq(Entry)
    <2>1. entries = [k \in 1 .. l |-> entries[k]]
      BY <1>4, <1>6, <1>8
    <2>2. QED
      BY <1>10, <2>1
  <1>12. Intact(entries, c)
    <2>1. ASSUME NEW j \in 1 .. l, NEW k \in 1 .. l, j < k
          PROVE  NumberOf[entries[j].header] < NumberOf[entries[k].header]
      <3>1. /\ NumberOf[entries[j].header] = order[j]
            /\ NumberOf[entries[k].header] = order[k]
        BY <1>10
      <3>2. order[j] < order[k]
        BY <1>6, <2>1
      <3>3. QED
        BY <3>1, <3>2
    <2>2. QED
      BY <1>9, <1>10, <2>1 DEF Intact
  <1>13. QED
    BY <1>8, <1>11, <1>12
-----------------------------------------------------------------------------
(***************************************************************************)
(* load_from_file is a loop: it inserts the readable entries one by one.   *)
(***************************************************************************)
InsertEntry(d, e) == insert(d, e.hash, e.header, e.body)

\* The entries that load_from_file inserts.
Readable(c, f) ==
    DOMAIN f.entries
      \cap UNION {1 .. (IF n < c.capacity THEN n ELSE c.capacity) : n \in f.count}

\* g is the function by which FoldLeft folds these entries into c.
Folds(g, c, f) ==
    g = [s \in SUBSET DOMAIN [k \in Readable(c, f) |-> k] |->
           IF s = {} THEN c
           ELSE InsertEntry(g[s \ {Max(s)}],
                            f.entries[[k \in Readable(c, f) |-> k][Max(s)]])]

LEMMA LoadFolds ==
    ASSUME NEW c, NEW f
    PROVE  load_from_file(c, f) =
             (CHOOSE g : Folds(g, c, f))[DOMAIN [k \in Readable(c, f) |-> k]]
  BY DEF load_from_file, FoldLeft, MapThenFoldSet, Folds, Readable, InsertEntry

\* The same function for the first n entries.
FoldsUpTo(g, n, c, entries) ==
    g = [s \in SUBSET (1 .. n) |->
           IF s = {} THEN c ELSE InsertEntry(g[s \ {Max(s)}], entries[Max(s)])]

\* The greatest of some numbers up to n.
LEMMA MaxUpTo ==
    ASSUME NEW n \in Nat, NEW s \in SUBSET (1 .. n), s # {}
    PROVE  Max(s) \in s /\ \A x \in s : Max(s) >= x
  <1>1. PICK B : B = {m \in Nat : \A x \in s : m >= x}
    OBVIOUS
  <1>2. n \in B /\ B \in SUBSET Nat
    BY <1>1
  <1>3. PICK m \in B : \A k \in B : m <= k
    BY <1>2, LeastNatural
  <1>4. m \in Nat /\ \A x \in s : m >= x
    BY <1>1
  <1>5. m \in s
    <2>1. SUFFICES ASSUME m \notin s PROVE FALSE
      OBVIOUS
    <2>2. PICK y : y \in s
      OBVIOUS
    <2>3. \A x \in s : x \in Nat \ {0} /\ m >= x /\ x # m
      BY <1>4, <2>1
    <2>4. m - 1 \in Nat /\ \A x \in s : m - 1 >= x
      BY <1>4, <2>2, <2>3
    <2>5. m - 1 \in B
      BY <1>1, <2>4
    <2>6. QED
      BY <1>3, <1>4, <2>5
  <1>6. \E x \in s : \A y \in s : x >= y
    BY <1>4, <1>5
  <1>7. QED
    BY <1>6 DEF Max

LEMMA FoldExists ==
    ASSUME NEW n \in Nat, NEW c, NEW entries
    PROVE  \E g : FoldsUpTo(g, n, c, entries)
  <1>1. PICK P : P = {m \in Nat : \E g : FoldsUpTo(g, m, c, entries)}
    OBVIOUS
  <1>2. 0 \in P
    <2>1. PICK g : g = [s \in SUBSET (1 .. 0) |-> c]
      OBVIOUS
    <2>2. \A s \in SUBSET (1 .. 0) : s = {}
      OBVIOUS
    <2>3. FoldsUpTo(g, 0, c, entries)
      BY <2>1, <2>2 DEF FoldsUpTo
    <2>4. QED
      BY <1>1, <2>3
  <1>3. ASSUME NEW m \in P PROVE m + 1 \in P
    <2>1. PICK g : m \in Nat /\ FoldsUpTo(g, m, c, entries)
      BY <1>1, <1>3
    <2>2. PICK f : f = [s \in SUBSET (1 .. m + 1) |->
                          IF s \in SUBSET (1 .. m) THEN g[s]
                          ELSE InsertEntry(g[s \ {Max(s)}], entries[Max(s)])]
      OBVIOUS
    <2>3. ASSUME NEW s \in SUBSET (1 .. m + 1), s \notin SUBSET (1 .. m)
          PROVE  s # {} /\ s \ {Max(s)} \in SUBSET (1 .. m)
      <3>1. s # {} /\ m + 1 \in s
        BY <2>1, <2>3
      <3>2. Max(s) = m + 1
        <4>1. Max(s) \in s /\ Max(s) >= m + 1
          BY <2>1, <3>1, MaxUpTo
        <4>2. Max(s) \in 1 .. m + 1
          BY <2>3, <4>1
        <4>3. QED
          BY <2>1, <4>1, <4>2
      <3>3. QED
        BY <2>1, <3>1, <3>2
    <2>4. SUBSET (1 .. m) \subseteq SUBSET (1 .. m + 1)
      BY <2>1
    <2>5. ASSUME NEW s \in SUBSET (1 .. m + 1)
          PROVE  f[s] = IF s = {} THEN c ELSE InsertEntry(f[s \ {Max(s)}], entries[Max(s)])
      <3>1. CASE s \in SUBSET (1 .. m)
        <4>1. f[s] = g[s]
          BY <2>2, <3>1
        <4>2. g[s] = IF s = {} THEN c ELSE InsertEntry(g[s \ {Max(s)}], entries[Max(s)])
          BY <2>1, <3>1 DEF FoldsUpTo
        <4>3. s \ {Max(s)} \in SUBSET (1 .. m)
          BY <3>1
        <4>4. f[s \ {Max(s)}] = g[s \ {Max(s)}]
          BY <2>2, <2>4, <4>3
        <4>5. QED
          BY <4>1, <4>2, <4>4
      <3>2. CASE s \notin SUBSET (1 .. m)
        <4>1. f[s] = InsertEntry(g[s \ {Max(s)}], entries[Max(s)])
          BY <2>2, <3>2
        <4>2. s # {} /\ f[s \ {Max(s)}] = g[s \ {Max(s)}]
          BY <2>2, <2>3, <2>4, <3>2
        <4>3. QED
          BY <4>1, <4>2
      <3>3. QED
        BY <3>1, <3>2
    <2>6. f = [s \in SUBSET (1 .. m + 1) |-> f[s]]
      BY <2>2
    <2>7. FoldsUpTo(f, m + 1, c, entries)
      BY <2>5, <2>6 DEF FoldsUpTo
    <2>8. QED
      BY <1>1, <2>1, <2>7
  <1>4. P = Nat
    BY <1>1, <1>2, <1>3, InductionOnNat
  <1>5. QED
    BY <1>1, <1>4

\* The caches h[0], h[1], ... of the loop of load_from_file.
LEMMA LoadInSteps ==
    ASSUME NEW c, NEW f, NEW n \in Nat, Readable(c, f) = 1 .. n
    PROVE  \E h : /\ h[0] = c
                  /\ \A k \in 1 .. n : h[k] = InsertEntry(h[k - 1], f.entries[k])
                  /\ load_from_file(c, f) = h[n]
  <1>1. DOMAIN [k \in Readable(c, f) |-> k] = 1 .. n
    BY Zenon
  <1>2. ASSUME NEW g PROVE Folds(g, c, f) <=> FoldsUpTo(g, n, c, f.entries)
    <2>1. ASSUME NEW s \in SUBSET (1 .. n), s # {}
          PROVE  [k \in Readable(c, f) |-> k][Max(s)] = Max(s)
      <3>1. Max(s) \in Readable(c, f)
        BY <2>1, MaxUpTo
      <3>2. QED
        BY <3>1
    <2>2. QED
      BY <1>1, <2>1 DEF Folds, FoldsUpTo
  <1>3. PICK g : g = CHOOSE x : Folds(x, c, f)
    OBVIOUS
  <1>4. Folds(g, c, f)
    <2>1. PICK x : FoldsUpTo(x, n, c, f.entries)
      BY FoldExists
    <2>2. Folds(x, c, f)
      BY <1>2, <2>1
    <2>3. QED
      BY <1>3, <2>2, Zenon
  <1>5. FoldsUpTo(g, n, c, f.entries)
    BY <1>2, <1>4
  <1>6. PICK h : h = [k \in 0 .. n |-> g[1 .. k]]
    OBVIOUS
  <1>7. h[0] = c
    <2>1. 1 .. 0 = {} /\ 0 \in 0 .. n
      OBVIOUS
    <2>2. g[{}] = c
      BY <1>5 DEF FoldsUpTo
    <2>3. QED
      BY <1>6, <2>1, <2>2
  <1>8. ASSUME NEW k \in 1 .. n PROVE h[k] = InsertEntry(h[k - 1], f.entries[k])
    <2>1. PICK s : s = 1 .. k
      OBVIOUS
    <2>2. s \in SUBSET (1 .. n) /\ k \in s /\ s \ {k} = 1 .. k - 1
      BY <2>1
    <2>3. Max(s) = k
      <3>1. Max(s) \in s /\ Max(s) >= k
        BY <2>2, MaxUpTo
      <3>2. QED
        BY <2>1, <3>1
    <2>4. g[s] = InsertEntry(g[s \ {Max(s)}], f.entries[Max(s)])
      BY <1>5, <2>2 DEF FoldsUpTo
    <2>5. h[k] = g[s] /\ h[k - 1] = g[1 .. k - 1]
      BY <1>6, <2>1
    <2>6. QED
      BY <2>2, <2>3, <2>4, <2>5
  <1>9. load_from_file(c, f) = h[n]
    BY <1>1, <1>3, <1>6, LoadFolds
  <1>10. QED
    BY <1>7, <1>8, <1>9
\* An element of a sequence.
LEMMA ElementOfSeq ==
    ASSUME NEW S, NEW s \in Seq(S), NEW k \in Nat \ {0}, k <= Len(s)
    PROVE  s[k] \in S /\ k \in DOMAIN s
  <1>1. Len(s) \in Nat /\ k \in 1 .. Len(s)
    OBVIOUS
  <1>2. QED
    BY <1>1

-----------------------------------------------------------------------------
(***************************************************************************)
(* The maps of the cache while it is loaded. A map that took k entries     *)
(* holds all of them, with ages below k, so nothing is evicted as long as  *)
(* k is within the capacity.                                               *)
(***************************************************************************)
Filled(m, keys, vals, k) ==
    /\ DOMAIN m = {keys[j] : j \in 1 .. k}
    /\ \A j \in 1 .. k : peek(m, keys[j]) = vals[j]
    /\ \A x \in DOMAIN m : m[x].age \in Nat /\ m[x].age < k

LEMMA FilledNext ==
    ASSUME NEW k \in Nat, NEW cap \in Nat, k + 1 <= cap, NEW keys, NEW vals,
           NEW m, Filled(m, keys, vals, k), \A j \in 1 .. k : keys[j] # keys[k + 1]
    PROVE  Filled(push(m, cap, keys[k + 1], vals[k + 1]), keys, vals, k + 1)
  <1>1. PICK x, d : x = keys[k + 1] /\ d = push(m, cap, x, vals[k + 1])
    OBVIOUS
  <1>2. x \notin DOMAIN m
    BY <1>1 DEF Filled
  <1>3. \A y \in DOMAIN m : /\ AgeBehind(m, x, y) = m[y].age + 1 /\ m[y].age \in Nat
                            /\ m[y].age < k
    BY <1>2 DEF AgeBehind, Filled
  <1>4. \A y \in DOMAIN m : AgeBehind(m, x, y) < cap /\ y # x
    BY <1>2, <1>3
  <1>5. DOMAIN d = {x} \cup DOMAIN m
    BY <1>1, <1>4 DEF push
  <1>6. /\ peek(d, x) = vals[k + 1] /\ d[x].age = 0
        /\ \A y \in DOMAIN m : peek(d, y) = peek(m, y) /\ d[y].age = AgeBehind(m, x, y)
    BY <1>1, <1>2, <1>4 DEF push, peek
  <1>7. \A j \in 1 .. k + 1 : j \in 1 .. k \/ j = k + 1
    OBVIOUS
  <1>8. 1 .. k \subseteq 1 .. k + 1 /\ k + 1 \in 1 .. k + 1
    OBVIOUS
  <1>9. DOMAIN d = {keys[j] : j \in 1 .. k + 1}
    BY <1>1, <1>5, <1>7, <1>8 DEF Filled
  <1>10. \A j \in 1 .. k + 1 : peek(d, keys[j]) = vals[j]
    BY <1>1, <1>6, <1>7 DEF Filled
  <1>11. ASSUME NEW y \in DOMAIN d PROVE d[y].age \in Nat /\ d[y].age < k + 1
    <2>1. CASE y = x
      BY <1>6, <2>1
    <2>2. CASE y \in DOMAIN m
      <3>1. d[y].age = m[y].age + 1 /\ m[y].age \in Nat /\ m[y].age < k
        BY <1>3, <1>6, <2>2
      <3>2. QED
        BY <3>1
    <2>3. QED
      BY <1>5, <2>1, <2>2
  <1>12. QED
    BY <1>1, <1>9, <1>10, <1>11 DEF Filled

\* Entries of a file: whole blocks, by ascending number.
Ascending(entries) ==
    /\ entries \in Seq(Entry)
    /\ \A k \in DOMAIN entries : entries[k].header = entries[k].hash
    /\ \A j, k \in DOMAIN entries :
         j < k => NumberOf[entries[j].header] < NumberOf[entries[k].header]

Hashes(entries)  == [k \in DOMAIN entries |-> entries[k].hash]
Headers(entries) == [k \in DOMAIN entries |-> entries[k].header]
Numbers(entries) == [k \in DOMAIN entries |-> NumberOf[entries[k].header]]
Bodies(entries)  == [k \in DOMAIN entries |-> entries[k].body]

\* A well-formed cache that holds the first k entries and nothing else.
Holds(d, entries, k) ==
    /\ IsBlockCache(d) /\ IndexesAgree(d)
    /\ Filled(d.headers_by_hash, Hashes(entries), Headers(entries), k)
    /\ Filled(d.headers_by_number, Numbers(entries), Headers(entries), k)
    /\ Filled(d.hash_by_number, Numbers(entries), Hashes(entries), k)
    /\ Filled(d.bodies_by_hash, Hashes(entries), Bodies(entries), k)

\* insert of a block, whatever its body, keeps the cache well formed.
LEMMA InsertKeepsCache ==
    ASSUME NEW c, IsBlockCache(c), IndexesAgree(c), NEW b \in Block, NEW v \in Block
    PROVE  /\ IsBlockCache(insert(c, b, b, v)) /\ IndexesAgree(insert(c, b, b, v))
           /\ insert(c, b, b, v).capacity = c.capacity
           /\ insert(c, b, b, v).headers_by_hash = push(c.headers_by_hash, Cap(c), b, b)
           /\ insert(c, b, b, v).headers_by_number =
                push(c.headers_by_number, Cap(c), NumberOf[b], b)
           /\ insert(c, b, b, v).hash_by_number =
                push(c.hash_by_number, Cap(c), NumberOf[b], b)
           /\ insert(c, b, b, v).bodies_by_hash = push(c.bodies_by_hash, Cap(c), b, v)
  <1>1. PICK d : d = insert_header(c, b, b)
    OBVIOUS
  <1>2. IsBlockCache(d)
    BY <1>1, UpdateKeepsTypes DEF Updated
  <1>3. IndexesAgree(d) /\ IsCacheRecord(d) /\ IsCacheRecord(c)
    BY <1>1, InsertHeaderAgrees DEF IsBlockCache
  <1>4. d = [capacity          |-> c.capacity,
             headers_by_hash   |-> push(c.headers_by_hash, Cap(c), b, b),
             headers_by_number |-> push(c.headers_by_number, Cap(c), NumberOf[b], b),
             hash_by_number    |-> push(c.hash_by_number, Cap(c), NumberOf[b], b),
             bodies_by_hash    |-> c.bodies_by_hash]
    BY <1>1, <1>3, MapsAfter
  <1>5. PICK e : e = insert_body(d, b, v)
    OBVIOUS
  <1>6. IsBlockCache(e) /\ IndexesAgree(e)
    BY <1>2, <1>3, <1>5, UpdateKeepsTypes, TouchAgrees DEF Updated
  <1>7. e = [capacity          |-> d.capacity,
             headers_by_hash   |-> d.headers_by_hash,
             headers_by_number |-> d.headers_by_number,
             hash_by_number    |-> d.hash_by_number,
             bodies_by_hash    |-> push(d.bodies_by_hash, Cap(d), b, v)]
    BY <1>3, <1>5, MapsAfter
  <1>8. Cap(d) = Cap(c)
    BY <1>4 DEF Cap
  <1>9. e = insert(c, b, b, v)
    BY <1>1, <1>5 DEF insert
  <1>10. QED
    BY <1>4, <1>6, <1>7, <1>8, <1>9

\* One round of the loop.
LEMMA LoadStep ==
    ASSUME NEW entries, Ascending(entries), NEW k \in Nat, k + 1 <= Len(entries),
           NEW d, Holds(d, entries, k), k + 1 <= d.capacity
    PROVE  /\ Holds(InsertEntry(d, entries[k + 1]), entries, k + 1)
           /\ InsertEntry(d, entries[k + 1]).capacity = d.capacity
  <1>1. PICK N \in Nat : N = Len(entries) /\ DOMAIN entries = 1 .. N
    BY DEF Ascending
  <1>2. PICK e \in Entry : e = entries[k + 1]
    BY <1>1, ElementOfSeq DEF Ascending
  <1>3. e.header = e.hash /\ e.hash \in Block /\ e.body \in Block /\ k + 1 \in 1 .. N
    BY <1>1, <1>2 DEF Ascending, Entry
  <1>4. PICK b, v, r :
          b \in Block /\ v \in Block /\ b = e.hash /\ v = e.body /\ r = insert(d, b, b, v)
    BY <1>3
  <1>5. InsertEntry(d, entries[k + 1]) = r
    BY <1>2, <1>3, <1>4 DEF InsertEntry
  <1>6. IsBlockCache(d) /\ IndexesAgree(d)
    BY DEF Holds
  <1>7. /\ IsBlockCache(r) /\ IndexesAgree(r) /\ r.capacity = d.capacity
        /\ r.headers_by_hash = push(d.headers_by_hash, Cap(d), b, b)
        /\ r.headers_by_number = push(d.headers_by_number, Cap(d), NumberOf[b], b)
        /\ r.hash_by_number = push(d.hash_by_number, Cap(d), NumberOf[b], b)
        /\ r.bodies_by_hash = push(d.bodies_by_hash, Cap(d), b, v)
    BY <1>4, <1>6, InsertKeepsCache
  <1>8. Cap(d) \in Nat /\ k + 1 <= Cap(d)
    BY <1>6 DEF IsBlockCache, Cap
  <1>9. PICK hashes, headers, numbers, bodies :
          /\ hashes = Hashes(entries) /\ headers = Headers(entries)
          /\ numbers = Numbers(entries) /\ bodies = Bodies(entries)
    OBVIOUS
  <1>10. /\ hashes[k + 1] = b /\ headers[k + 1] = b
         /\ numbers[k + 1] = NumberOf[b] /\ bodies[k + 1] = v
    BY <1>1, <1>2, <1>3, <1>4, <1>9 DEF Hashes, Headers, Numbers, Bodies
  <1>11. ASSUME NEW j \in 1 .. k PROVE hashes[j] # hashes[k + 1] /\ numbers[j] # numbers[k + 1]
    <2>1. j \in 1 .. N /\ j < k + 1
      BY <1>1, <1>3
    <2>2. NumberOf[entries[j].header] < NumberOf[b] /\ entries[j].header = entries[j].hash
      BY <1>1, <1>2, <1>3, <1>4, <2>1 DEF Ascending
    <2>3. numbers[j] = NumberOf[entries[j].header] /\ hashes[j] = entries[j].hash
      BY <1>1, <1>9, <2>1 DEF Hashes, Numbers
    <2>4. entries[j].hash \in Block
      <3>1. entries[j] \in Entry
        BY <1>1, <2>1, ElementOfSeq DEF Ascending
      <3>2. QED
        BY <3>1 DEF Entry
    <2>5. NumberOf[entries[j].header] \in Nat /\ NumberOf[b] \in Nat
      BY <1>4, <2>2, <2>4, NumberOfAssumption
    <2>6. NumberOf[entries[j].header] # NumberOf[b]
      BY <2>2, <2>5
    <2>7. QED
      BY <1>10, <2>2, <2>3, <2>6
  <1>12. /\ Filled(d.headers_by_hash, hashes, headers, k)
         /\ Filled(d.headers_by_number, numbers, headers, k)
         /\ Filled(d.hash_by_number, numbers, hashes, k)
         /\ Filled(d.bodies_by_hash, hashes, bodies, k)
    BY <1>9 DEF Holds
  <1>13. /\ Filled(r.headers_by_hash, hashes, headers, k + 1)
         /\ Filled(r.headers_by_number, numbers, headers, k + 1)
         /\ Filled(r.hash_by_number, numbers, hashes, k + 1)
         /\ Filled(r.bodies_by_hash, hashes, bodies, k + 1)
    BY <1>7, <1>8, <1>10, <1>11, <1>12, FilledNext
  <1>14. QED
    BY <1>5, <1>7, <1>9, <1>13 DEF Holds
\* A file as a save leaves it, torn or whole: it announces at most one count,
\* which is not less than the entries it holds.
IsFile(f) ==
    /\ f = [exists |-> f.exists, count |-> f.count, entries |-> f.entries]
    /\ f.count \subseteq Nat /\ \A m, n \in f.count : m = n
    /\ f.count = {} => f.entries = <<>>
    /\ Ascending(f.entries)
    /\ \A n \in f.count : Len(f.entries) <= n

LEMMA ReadableUpTo ==
    ASSUME NEW f, IsFile(f), NEW c, c.capacity \in Nat, NEW n,
           n = IF Len(f.entries) < c.capacity THEN Len(f.entries) ELSE c.capacity
    PROVE  n \in Nat /\ Readable(c, f) = 1 .. n
  <1>1. PICK N \in Nat : N = Len(f.entries) /\ DOMAIN f.entries = 1 .. N
    BY DEF IsFile, Ascending
  <1>2. n \in Nat
    BY <1>1
  <1>3. CASE f.count = {}
    <2>1. N = 0
      BY <1>1, <1>3 DEF IsFile
    <2>2. n = 0 /\ 1 .. N = {} /\ 1 .. n = {}
      BY <1>1, <2>1
    <2>3. Readable(c, f) = {}
      BY <1>1, <2>2 DEF Readable
    <2>4. QED
      BY <2>2, <2>3
  <1>4. CASE f.count # {}
    <2>1. PICK m \in Nat : f.count = {m} /\ N <= m
      BY <1>1, <1>4 DEF IsFile
    <2>2. PICK bound \in Nat : bound = IF m < c.capacity THEN m ELSE c.capacity
      BY <2>1
    <2>3. Readable(c, f) = (1 .. N) \cap (1 .. bound)
      BY <1>1, <2>1, <2>2 DEF Readable
    <2>4. (1 .. N) \cap (1 .. bound) = 1 .. n
      <3>1. ASSUME NEW k \in Nat PROVE k <= N /\ k <= bound <=> k <= n
        BY <1>1, <2>1, <2>2
      <3>2. QED
        BY <1>2, <3>1
    <2>5. QED
      BY <1>2, <2>3, <2>4
  <1>5. QED
    BY <1>2, <1>3, <1>4

\* A new cache that load_from_file has restored from f holds the first entries of
\* f, up to its capacity, and nothing else.
Restored(c, f) ==
    \E n \in Nat : /\ n = IF Len(f.entries) < c.capacity THEN Len(f.entries) ELSE c.capacity
                  /\ Holds(c, f.entries, n)

LEMMA LoadRestores ==
    ASSUME NEW f, IsFile(f), NEW capacity \in Nat
    PROVE  Restored(load_from_file(new(capacity), f), f)
  <1>1. PICK c : c = new(capacity)
    OBVIOUS
  <1>2. c.capacity = capacity
    BY <1>1 DEF new
  <1>3. PICK n : n = IF Len(f.entries) < capacity THEN Len(f.entries) ELSE capacity
    OBVIOUS
  <1>4. n \in Nat /\ Readable(c, f) = 1 .. n
    BY <1>2, <1>3, ReadableUpTo
  <1>5. PICK entries : entries = f.entries /\ Ascending(entries)
    BY DEF IsFile
  <1>6. PICK h : /\ h[0] = c
                 /\ \A k \in 1 .. n : h[k] = InsertEntry(h[k - 1], entries[k])
                 /\ load_from_file(c, f) = h[n]
    BY <1>4, <1>5, LoadInSteps
  <1>7. n <= Len(entries) /\ n <= capacity /\ Len(entries) \in Nat
    BY <1>3, <1>5 DEF Ascending
  <1>8. PICK P : P = {k \in 0 .. n : Holds(h[k], entries, k) /\ h[k].capacity = capacity}
    OBVIOUS
  <1>9. 0 \in P
    <2>1. /\ c.headers_by_hash = LruEmpty /\ c.headers_by_number = LruEmpty
          /\ c.hash_by_number = LruEmpty /\ c.bodies_by_hash = LruEmpty
      BY <1>1 DEF new
    <2>2. IsCacheRecord(c)
      BY <1>1 DEF new, IsCacheRecord
    <2>3. DOMAIN LruEmpty = {}
      BY DEF LruEmpty
    <2>4. IsBlockCache(c)
      BY <1>2, <2>1, <2>2, EmptyIsLru DEF IsBlockCache
    <2>5. IndexesAgree(c)
      BY <2>1, <2>3 DEF IndexesAgree
    <2>6. ASSUME NEW keys, NEW vals PROVE Filled(LruEmpty, keys, vals, 0)
      <3>1. 1 .. 0 = {}
        OBVIOUS
      <3>2. QED
        BY <2>3, <3>1 DEF Filled
    <2>7. Holds(c, entries, 0)
      BY <2>1, <2>4, <2>5, <2>6 DEF Holds
    <2>8. QED
      BY <1>2, <1>4, <1>6, <1>8, <2>7
  <1>10. ASSUME NEW k \in 0 .. n - 1, k \in P PROVE k + 1 \in P
    <2>1. k \in Nat /\ k + 1 \in 1 .. n /\ (k + 1) - 1 = k
      BY <1>4
    <2>2. Holds(h[k], entries, k) /\ h[k].capacity = capacity
      BY <1>8, <1>10
    <2>3. h[k + 1] = InsertEntry(h[k], entries[k + 1])
      BY <1>6, <2>1
    <2>4. k + 1 <= Len(entries) /\ k + 1 <= capacity
      BY <1>4, <1>7, <2>1
    <2>5. Holds(h[k + 1], entries, k + 1) /\ h[k + 1].capacity = capacity
      BY <1>5, <2>1, <2>2, <2>3, <2>4, LoadStep
    <2>6. QED
      BY <1>8, <2>1, <2>5
  <1>11. n \in P
    <2>1. 0 .. n \subseteq P
      BY <1>4, <1>9, <1>10, InductionUpTo
    <2>2. QED
      BY <1>4, <2>1
  <1>12. Holds(h[n], entries, n) /\ h[n].capacity = capacity
    BY <1>8, <1>11
  <1>13. QED
    BY <1>1, <1>3, <1>4, <1>5, <1>6, <1>12 DEF Restored
-----------------------------------------------------------------------------
(***************************************************************************)
(* The inductive invariant. What is in the file and what is still to be    *)
(* written are together what drain_blocks took from the cache.             *)
(***************************************************************************)
CacheInv(c) == IsBlockCache(c) /\ IndexesAgree(c)

FileInv ==
    /\ IsFile(file)
    /\ to_write \in Seq(Entry)
    /\ process # "saving" => to_write = <<>>
    /\ \A n \in file.count : Len(file.entries) + Len(to_write) <= n
    /\ Intact(file.entries \o to_write, drained)

HeadInv ==
    /\ head \subseteq [hash : Block, header : Block]
    /\ IsFile(loaded_from)
    /\ fresh => Restored(cache, loaded_from) /\ head = latest(cache)

StoreInv ==
    /\ process \in {"down", "up", "saving"}
    /\ CacheInv(cache) /\ CacheInv(drained)
    /\ FileInv /\ HeadInv
    /\ ops \in 0 .. MaxOps /\ starts \in 0 .. MaxStarts

\* The first part of what was drained is intact as well.
LEMMA PrefixIntact ==
    ASSUME NEW s \in Seq(Entry), NEW t \in Seq(Entry), NEW d, Intact(s \o t, d)
    PROVE  Intact(s, d)
  <1>1. PICK u : u = s \o t
    OBVIOUS
  <1>2. PICK m \in Nat, n \in Nat : m = Len(s) /\ n = Len(t)
    OBVIOUS
  <1>3. DOMAIN s = 1 .. m /\ DOMAIN u = 1 .. m + n /\ \A k \in 1 .. m : u[k] = s[k]
    BY <1>1, <1>2
  <1>4. \A k \in 1 .. m : k \in 1 .. m + n
    OBVIOUS
  <1>5. QED
    BY <1>1, <1>3, <1>4 DEF Intact

\* Entries of that kind ascend.
LEMMA IntactAscends ==
    ASSUME NEW s \in Seq(Entry), NEW d, Intact(s, d)
    PROVE  Ascending(s)
  BY DEF Intact, Ascending

\* The first entry to write goes to the end of the file.
LEMMA WritesNext ==
    ASSUME NEW s \in Seq(Entry), NEW t \in Seq(Entry), t # <<>>
    PROVE  /\ Append(s, Head(t)) \in Seq(Entry) /\ Tail(t) \in Seq(Entry)
           /\ Append(s, Head(t)) \o Tail(t) = s \o t
           /\ Len(Append(s, Head(t))) = Len(s) + 1 /\ Len(Tail(t)) = Len(t) - 1
           /\ Len(t) \in Nat \ {0}
  <1>1. PICK S : S = Entry
    OBVIOUS
  <1>2. s \in Seq(S) /\ t \in Seq(S)
    BY <1>1
  <1>3. PICK m \in Nat, n \in Nat \ {0} : m = Len(s) /\ n = Len(t)
    BY <1>2
  <1>4. PICK x \in S, rest \in Seq(S), more \in Seq(S) :
          x = Head(t) /\ rest = Tail(t) /\ more = Append(s, x)
    <2>1. Head(t) \in S /\ Tail(t) \in Seq(S)
      BY <1>2
    <2>2. Append(s, Head(t)) \in Seq(S)
      BY <1>2, <2>1
    <2>3. QED
      BY <2>1, <2>2
  <1>5. Len(more) = m + 1 /\ Len(rest) = n - 1
    BY <1>2, <1>3, <1>4
  <1>6. more \o rest = s \o t
    BY <1>2, <1>3, <1>4, <1>5
  <1>7. QED
    BY <1>1, <1>3, <1>4, <1>5, <1>6

\* Each way the tasks use the cache keeps it well formed.
LEMMA OperationKeepsCache ==
    ASSUME NEW c, CacheInv(c), NEW b \in Block, NEW v \in Block,
           NEW d \in {insert(c, b, b, b), insert_header(c, b, b), insert_body(c, b, v),
                      touch_header_by_number(c, NumberOf[b]), touch_body_by_hash(c, b)}
    PROVE  CacheInv(d)
  <1>1. IsBlockCache(c) /\ IsCacheRecord(c) /\ IndexesAgree(c) /\ NumberOf[b] \in Nat
    BY NumberOfAssumption DEF CacheInv, IsBlockCache
  <1>2. CASE d = insert(c, b, b, b)
    BY <1>1, <1>2, InsertKeepsCache DEF CacheInv
  <1>3. CASE d = insert_header(c, b, b)
    BY <1>1, <1>3, UpdateKeepsTypes, InsertHeaderAgrees DEF CacheInv, Updated
  <1>4. CASE d \in {insert_body(c, b, v), touch_body_by_hash(c, b)}
    BY <1>1, <1>4, UpdateKeepsTypes, TouchAgrees DEF CacheInv, Updated
  <1>5. CASE d = touch_header_by_number(c, NumberOf[b])
    BY <1>1, <1>5, UpdateKeepsTypes, TouchAgrees DEF CacheInv, Updated
  <1>6. QED
    BY <1>2, <1>3, <1>4, <1>5

\* The highest cached block has the types of a head.
LEMMA LatestType ==
    ASSUME NEW c, IsBlockCache(c)
    PROVE  latest(c) \subseteq [hash : Block, header : Block]
  <1>1. \A n \in DOMAIN c.hash_by_number : peek(c.hash_by_number, n) \in Block
    BY DEF IsBlockCache, IsLru, peek
  <1>2. \A n \in DOMAIN c.headers_by_number : peek(c.headers_by_number, n) \in Block
    BY DEF IsBlockCache, IsLru, peek
  <1>3. QED
    BY <1>1, <1>2 DEF latest, contains

LEMMA StoreStart == Init => StoreInv
  <1> SUFFICES ASSUME Init PROVE StoreInv
    OBVIOUS
  <1>1. CacheInv(new(0))
    <2>1. PICK c : c = new(0)
      OBVIOUS
    <2>2. /\ c.headers_by_hash = LruEmpty /\ c.headers_by_number = LruEmpty
          /\ c.hash_by_number = LruEmpty /\ c.bodies_by_hash = LruEmpty
          /\ c.capacity = 0 /\ IsCacheRecord(c)
      BY <2>1 DEF new, IsCacheRecord
    <2>3. IsBlockCache(c)
      BY <2>2, EmptyIsLru DEF IsBlockCache
    <2>4. IndexesAgree(c)
      BY <2>2 DEF IndexesAgree, LruEmpty
    <2>5. QED
      BY <2>1, <2>3, <2>4 DEF CacheInv
  <1>2. <<>> \in Seq(Entry) /\ DOMAIN <<>> = {} /\ Len(<<>>) = 0
    OBVIOUS
  <1>3. IsFile(NoFile) /\ NoFile.count = {} /\ NoFile.entries = <<>>
    BY <1>2 DEF NoFile, IsFile, Ascending
  <1>4. FileInv
    <2>1. <<>> \o <<>> = <<>>
      OBVIOUS
    <2>2. Intact(<<>> \o <<>>, drained)
      BY <1>2, <2>1 DEF Intact
    <2>3. QED
      BY <1>2, <1>3, <2>2 DEF Init, FileInv
  <1>5. HeadInv
    BY <1>3 DEF Init, HeadInv
  <1>6. QED
    BY <1>1, <1>4, <1>5, StoreAssumption DEF Init, StoreInv
\* A start restores the cache from the file, and the head is taken from it.
LEMMA StartStep ==
    ASSUME StoreInv, NEW capacity \in Capacities, start(capacity)
    PROVE  StoreInv'
  <1>1. capacity \in Nat /\ IsFile(file)
    BY StoreAssumption DEF StoreInv, FileInv
  <1>2. /\ process = "down" /\ process' = "up" /\ cache' = load_from_file(new(capacity), file)
        /\ head' = latest(cache') /\ loaded_from' = file /\ starts' = starts + 1
        /\ starts < MaxStarts /\ UNCHANGED <<file, to_write, ops, drained>>
    BY DEF start
  <1>3. Restored(cache', file)
    BY <1>1, <1>2, LoadRestores
  <1>4. IsBlockCache(cache') /\ IndexesAgree(cache')
    BY <1>3 DEF Restored, Holds
  <1>5. CacheInv(cache)' /\ CacheInv(drained)'
    BY <1>2, <1>4 DEF StoreInv, CacheInv
  <1>6. FileInv'
    BY <1>2 DEF StoreInv, FileInv
  <1>7. HeadInv'
    BY <1>1, <1>2, <1>3, <1>4, LatestType DEF HeadInv
  <1>8. starts' \in 0 .. MaxStarts
    BY <1>2, StoreAssumption DEF StoreInv
  <1>9. QED
    BY <1>2, <1>5, <1>6, <1>7, <1>8 DEF StoreInv

\* The tasks of the process change the cache alone.
LEMMA OperationStep ==
    ASSUME StoreInv, NEW c, CacheInv(c), CacheOperation(c)
    PROVE  StoreInv'
  <1>1. /\ cache' = c /\ ops < MaxOps /\ ops' = ops + 1 /\ fresh' = FALSE
        /\ UNCHANGED <<process, file, to_write, head, starts, loaded_from, drained>>
    BY DEF CacheOperation
  <1>2. CacheInv(cache)' /\ CacheInv(drained)'
    BY <1>1 DEF StoreInv, CacheInv
  <1>3. FileInv'
    BY <1>1 DEF StoreInv, FileInv
  <1>4. HeadInv'
    BY <1>1 DEF StoreInv, HeadInv
  <1>5. ops' \in 0 .. MaxOps
    BY <1>1, StoreAssumption DEF StoreInv
  <1>6. QED
    BY <1>1, <1>2, <1>3, <1>4, <1>5 DEF StoreInv

\* A save, its end and its interruption change the file and what is to be written.
LEMMA SaveStep ==
    ASSUME StoreInv, begin_save \/ write_count \/ write_entry \/ stop \/ crash
    PROVE  StoreInv'
  <1>1. /\ process' \in {"down", "up", "saving"}
        /\ UNCHANGED <<cache, head, ops, starts, loaded_from, fresh>>
        /\ drained' \in {cache, drained}
    BY DEF begin_save, write_count, write_entry, stop, crash
  <1>2. CacheInv(cache)' /\ CacheInv(drained)' /\ HeadInv'
    BY <1>1 DEF StoreInv, CacheInv, HeadInv
  <1>3. /\ IsFile(file) /\ to_write \in Seq(Entry) /\ file.entries \in Seq(Entry)
        /\ Intact(file.entries \o to_write, drained)
        /\ \A n \in file.count : Len(file.entries) + Len(to_write) <= n
    BY DEF StoreInv, FileInv, IsFile, Ascending
  <1>4. FileInv'
    <2>1. CASE begin_save
      <3>1. PICK entries \in Seq(Entry) : entries = drain_blocks(cache) /\ Intact(entries, cache)
        BY DrainedIntact DEF StoreInv, CacheInv
      <3>2. /\ process' = "saving" /\ to_write' = entries /\ drained' = cache
            /\ file' = [exists |-> TRUE, count |-> {}, entries |-> <<>>]
        BY <2>1, <3>1 DEF begin_save
      <3>3. <<>> \o entries = entries /\ <<>> \in Seq(Entry) /\ DOMAIN <<>> = {}
        OBVIOUS
      <3>4. IsFile(file)'
        BY <3>2, <3>3 DEF IsFile, Ascending
      <3>5. Intact(file.entries \o to_write, drained)'
        <4>1. file'.entries \o to_write' = entries
          BY <3>2, <3>3
        <4>2. Intact(file'.entries \o to_write', drained')
          BY <3>1, <3>2, <4>1
        <4>3. QED
          BY <4>2 DEF Intact
      <3>6. QED
        BY <3>2, <3>4, <3>5 DEF FileInv
    <2>2. CASE write_count
      <3>1. PICK m \in Nat : m = Len(to_write)
        BY <1>3
      <3>2. /\ process = "saving" /\ process' = "saving" /\ UNCHANGED <<to_write, drained>>
            /\ file.count = {} /\ file' = [file EXCEPT !.count = {m}]
        BY <2>2, <3>1 DEF write_count
      <3>3. file.entries = <<>> /\ Len(<<>>) = 0
        BY <1>3, <3>2 DEF IsFile
      <3>4. file' = [exists |-> file.exists, count |-> {m}, entries |-> file.entries]
        BY <1>3, <3>2 DEF IsFile
      <3>5. file'.count = {m} /\ file'.entries = file.entries
        BY <3>4
      <3>6. IsFile(file)'
        BY <1>3, <3>1, <3>3, <3>4, <3>5 DEF IsFile, Ascending
      <3>7. \A n \in file'.count : Len(file'.entries) + Len(to_write') <= n
        BY <3>1, <3>2, <3>3, <3>5
      <3>8. Intact(file.entries \o to_write, drained)'
        BY <1>3, <3>2, <3>5 DEF Intact
      <3>9. QED
        BY <1>3, <3>2, <3>6, <3>7, <3>8 DEF FileInv
    <2>3. CASE write_entry
      <3>1. /\ process' = process /\ process = "saving" /\ drained' = drained
            /\ file.count # {} /\ to_write # <<>> /\ to_write' = Tail(to_write)
            /\ file' = [file EXCEPT !.entries = Append(@, Head(to_write))]
        BY <2>3 DEF write_entry
      <3>2. PICK more : more = Append(file.entries, Head(to_write))
        OBVIOUS
      <3>3. /\ more \in Seq(Entry) /\ to_write' \in Seq(Entry)
            /\ more \o to_write' = file.entries \o to_write
            /\ Len(more) = Len(file.entries) + 1 /\ Len(to_write') = Len(to_write) - 1
            /\ Len(to_write) \in Nat \ {0} /\ Len(file.entries) \in Nat
        <4>1. PICK s \in Seq(Entry), t \in Seq(Entry) : s = file.entries /\ t = to_write
          BY <1>3
        <4>2. t # <<>> /\ more = Append(s, Head(t)) /\ to_write' = Tail(t)
          BY <3>1, <3>2, <4>1
        <4>3. /\ more \in Seq(Entry) /\ to_write' \in Seq(Entry)
              /\ more \o to_write' = s \o t
              /\ Len(more) = Len(s) + 1 /\ Len(to_write') = Len(t) - 1
              /\ Len(t) \in Nat \ {0}
          BY <4>2, WritesNext
        <4>4. Len(s) \in Nat
          BY <4>1
        <4>5. QED
          BY <4>1, <4>3, <4>4
      <3>4. file' = [exists |-> file.exists, count |-> file.count, entries |-> more]
        BY <1>3, <3>1, <3>2 DEF IsFile
      <3>5. file'.count = file.count /\ file'.entries = more
        BY <3>4
      <3>6. Intact(more \o to_write', drained)
        BY <1>3, <3>3
      <3>7. ASSUME NEW n \in file.count
            PROVE  Len(more) + Len(to_write') <= n /\ Len(more) <= n
        <4>1. n \in Nat /\ Len(file.entries) + Len(to_write) <= n
          BY <1>3 DEF IsFile
        <4>2. QED
          BY <3>3, <4>1
      <3>8. Ascending(more)
        <4>1. Intact(more, drained)
          BY <3>3, <3>6, PrefixIntact
        <4>2. QED
          BY <3>3, <4>1, IntactAscends
      <3>9. IsFile(file)'
        BY <1>3, <3>1, <3>4, <3>5, <3>7, <3>8 DEF IsFile, Ascending
      <3>10. Intact(file.entries \o to_write, drained)'
        BY <3>1, <3>5, <3>6 DEF Intact
      <3>11. QED
        BY <3>1, <3>3, <3>5, <3>7, <3>9, <3>10 DEF FileInv
    <2>4. CASE stop
      <3>1. process' = "down" /\ to_write = <<>> /\ UNCHANGED <<file, to_write, drained>>
        BY <2>4 DEF stop
      <3>2. IsFile(file)' /\ Intact(file.entries \o to_write, drained)'
        BY <1>3, <3>1 DEF IsFile, Intact, Ascending
      <3>3. QED
        BY <1>3, <3>1, <3>2 DEF FileInv
    <2>5. CASE crash
      <3>1. process' = "down" /\ to_write' = <<>> /\ UNCHANGED <<file, drained>>
        BY <2>5 DEF crash
      <3>2. Intact(file.entries, drained)
        BY <1>3, PrefixIntact
      <3>3. file.entries \o <<>> = file.entries /\ <<>> \in Seq(Entry)
        BY <1>3
      <3>4. Intact(file.entries \o to_write, drained)'
        BY <3>1, <3>2, <3>3 DEF Intact
      <3>5. ASSUME NEW n \in file.count PROVE Len(file.entries) + Len(<<>>) <= n
        <4>1. n \in Nat /\ Len(file.entries) <= n /\ Len(file.entries) \in Nat
          BY <1>3 DEF IsFile
        <4>2. QED
          BY <4>1
      <3>6. QED
        BY <1>3, <3>1, <3>3, <3>4, <3>5 DEF FileInv
    <2>6. QED
      BY <2>1, <2>2, <2>3, <2>4, <2>5
  <1>5. QED
    BY <1>1, <1>2, <1>4 DEF StoreInv

LEMMA StoreKept == StoreInv /\ [Next]_vars => StoreInv'
  <1> SUFFICES ASSUME StoreInv, [Next]_vars PROVE StoreInv'
    OBVIOUS
  <1>1. CASE \E capacity \in Capacities : start(capacity)
    BY <1>1, StartStep
  <1>2. ASSUME NEW b \in Block, NEW v \in Block,
               \/ ImportBlock(b) \/ ProxyHeader(b) \/ ReadBody(b) \/ ProxyBody(b, v)
               \/ ReadHeader(NumberOf[b])
        PROVE  StoreInv'
    <2>1. PICK c \in {insert(cache, b, b, b), insert_header(cache, b, b),
                      insert_body(cache, b, v), touch_header_by_number(cache, NumberOf[b]),
                      touch_body_by_hash(cache, b)} : CacheOperation(c)
      BY <1>2 DEF ImportBlock, ProxyHeader, ProxyBody, ReadHeader, ReadBody
    <2>2. CacheInv(c)
      BY <2>1, OperationKeepsCache DEF StoreInv
    <2>3. QED
      BY <2>1, <2>2, OperationStep
  <1>3. CASE begin_save \/ write_count \/ write_entry \/ stop \/ crash
    BY <1>3, SaveStep
  <1>4. CASE UNCHANGED vars
    BY <1>4 DEF vars, StoreInv, CacheInv, FileInv, HeadInv, Intact
  <1>5. QED
    BY <1>1, <1>2, <1>3, <1>4 DEF Next, Finished
-----------------------------------------------------------------------------
(***************************************************************************)
(* The theorems.                                                           *)
(***************************************************************************)

\* The cache and the file are well formed in every reachable state: whatever the
\* code restores, inserts and promotes, the maps of the cache stay within their
\* capacity, and a torn file never holds more entries than it announces.
THEOREM StoreTypeCorrect == Spec => []TypeOK
  <1>1. StoreInv => TypeOK
    <2>1. ASSUME StoreInv PROVE file.entries \in Seq(Entry)
      BY <2>1 DEF StoreInv, FileInv, IsFile, Ascending
    <2>2. QED
      BY <2>1 DEF StoreInv, CacheInv, FileInv, IsFile, HeadInv, TypeOK
  <1>2. QED
    BY <1>1, StoreStart, StoreKept, PTL DEF Spec

\* The file never mixes blocks, also when a save was torn: each entry is one block
\* with the body that the cache held for it when the save began (drain_blocks),
\* and the numbers ascend strictly.
THEOREM EntriesCorrect == Spec => []EntriesIntact
  <1>1. StoreInv => EntriesIntact
    <2> SUFFICES ASSUME StoreInv PROVE EntriesIntact
      OBVIOUS
    <2>1. file.entries \in Seq(Entry) /\ to_write \in Seq(Entry)
      BY DEF StoreInv, FileInv, IsFile, Ascending
    <2>2. Intact(file.entries, drained)
      BY <2>1, PrefixIntact DEF StoreInv, FileInv
    <2>3. QED
      BY <2>2 DEF Intact, EntriesIntact
  <1>2. QED
    BY <1>1, StoreStart, StoreKept, PTL DEF Spec

\* The entries that Restorable names are the ones that were restored.
LEMMA RestorableEntries ==
    ASSUME StoreInv, fresh
    PROVE  \E n \in Nat, entries \in Seq(Entry) :
             /\ entries = loaded_from.entries /\ 1 .. n \subseteq DOMAIN entries
             /\ Restorable = {entries[k] : k \in 1 .. n}
             /\ Holds(cache, entries, n) /\ Ascending(entries)
  <1>1. PICK entries \in Seq(Entry) : entries = loaded_from.entries /\ Ascending(entries)
    BY DEF StoreInv, HeadInv, IsFile, Ascending
  <1>2. PICK N \in Nat : N = Len(entries) /\ DOMAIN entries = 1 .. N
    OBVIOUS
  <1>3. PICK n \in Nat :
          /\ n = IF N < cache.capacity THEN N ELSE cache.capacity
          /\ Holds(cache, entries, n)
    BY <1>1, <1>2 DEF StoreInv, HeadInv, Restored
  <1>4. cache.capacity \in Nat
    BY DEF StoreInv, CacheInv, IsBlockCache
  <1>5. {m \in DOMAIN entries : m <= cache.capacity} = 1 .. n
    BY <1>2, <1>3, <1>4
  <1>6. Restorable = {entries[k] : k \in 1 .. n}
    BY <1>1, <1>5 DEF Restorable
  <1>7. 1 .. n \subseteq DOMAIN entries
    BY <1>5
  <1>8. QED
    BY <1>1, <1>3, <1>6, <1>7

\* Whatever a crash left of the file, load_from_file restores each block that was
\* written whole, up to the capacity and no other, with header and body under its
\* hash and number: the load itself evicts nothing.
THEOREM LoadCorrect == Spec => []LoadRestoresWritten
  <1>1. StoreInv => LoadRestoresWritten
    <2> SUFFICES ASSUME StoreInv, fresh PROVE LoadRestoresWritten
      BY DEF LoadRestoresWritten
    <2>1. PICK n \in Nat, entries \in Seq(Entry) :
            /\ entries = loaded_from.entries /\ 1 .. n \subseteq DOMAIN entries
            /\ Restorable = {entries[k] : k \in 1 .. n}
            /\ Holds(cache, entries, n)
      BY RestorableEntries
    <2>2. \A k \in 1 .. n : /\ Hashes(entries)[k] = entries[k].hash
                            /\ Headers(entries)[k] = entries[k].header
                            /\ Numbers(entries)[k] = NumberOf[entries[k].header]
                            /\ Bodies(entries)[k] = entries[k].body
      BY <2>1 DEF Hashes, Headers, Numbers, Bodies
    <2>3. {e.hash : e \in Restorable} = {Hashes(entries)[k] : k \in 1 .. n}
      BY <2>1, <2>2
    <2>4. /\ DOMAIN cache.bodies_by_hash = {e.hash : e \in Restorable}
          /\ DOMAIN cache.headers_by_hash = {e.hash : e \in Restorable}
      BY <2>1, <2>3 DEF Holds, Filled
    <2>5. ASSUME NEW k \in 1 .. n
          PROVE  /\ Lookup(cache.hash_by_number, NumberOf[entries[k].header]) =
                      {entries[k].hash}
                 /\ Lookup(cache.headers_by_number, NumberOf[entries[k].header]) =
                      {entries[k].header}
                 /\ Lookup(cache.bodies_by_hash, entries[k].hash) = {entries[k].body}
      <3>1. ASSUME NEW m, NEW keys, NEW vals, Filled(m, keys, vals, n)
            PROVE  Lookup(m, keys[k]) = {vals[k]}
        BY <3>1 DEF Filled, Lookup, contains
      <3>2. /\ Filled(cache.hash_by_number, Numbers(entries), Hashes(entries), n)
            /\ Filled(cache.headers_by_number, Numbers(entries), Headers(entries), n)
            /\ Filled(cache.bodies_by_hash, Hashes(entries), Bodies(entries), n)
        BY <2>1 DEF Holds
      <3>3. /\ Lookup(cache.hash_by_number, Numbers(entries)[k]) = {Hashes(entries)[k]}
            /\ Lookup(cache.headers_by_number, Numbers(entries)[k]) = {Headers(entries)[k]}
            /\ Lookup(cache.bodies_by_hash, Hashes(entries)[k]) = {Bodies(entries)[k]}
        BY <3>1, <3>2
      <3>4. QED
        BY <2>2, <3>3
    <2>6. ASSUME NEW e \in Restorable
          PROVE  /\ Lookup(cache.hash_by_number, NumberOf[e.header]) = {e.hash}
                 /\ Lookup(cache.headers_by_number, NumberOf[e.header]) = {e.header}
                 /\ Lookup(cache.bodies_by_hash, e.hash) = {e.body}
      <3>1. PICK k \in 1 .. n : e = entries[k]
        BY <2>1
      <3>2. QED
        BY <2>5, <3>1
    <2>7. QED
      BY <2>4, <2>6 DEF LoadRestoresWritten
  <1>2. QED
    BY <1>1, StoreStart, StoreKept, PTL DEF Spec

\* The head announced after a start is the newest block restored, and there is none
\* only when nothing was restored (start_sentry_network).
THEOREM NewestIsHead == Spec => []HeadIsNewestRestored
  <1>1. StoreInv => HeadIsNewestRestored
    <2> SUFFICES ASSUME StoreInv, fresh PROVE HeadIsNewestRestored
      BY DEF HeadIsNewestRestored
    <2>1. PICK n \in Nat, entries \in Seq(Entry) :
            /\ 1 .. n \subseteq DOMAIN entries
            /\ Restorable = {entries[k] : k \in 1 .. n}
            /\ Holds(cache, entries, n) /\ Ascending(entries)
      BY RestorableEntries
    <2>2. PICK numbers : numbers = Numbers(entries)
      OBVIOUS
    <2>3. \A k \in 1 .. n : numbers[k] = NumberOf[entries[k].header]
      BY <2>1, <2>2 DEF Numbers
    <2>4. /\ DOMAIN cache.hash_by_number = {numbers[k] : k \in 1 .. n}
          /\ DOMAIN cache.headers_by_number = {numbers[k] : k \in 1 .. n}
      BY <2>1, <2>2 DEF Holds, Filled
    <2>5. head = latest(cache) /\ IndexesAgree(cache)
      BY DEF StoreInv, HeadInv, CacheInv
    <2>6. ASSUME NEW h \in head, NEW e \in Restorable
          PROVE  h.header = h.hash /\ NumberOf[e.header] <= NumberOf[h.header]
      <3>1. PICK m \in DOMAIN cache.hash_by_number :
              /\ \A k \in DOMAIN cache.hash_by_number : k <= m
              /\ m \in DOMAIN cache.headers_by_number
              /\ h = [hash |-> peek(cache.hash_by_number, m),
                      header |-> peek(cache.headers_by_number, m)]
        BY <2>5 DEF latest, contains
      <3>2. h.header = h.hash /\ NumberOf[h.header] = m
        BY <2>5, <3>1 DEF IndexesAgree
      <3>3. NumberOf[e.header] \in DOMAIN cache.hash_by_number
        BY <2>1, <2>3, <2>4
      <3>4. QED
        BY <3>1, <3>2, <3>3
    <2>7. (head = {}) = (Restorable = {})
      <3>1. CASE n = 0
        <4>1. 1 .. n = {}
          BY <3>1
        <4>2. Restorable = {} /\ DOMAIN cache.hash_by_number = {}
          BY <2>1, <2>4, <4>1
        <4>3. QED
          BY <2>5, <4>2 DEF latest
      <3>2. CASE n # 0
        <4>1. n \in 1 .. n
          BY <3>2
        <4>2. ASSUME NEW k \in 1 .. n PROVE numbers[k] <= numbers[n]
          <5>1. /\ k \in DOMAIN entries /\ n \in DOMAIN entries
                /\ entries[k].header \in Block /\ entries[n].header \in Block
            <6>1. k \in DOMAIN entries /\ n \in DOMAIN entries
              BY <2>1, <4>1
            <6>2. entries[k] \in Entry /\ entries[n] \in Entry
              BY <6>1
            <6>3. QED
              BY <6>1, <6>2 DEF Entry
          <5>2. numbers[k] \in Nat /\ numbers[n] \in Nat
            BY <2>3, <4>1, <5>1, NumberOfAssumption
          <5>3. k < n => numbers[k] < numbers[n]
            BY <2>1, <2>3, <4>1, <5>1 DEF Ascending
          <5>4. k < n \/ k = n
            BY <2>1
          <5>5. QED
            BY <5>2, <5>3, <5>4
        <4>3. /\ numbers[n] \in DOMAIN cache.hash_by_number
              /\ numbers[n] \in DOMAIN cache.headers_by_number
              /\ \A k \in DOMAIN cache.hash_by_number : k <= numbers[n]
          BY <2>4, <4>1, <4>2
        <4>4. latest(cache) # {}
          BY <4>3 DEF latest, contains
        <4>5. Restorable # {}
          BY <2>1, <4>1
        <4>6. QED
          BY <2>5, <4>4, <4>5
      <3>3. QED
        BY <3>1, <3>2
    <2>8. QED
      BY <2>6, <2>7 DEF HeadIsNewestRestored
  <1>2. QED
    BY <1>1, StoreStart, StoreKept, PTL DEF Spec
=============================================================================
