---------------------------- MODULE CacheProofs -----------------------------
(***************************************************************************)
(* Proofs about one cache, for every number of sets and ways, every set of *)
(* addresses and every sequence of lookups and fills: the stamps order the *)
(* blocks of a set, a block outlives the next uses of its set, and a cache *)
(* of cache.c is least-recently-used replacement: it implements LruCache.  *)
(*                                                                         *)
(* For the last, a valid block has a place in the list of its set, one     *)
(* behind the number of blocks with a newer stamp.  Because the stamps     *)
(* order the set (CacheInv), the places are 1, 2, ... without a gap.  A    *)
(* block that is stamped takes the first place, and those that were in     *)
(* front of it move back by one: that is what the lists of LruCache do.    *)
(***************************************************************************)
EXTENDS Cache, OperatorLemmas, FiniteSetTheorems, SequencesExt, SequenceTheorems

\* UsedBlockStays says that the block is there; that it survives the next use
\* of its set follows from how many blocks can be newer.
FewAreNewer ==
    \A a \in Addrs : uses[a] < NumWays =>
        \E w \in HittingWays(cache, a) :
            Cardinality(Newer(cache, find_set(cache, a), w)) <= uses[a]

CacheInv == TypeOK /\ StampsOrderTheSet /\ FewAreNewer

-----------------------------------------------------------------------------
(* cache_new leaves a cache that satisfies the invariant.                  *)
LEMMA CacheInit == Init => CacheInv
  <1> USE CacheAssumption
  <1> SUFFICES ASSUME Init PROVE CacheInv
    OBVIOUS
  <1>1. /\ DOMAIN cache = {"num_sets", "num_ways", "lru_tracker", "sets"}
        /\ cache.num_sets = NumSets /\ cache.num_ways = NumWays
        /\ cache.lru_tracker = 1
        /\ cache.sets = [s \in 0 .. NumSets - 1 |-> [w \in 0 .. NumWays - 1 |-> EmptyBlock]]
    BY DEF Init, cache_new
  <1>2. EmptyBlock \in Blocks /\ EmptyBlock.v_bit = 0 /\ EmptyBlock.order = 0
    BY DEF EmptyBlock, Blocks
  <1>3. \A s \in SetIndexes(cache), w \in Ways(cache) : cache.sets[s][w] = EmptyBlock
    BY <1>1 DEF SetIndexes, Ways
  <1>4. TypeOK
    <2>1. cache.sets \in [SetIndexes(cache) -> [Ways(cache) -> Blocks]]
      BY <1>1, <1>2 DEF SetIndexes, Ways
    <2> QED BY <1>1, <2>1 DEF Init, TypeOK, IsCache
  <1>5. StampsOrderTheSet
    BY <1>2, <1>3 DEF StampsOrderTheSet, Valid
  <1>6. FewAreNewer
    BY DEF FewAreNewer, Init
  <1> QED BY <1>4, <1>5, <1>6 DEF CacheInv

(* What distinguishes a fill from a hit: the block stamped was the victim, *)
(* or it already held the tag.                                             *)
StampedFor(a, w) ==
    /\ Stamped(cache, cache', find_set(cache, a), w, find_tag(cache, a))
    /\ w \in Ways(cache)
    /\ \/ w \in HittingWays(cache, a)
       \/ w \notin Valid(find_set(cache, a))
       \/ \A v \in Ways(cache) :
              /\ v \in Valid(find_set(cache, a))
              /\ cache.sets[find_set(cache, a)][w].order
                     <= cache.sets[find_set(cache, a)][v].order

(* Both calls of a cache's owner stamp one block that then holds the       *)
(* address, or, for a lookup that finds nothing, leave the cache alone.    *)
LEMMA StepStamps ==
  ASSUME CacheInv, NEW a \in Addrs, Check(a) \/ Update(a)
  PROVE  \/ UNCHANGED <<cache, uses>> /\ hit' \in {0, 1} /\ asked' = a
         \/ /\ \E w \in Ways(cache) : StampedFor(a, w)
            /\ Used(a) /\ hit' \in {0, 1} /\ asked' = a
  <1> USE CacheAssumption
  <1>1. /\ IsCache(cache, NumSets, NumWays)
        /\ a \in Nat
        /\ hit \in {0, 1}
        /\ cache.num_sets \in SupportedSetCounts
    BY DEF CacheInv, TypeOK, IsCache
  <1>2. CASE Check(a) /\ ~IsHit(cache, a)
    BY <1>1, <1>2, HitStamps DEF Check
  <1>3. CASE Check(a) /\ IsHit(cache, a)
    <2>1. PICK w \in HittingWays(cache, a) :
             Stamped(cache, check_cache_hit(cache, a), find_set(cache, a), w,
                     find_tag(cache, a))
      BY <1>1, <1>3, HitStamps
    <2>2. w \in Ways(cache)
      BY DEF HittingWays
    <2> QED BY <1>3, <2>1, <2>2 DEF Check, StampedFor
  <1>4. CASE Update(a)
    <2> DEFINE s == find_set(cache, a)
               w == find_suitable_block(cache, s)
    <2>1. s \in SetIndexes(cache)
      BY <1>1, AddressParts
    <2>2. Stamped(cache, cache', s, w, find_tag(cache, a))
      BY <1>1, <1>4, FillStamps DEF Update
    <2>3. /\ w \in Ways(cache)
          /\ \/ cache.sets[s][w].v_bit = 0
             \/ \A v \in Ways(cache) : /\ cache.sets[s][v].v_bit = 1
                                       /\ cache.sets[s][w].order <= cache.sets[s][v].order
      BY <1>1, <2>1, Victim
    <2> HIDE DEF w
    <2>4. StampedFor(a, w)
      BY <2>2, <2>3 DEF StampedFor, Valid
    <2> QED BY <1>1, <1>4, <2>3, <2>4 DEF Update
  <1> QED BY <1>2, <1>3, <1>4

(* Two addresses with the same set and the same tag are in one block.      *)
LEMMA PartsDetermineBlock ==
  ASSUME NEW c, c.num_sets \in SupportedSetCounts, NEW a \in Nat, NEW b \in Nat
  PROVE  SameBlock(a, b) <=> /\ find_set(c, a) = find_set(c, b)
                             /\ find_tag(c, a) = find_tag(c, b)
  <1> DEFINE x == a \div BlockBytes
             y == b \div BlockBytes
             n == c.num_sets
  <1>1. x \in Nat /\ y \in Nat
    BY DEF BlockBytes
  <1>2. n \in {4, 8, 64, 256}
    BY DEF SupportedSetCounts
  <1> HIDE DEF x, y, n
  <1>3. x = y <=> x % n = y % n /\ x \div n = y \div n
    <2>1. CASE n = 4
      BY <1>1, <2>1
    <2>2. CASE n = 8
      BY <1>1, <2>2
    <2>3. CASE n = 64
      BY <1>1, <2>3
    <2>4. CASE n = 256
      BY <1>1, <2>4
    <2> QED BY <1>2, <2>1, <2>2, <2>3, <2>4
  <1> QED BY <1>3 DEF SameBlock, find_set, find_tag, x, y, n

-----------------------------------------------------------------------------
(* A use leaves the stamps of every set in order: only the block used has  *)
(* a new one, and it is ahead of all others.                               *)
LEMMA StampsStayOrdered ==
  ASSUME TypeOK, StampsOrderTheSet, NEW a \in Addrs, NEW w, StampedFor(a, w)
  PROVE  /\ IsCache(cache', NumSets, NumWays)
         /\ Ways(cache') = Ways(cache) /\ SetIndexes(cache') = SetIndexes(cache)
         /\ StampsOrderTheSet'
  <1> USE CacheAssumption
  <1> DEFINE s == find_set(cache, a)
  <1>1. /\ IsCache(cache, NumSets, NumWays)
        /\ cache.lru_tracker \in Nat \ {0}
        /\ w \in Ways(cache)
        /\ Stamped(cache, cache', s, w, find_tag(cache, a))
    BY DEF TypeOK, IsCache, StampedFor
  <1>2. IsCache(cache', NumSets, NumWays)
    BY <1>1 DEF Stamped, IsCache
  <1>3. Ways(cache') = Ways(cache) /\ SetIndexes(cache') = SetIndexes(cache)
    BY <1>1, <1>2 DEF Ways, SetIndexes, IsCache
  <1>4. /\ cache'.lru_tracker = cache.lru_tracker + 1
        /\ cache'.sets[s][w].v_bit = 1
        /\ cache'.sets[s][w].order = cache.lru_tracker
        /\ \A s2 \in SetIndexes(cache), w2 \in Ways(cache) :
               s2 # s \/ w2 # w => cache'.sets[s2][w2] = cache.sets[s2][w2]
    BY <1>1 DEF Stamped
  <1>5. \A s2 \in SetIndexes(cache), w2 \in Ways(cache) :
           IF cache'.sets[s2][w2].v_bit = 1
           THEN /\ cache'.sets[s2][w2].order \in 1 .. cache'.lru_tracker - 1
                /\ \A v \in Ways(cache) \ {w2} :
                      cache'.sets[s2][v].v_bit = 1
                          => cache'.sets[s2][v].order # cache'.sets[s2][w2].order
           ELSE cache'.sets[s2][w2].order = 0
    <2> HIDE DEF s
    <2> TAKE s2 \in SetIndexes(cache), w2 \in Ways(cache)
    <2>0. \A v \in Ways(cache) :
             IF cache.sets[s2][v].v_bit = 1
             THEN /\ cache.sets[s2][v].order \in 1 .. cache.lru_tracker - 1
                  /\ \A u \in Ways(cache) \ {v} :
                        cache.sets[s2][u].v_bit = 1
                            => cache.sets[s2][u].order # cache.sets[s2][v].order
             ELSE cache.sets[s2][v].order = 0
      BY DEF StampsOrderTheSet, Valid
    <2>1. CASE s2 = s /\ w2 = w
      <3>1. \A v \in Ways(cache) \ {w2} : cache'.sets[s2][v] = cache.sets[s2][v]
        BY <1>4, <2>1
      <3> QED BY <1>1, <1>4, <2>0, <2>1, <3>1
    <2>2. CASE ~(s2 = s /\ w2 = w)
      <3>1. cache'.sets[s2][w2] = cache.sets[s2][w2]
        BY <1>4, <2>2
      <3>2. \A v \in Ways(cache) \ {w2} :
               \/ cache'.sets[s2][v] = cache.sets[s2][v]
               \/ cache'.sets[s2][v].order = cache.lru_tracker
        BY <1>4
      <3> QED BY <1>1, <1>4, <2>0, <3>1, <3>2
    <2> QED BY <2>1, <2>2
  <1>6. StampsOrderTheSet'
    BY <1>3, <1>5 DEF StampsOrderTheSet, Valid
  <1> QED BY <1>2, <1>3, <1>6

(* The used block becomes the newest of its set; another block of the set  *)
(* loses its place only if all the others are newer, and otherwise has at  *)
(* most one more block ahead of it; the other sets do not change.          *)
LEMMA FewStayNewer ==
  ASSUME CacheInv, NEW a \in Addrs, NEW w, StampedFor(a, w), Used(a)
  PROVE  FewAreNewer'
  <1> USE CacheAssumption
  <1>a. PICK s : s = find_set(cache, a)
    OBVIOUS
  <1>1. /\ IsCache(cache, NumSets, NumWays)
        /\ cache.lru_tracker \in Nat \ {0}
        /\ cache.num_sets = NumSets
        /\ w \in Ways(cache)
        /\ Ways(cache) = 0 .. NumWays - 1
        /\ uses \in [Addrs -> 0 .. NumWays]
        /\ StampsOrderTheSet /\ FewAreNewer
        /\ Stamped(cache, cache', s, w, find_tag(cache, a))
    BY <1>a DEF CacheInv, TypeOK, IsCache, StampedFor, Ways
  <1>2. /\ IsCache(cache', NumSets, NumWays)
        /\ Ways(cache') = Ways(cache) /\ SetIndexes(cache') = SetIndexes(cache)
    BY StampsStayOrdered DEF CacheInv
  <1>3. \A b \in Addrs : /\ find_set(cache', b) = find_set(cache, b)
                         /\ find_tag(cache', b) = find_tag(cache, b)
                         /\ find_set(cache, b) \in SetIndexes(cache)
    BY <1>1, <1>2, AddressParts DEF find_set, find_tag, IsCache
  <1>s. s \in SetIndexes(cache)
    BY <1>a, <1>3
  <1>4. /\ cache'.sets[s][w].v_bit = 1
        /\ cache'.sets[s][w].tag = find_tag(cache, a)
        /\ cache'.sets[s][w].order = cache.lru_tracker
        /\ \A s2 \in SetIndexes(cache), w2 \in Ways(cache) :
               s2 # s \/ w2 # w => cache'.sets[s2][w2] = cache.sets[s2][w2]
    BY <1>1 DEF Stamped
  <1>5. \A v \in Ways(cache) : cache.sets[s][v].v_bit = 1 =>
           /\ cache.sets[s][v].order \in 1 .. cache.lru_tracker - 1
           /\ \A u \in Ways(cache) \ {v} : cache.sets[s][u].v_bit = 1 =>
                 cache.sets[s][u].order # cache.sets[s][v].order
    BY <1>1, <1>s DEF StampsOrderTheSet, Valid
  <1>w. IsFiniteSet(Ways(cache)) /\ Cardinality(Ways(cache)) = NumWays
    BY <1>1, FS_Interval
  <1> SUFFICES ASSUME NEW b \in Addrs, uses'[b] < NumWays
               PROVE  \E x \in HittingWays(cache', b) :
                         Cardinality(Newer(cache', find_set(cache, b), x)) <= uses'[b]
    BY <1>3 DEF FewAreNewer
  <1>6. CASE SameBlock(a, b)
    <2>1. /\ find_set(cache, b) = s /\ find_tag(cache, b) = find_tag(cache, a)
          /\ uses'[b] = 0
      BY <1>a, <1>1, <1>6, PartsDetermineBlock DEF Used
    <2>2. w \in HittingWays(cache', b)
      BY <1>1, <1>2, <1>3, <1>4, <2>1 DEF HittingWays, Holds
    <2>3. Newer(cache', s, w) = {}
      <3> SUFFICES ASSUME NEW v \in Ways(cache), cache'.sets[s][v].v_bit = 1,
                          cache'.sets[s][v].order > cache'.sets[s][w].order
                   PROVE  FALSE
        BY <1>2 DEF Newer
      <3>1. v # w
        BY <1>1, <1>4
      <3>2. cache'.sets[s][v] = cache.sets[s][v]
        BY <1>s, <1>4, <3>1
      <3> QED BY <1>1, <1>4, <1>5, <3>2
    <2> QED BY <2>1, <2>2, <2>3, FS_EmptySet
  <1>7. CASE ~SameBlock(a, b) /\ find_set(cache, b) = s
    <2>1. uses[b] \in Nat /\ uses[b] < NumWays - 1 /\ uses'[b] = uses[b] + 1
      BY <1>a, <1>1, <1>7 DEF Used, SameSet
    <2>2. PICK x \in HittingWays(cache, b) : Cardinality(Newer(cache, s, x)) <= uses[b]
      BY <1>1, <1>7, <2>1 DEF FewAreNewer
    <2>3. /\ x \in Ways(cache)
          /\ cache.sets[s][x].v_bit = 1
          /\ cache.sets[s][x].tag = find_tag(cache, b)
      BY <1>7, <2>2 DEF HittingWays, Holds
    <2>4. x # w
      <3>1. CASE w \in HittingWays(cache, a)
        <4>1. cache.sets[s][w].tag = find_tag(cache, a)
          BY <1>a, <3>1 DEF HittingWays, Holds
        <4>2. find_tag(cache, a) # find_tag(cache, b)
          BY <1>a, <1>1, <1>7, PartsDetermineBlock
        <4> QED BY <2>3, <4>1, <4>2
      <3>2. CASE w \notin Valid(s)
        BY <2>3, <3>2 DEF Valid
      <3>3. CASE \A v \in Ways(cache) : /\ v \in Valid(s)
                                        /\ cache.sets[s][w].order <= cache.sets[s][v].order
        <4> SUFFICES ASSUME x = w PROVE FALSE
          OBVIOUS
        <4>1. \A v \in Ways(cache) : cache.sets[s][v].v_bit = 1
          BY <3>3 DEF Valid
        <4>2. \A v \in Ways(cache) \ {w} : cache.sets[s][v].order > cache.sets[s][w].order
          BY <1>1, <1>5, <3>3, <4>1
        <4>3. Newer(cache, s, x) = Ways(cache) \ {w}
          BY <1>1, <1>5, <4>1, <4>2 DEF Newer
        <4>4. Cardinality(Ways(cache) \ {w}) = NumWays - 1
          BY <1>1, <1>w, FS_RemoveElement
        <4> QED BY <2>1, <2>2, <4>3, <4>4
      <3> QED BY <1>a, <3>1, <3>2, <3>3 DEF StampedFor
    <2>5. cache'.sets[s][x] = cache.sets[s][x]
      BY <1>s, <1>4, <2>3, <2>4
    <2>6. x \in HittingWays(cache', b)
      BY <1>2, <1>3, <1>7, <2>2, <2>5 DEF HittingWays
    <2>7. PICK N : N = Newer(cache, s, x)
      OBVIOUS
    <2>8. PICK M : M = Newer(cache', s, x)
      OBVIOUS
    <2>9. M \subseteq N \cup {w}
      <3> SUFFICES ASSUME NEW v \in Ways(cache), cache'.sets[s][v].v_bit = 1,
                          cache'.sets[s][v].order > cache'.sets[s][x].order, v # w
                   PROVE  v \in N
        BY <1>2, <2>8 DEF Newer
      <3>1. cache'.sets[s][v] = cache.sets[s][v]
        BY <1>s, <1>4
      <3> QED BY <2>5, <2>7, <3>1 DEF Newer
    <2>10. IsFiniteSet(N)
      <3>1. N \in SUBSET Ways(cache)
        BY <2>7 DEF Newer
      <3> QED BY <1>w, <3>1, FS_Subset
    <2>11. /\ IsFiniteSet(N \cup {w})
           /\ Cardinality(N \cup {w}) <= Cardinality(N) + 1
           /\ Cardinality(N) \in Nat /\ Cardinality(N \cup {w}) \in Nat
      <3>1. Cardinality(N) \in Nat
        BY <2>10, FS_CardinalityType
      <3>2. /\ IsFiniteSet(N \cup {w})
            /\ Cardinality(N \cup {w}) = IF w \in N THEN Cardinality(N)
                                                     ELSE Cardinality(N) + 1
        BY <2>10, FS_AddElement
      <3> QED BY <3>1, <3>2
    <2>12. Cardinality(M) <= Cardinality(N \cup {w}) /\ Cardinality(M) \in Nat
      BY <2>9, <2>11, FS_Subset, FS_CardinalityType
    <2>13. Cardinality(M) <= uses'[b]
      BY <2>1, <2>2, <2>7, <2>11, <2>12
    <2> QED BY <1>7, <2>6, <2>8, <2>13
  <1>8. CASE find_set(cache, b) # s
    <2>1. PICK t : t = find_set(cache, b) /\ t \in SetIndexes(cache) /\ t # s
      BY <1>3, <1>8
    <2>2. uses'[b] = uses[b]
      BY <1>a, <1>1, <1>8, PartsDetermineBlock DEF Used, SameSet
    <2>3. PICK x \in HittingWays(cache, b) : Cardinality(Newer(cache, t, x)) <= uses[b]
      BY <2>1, <2>2, <1>1 DEF FewAreNewer
    <2>4. \A v \in Ways(cache) : cache'.sets[t][v] = cache.sets[t][v]
      BY <1>4, <2>1
    <2>5. x \in HittingWays(cache', b)
      BY <1>2, <1>3, <2>1, <2>3, <2>4 DEF HittingWays
    <2>6. Newer(cache', t, x) = Newer(cache, t, x)
      <3>1. x \in Ways(cache)
        BY DEF HittingWays
      <3> QED BY <1>2, <2>4, <3>1 DEF Newer
    <2> QED BY <2>1, <2>2, <2>3, <2>5, <2>6
  <1> QED BY <1>6, <1>7, <1>8

(* check_cache_hit and cache_update keep the invariant of the cache.       *)
LEMMA CacheStep ==
  ASSUME CacheInv, [Next]_vars
  PROVE  CacheInv'
  <1> USE CacheAssumption
  <1>1. CASE UNCHANGED <<cache, uses>> /\ hit' \in {0, 1} /\ asked' \in Addrs \cup {0}
    BY <1>1 DEF CacheInv, TypeOK, StampsOrderTheSet, Valid, FewAreNewer
  <1>2. ASSUME NEW a \in Addrs, NEW w \in Ways(cache), StampedFor(a, w), Used(a),
               hit' \in {0, 1}, asked' = a
        PROVE  CacheInv'
    <2>1. IsCache(cache', NumSets, NumWays) /\ StampsOrderTheSet'
      BY <1>2, StampsStayOrdered DEF CacheInv
    <2>2. FewAreNewer'
      BY <1>2, FewStayNewer
    <2>3. uses' \in [Addrs -> 0 .. NumWays]
      BY <1>2 DEF Used, CacheInv, TypeOK
    <2> QED BY <1>2, <2>1, <2>2, <2>3 DEF CacheInv, TypeOK
  <1>3. CASE Next
    <2>1. PICK a \in Addrs : Check(a) \/ Update(a)
      BY <1>3 DEF Next
    <2> QED BY <1>1, <1>2, <2>1, StepStamps
  <1>4. CASE UNCHANGED vars
    BY <1>1, <1>4 DEF vars, CacheInv, TypeOK
  <1> QED BY <1>3, <1>4

(* The invariant holds after any sequence of lookups and fills.            *)
LEMMA CacheInvariant == Spec => []CacheInv
  BY CacheInit, CacheStep, PTL DEF Spec

(* cache.c: a cache_t keeps its shape.                                     *)
THEOREM CacheTypesHold == Spec => []TypeOK
  <1>1. CacheInv => TypeOK
    BY DEF CacheInv
  <1> QED BY <1>1, CacheInvariant, PTL

(* update_vals, check_hit: the stamps of the valid blocks of a set are     *)
(* distinct and behind the clock, so there is one block used longest ago.  *)
THEOREM StampsAreOrdered == Spec => []StampsOrderTheSet
  <1>1. CacheInv => StampsOrderTheSet
    BY DEF CacheInv
  <1> QED BY <1>1, CacheInvariant, PTL

(* find_suitable_block: a block outlives the next NumWays - 1 uses of its  *)
(* set.                                                                    *)
THEOREM UsedBlocksStay == Spec => []UsedBlockStays
  <1>1. CacheInv => UsedBlockStays
    BY DEF CacheInv, FewAreNewer, UsedBlockStays, IsHit
  <1> QED BY <1>1, CacheInvariant, PTL

-----------------------------------------------------------------------------
(* Places in an order.                                                     *)

\* The elements of V whose stamp o is newer than that of w, and the place
\* that leaves for w.
Ahead(V, o, w) == {v \in V : o[v] > o[w]}
Place(V, o, w) == Cardinality(Ahead(V, o, w)) + 1

Ordered(V, o) ==
    /\ IsFiniteSet(V)
    /\ \A v \in V : o[v] \in Nat
    /\ \A v, w \in V : v # w => o[v] # o[w]

(* Distinct stamps give distinct places, newer ones first, and every place *)
(* is taken.                                                               *)
LEMMA Places ==
  ASSUME NEW V, NEW o, Ordered(V, o)
  PROVE  /\ Cardinality(V) \in Nat
         /\ \A w \in V : IsFiniteSet(Ahead(V, o, w)) /\ Place(V, o, w) \in 1 .. Cardinality(V)
         /\ \A v, w \in V : o[v] > o[w] <=> Place(V, o, v) < Place(V, o, w)
         /\ \A v, w \in V : Place(V, o, v) = Place(V, o, w) => v = w
         /\ \A i \in 1 .. Cardinality(V) : \E w \in V : Place(V, o, w) = i
  <1> DEFINE n == Cardinality(V)
  <1>1. n \in Nat
    BY FS_CardinalityType DEF Ordered
  <1>2. ASSUME NEW w \in V
        PROVE  IsFiniteSet(Ahead(V, o, w)) /\ Place(V, o, w) \in 1 .. n
    <2>1. Ahead(V, o, w) \in SUBSET (V \ {w})
      BY DEF Ahead, Ordered
    <2>2. IsFiniteSet(V \ {w}) /\ Cardinality(V \ {w}) = n - 1
      BY FS_RemoveElement DEF Ordered
    <2>3. /\ IsFiniteSet(Ahead(V, o, w))
          /\ Cardinality(Ahead(V, o, w)) <= n - 1
      BY <2>1, <2>2, FS_Subset
    <2>4. Cardinality(Ahead(V, o, w)) \in Nat
      BY <2>3, FS_CardinalityType
    <2> QED BY <1>1, <2>3, <2>4 DEF Place
  <1>3. ASSUME NEW v \in V, NEW w \in V, o[v] > o[w]
        PROVE  Place(V, o, v) < Place(V, o, w)
    <2> DEFINE A == Ahead(V, o, v)
               B == Ahead(V, o, w)
    <2>1. A \in SUBSET B /\ v \in B /\ v \notin A
      BY <1>3 DEF Ahead, Ordered
    <2>2. IsFiniteSet(A) /\ IsFiniteSet(B)
      BY <1>2
    <2>3. Cardinality(A) \in Nat /\ Cardinality(B) \in Nat
      BY <2>2, FS_CardinalityType
    <2> HIDE DEF A, B
    <2>4. Cardinality(A) <= Cardinality(B) /\ Cardinality(A) # Cardinality(B)
      BY <2>1, <2>2, FS_Subset
    <2>5. Cardinality(A) < Cardinality(B)
      BY <2>3, <2>4
    <2> QED BY <2>3, <2>5 DEF Place, A, B
  <1>4. \A v, w \in V : o[v] > o[w] <=> Place(V, o, v) < Place(V, o, w)
    BY <1>1, <1>2, <1>3 DEF Ordered
  <1>5. \A v, w \in V : Place(V, o, v) = Place(V, o, w) => v = w
    BY <1>1, <1>2, <1>3 DEF Ordered
  <1>6. \A i \in 1 .. n : \E w \in V : Place(V, o, w) = i
    <2> DEFINE f == [w \in V |-> Place(V, o, w)]
    <2>1. f \in Injection(V, 1 .. n)
      BY <1>2, <1>5 DEF Injection, IsInjective
    <2>2. IsFiniteSet(1 .. n) /\ Cardinality(1 .. n) = n
      BY <1>1, FS_Interval
    <2> HIDE DEF f
    <2>3. f \in Surjection(V, 1 .. n)
      BY <2>1, <2>2, FS_Injection
    <2> QED BY <2>3 DEF Surjection, f
  <1> QED BY <1>1, <1>2, <1>4, <1>5, <1>6

\* The stamps p differ from o in that w, in V or not, has the newest one.
Restamps(V, o, w, p) ==
    /\ Ordered(V, o)
    /\ p[w] \in Nat
    /\ \A v \in V : o[v] < p[w]
    /\ \A v \in V \ {w} : p[v] = o[v]

\* Where that leaves another element.
MovedBack(V, o, w, v) ==
    IF w \in V /\ Place(V, o, w) < Place(V, o, v) THEN Place(V, o, v)
                                                 ELSE Place(V, o, v) + 1

(* The element stamped goes to the first place; those that were in front   *)
(* of it, or all if it is new, move back by one.                           *)
LEMMA PlacesAfter ==
  ASSUME NEW V, NEW o, NEW w, NEW p, Restamps(V, o, w, p)
  PROVE  /\ Ordered(V \cup {w}, p)
         /\ Place(V \cup {w}, p, w) = 1
         /\ \A v \in V \ {w} : Place(V \cup {w}, p, v) = MovedBack(V, o, w, v)
  <1> USE DEF Restamps
  <1> DEFINE V2 == V \cup {w}
  <1>1. Ordered(V2, p)
    <2>1. IsFiniteSet(V2)
      BY FS_AddElement DEF Ordered
    <2>2. \A v \in V2 : p[v] \in Nat
      BY DEF Ordered
    <2>3. \A v, x \in V2 : v # x => p[v] # p[x]
      BY DEF Ordered
    <2> QED BY <2>1, <2>2, <2>3 DEF Ordered
  <1>2. Place(V2, p, w) = 1
    <2>1. Ahead(V2, p, w) = {}
      BY DEF Ahead, Ordered
    <2> QED BY <2>1, FS_EmptySet DEF Place
  <1>3. ASSUME NEW v \in V \ {w}
        PROVE  Place(V2, p, v) = MovedBack(V, o, w, v)
    <2>1. Ahead(V2, p, v) = Ahead(V, o, v) \cup {w}
      BY DEF Ahead, Ordered
    <2>2. IsFiniteSet(Ahead(V, o, v)) /\ Place(V, o, v) \in 1 .. Cardinality(V)
          /\ Cardinality(V) \in Nat
      BY Places
    <2>3. w \in Ahead(V, o, v) <=> w \in V /\ Place(V, o, w) < Place(V, o, v)
      <3>1. w \in V => (o[w] > o[v] <=> Place(V, o, w) < Place(V, o, v))
        BY Places
      <3> QED BY <3>1 DEF Ahead
    <2>4. Cardinality(Ahead(V, o, v) \cup {w}) =
              IF w \in Ahead(V, o, v) THEN Cardinality(Ahead(V, o, v))
                                      ELSE Cardinality(Ahead(V, o, v)) + 1
      BY <2>2, FS_AddElement
    <2>5. Cardinality(Ahead(V, o, v)) \in Nat
      BY <2>2, FS_CardinalityType
    <2> QED BY <2>1, <2>3, <2>4, <2>5 DEF Place, MovedBack
  <1> QED BY <1>1, <1>2, <1>3

-----------------------------------------------------------------------------
(* The list of the elements of V, each standing for its tag.               *)
Listed(V, o, tag) ==
    [i \in 1 .. Cardinality(V) |-> tag[CHOOSE w \in V : Place(V, o, w) = i]]

(* Every element is at its place, and nothing else is in the list.         *)
LEMMA ListedTags ==
  ASSUME NEW V, NEW o, Ordered(V, o), NEW tag, \A v \in V : tag[v] \in Nat
  PROVE  /\ Listed(V, o, tag) \in Seq(Nat)
         /\ Len(Listed(V, o, tag)) = Cardinality(V)
         /\ \A v \in V : Listed(V, o, tag)[Place(V, o, v)] = tag[v]
  <1> DEFINE n == Cardinality(V)
             at(i) == CHOOSE w \in V : Place(V, o, w) = i
  <1>1. n \in Nat
    BY Places
  <1>2. \A i \in 1 .. n : at(i) \in V /\ Place(V, o, at(i)) = i
    BY Places
  <1>3. \A v \in V : Place(V, o, v) \in 1 .. n /\ at(Place(V, o, v)) = v
    BY <1>2, Places
  <1>4. Listed(V, o, tag) = [i \in 1 .. n |-> tag[at(i)]]
    BY DEF Listed
  <1> HIDE DEF n, at
  <1>5. Listed(V, o, tag) \in [1 .. n -> Nat]
    BY <1>2, <1>4
  <1>6. Listed(V, o, tag) \in Seq(Nat) /\ Len(Listed(V, o, tag)) = n
    BY <1>1, <1>5
  <1>7. \A v \in V : Listed(V, o, tag)[Place(V, o, v)] = tag[v]
    BY <1>3, <1>4
  <1> QED BY <1>6, <1>7 DEF n

(* A list with t in front ...                                              *)
LEMMA InFront ==
  ASSUME NEW q \in Seq(Nat), NEW t \in Nat
  PROVE  /\ <<t>> \o q \in Seq(Nat)
         /\ Len(<<t>> \o q) = Len(q) + 1
         /\ \A i \in 1 .. Len(q) + 1 : (<<t>> \o q)[i] = IF i = 1 THEN t ELSE q[i - 1]
  <1>1. <<t>> \in Seq(Nat) /\ Len(<<t>>) = 1 /\ <<t>>[1] = t
    OBVIOUS
  <1>2. Len(q) \in Nat
    OBVIOUS
  <1> DEFINE h == <<t>>
  <1> HIDE DEF h
  <1>3. /\ h \o q \in Seq(Nat)
        /\ Len(h \o q) = Len(h) + Len(q)
        /\ \A i \in 1 .. Len(h) + Len(q) : (h \o q)[i] = IF i <= Len(h) THEN h[i] ELSE q[i - Len(h)]
    BY <1>1, ConcatProperties DEF h
  <1>4. Len(h) = 1 /\ h[1] = t
    BY <1>1 DEF h
  <1>5. \A i \in 1 .. Len(q) + 1 : (h \o q)[i] = IF i = 1 THEN t ELSE q[i - 1]
    BY <1>2, <1>3, <1>4
  <1> QED BY <1>2, <1>3, <1>4, <1>5 DEF h

(* ... and without the element at r.                                       *)
LEMMA Without ==
  ASSUME NEW q \in Seq(Nat), NEW r \in 1 .. Len(q)
  PROVE  /\ RemoveAt(q, r) \in Seq(Nat)
         /\ Len(RemoveAt(q, r)) = Len(q) - 1
         /\ \A i \in 1 .. Len(q) - 1 : RemoveAt(q, r)[i] = IF i < r THEN q[i] ELSE q[i + 1]
  <1> DEFINE n == Len(q)
             a == SubSeq(q, 1, r - 1)
             b == SubSeq(q, r + 1, n)
  <1>1. n \in Nat /\ r \in 1 .. n /\ \A i \in 1 .. n : q[i] \in Nat
    OBVIOUS
  <1>2. RemoveAt(q, r) = a \o b
    BY DEF RemoveAt
  <1>3. /\ a \in Seq(Nat) /\ Len(a) = r - 1
        /\ \A i \in 1 .. r - 1 : a[i] = q[i]
    <2>1. \A i \in 1 .. r - 1 : q[i] \in Nat
      BY <1>1
    <2>2. /\ a \in Seq(Nat)
          /\ Len(a) = IF 1 <= r - 1 THEN (r - 1) - 1 + 1 ELSE 0
          /\ \A i \in 1 .. (r - 1) - 1 + 1 : a[i] = q[1 + i - 1]
      BY <2>1, SubSeqProperties
    <2> HIDE DEF a
    <2> QED BY <1>1, <2>2
  <1>4. /\ b \in Seq(Nat) /\ Len(b) = n - r
        /\ \A i \in 1 .. n - r : b[i] = q[r + i]
    <2>1. \A i \in r + 1 .. n : q[i] \in Nat
      BY <1>1
    <2>2. /\ b \in Seq(Nat)
          /\ Len(b) = IF r + 1 <= n THEN n - (r + 1) + 1 ELSE 0
          /\ \A i \in 1 .. n - (r + 1) + 1 : b[i] = q[(r + 1) + i - 1]
      BY <1>1, <2>1, SubSeqProperties
    <2> HIDE DEF b
    <2> QED BY <1>1, <2>2
  <1> HIDE DEF a, b, n
  <1>5. /\ a \o b \in Seq(Nat) /\ Len(a \o b) = Len(a) + Len(b)
        /\ \A i \in 1 .. Len(a) + Len(b) :
              (a \o b)[i] = IF i <= Len(a) THEN a[i] ELSE b[i - Len(a)]
    BY <1>3, <1>4, ConcatProperties
  <1>6. Len(a) + Len(b) = n - 1
    BY <1>1, <1>3, <1>4
  <1>7. ASSUME NEW i \in 1 .. n - 1
        PROVE  (a \o b)[i] = IF i < r THEN q[i] ELSE q[i + 1]
    <2>1. CASE i < r
      BY <1>1, <1>3, <1>5, <1>6, <2>1
    <2>2. CASE i >= r
      <3>1. i - (r - 1) \in 1 .. n - r /\ r + (i - (r - 1)) = i + 1
        BY <1>1, <2>2
      <3>2. b[i - (r - 1)] = q[i + 1]
        BY <1>4, <3>1
      <3>3. (a \o b)[i] = b[i - (r - 1)]
        BY <1>1, <1>3, <1>5, <1>6, <2>2
      <3>4. ~(i < r)
        BY <1>1, <2>2
      <3> QED BY <3>2, <3>3, <3>4
    <2>3. i < r \/ i >= r
      BY <1>1
    <2> QED BY <2>1, <2>2, <2>3
  <1> QED BY <1>2, <1>5, <1>6, <1>7 DEF n

\* The tags differ in that w, in V or not, has got its own.
Retags(V, tag, w, tag2) ==
    /\ \A v \in V : tag[v] \in Nat
    /\ tag2[w] \in Nat
    /\ \A v \in V \ {w} : tag2[v] = tag[v]

\* A list of V with the tag t in front, from the place of w if it had one.
ToFront(V, o, w, list, t) ==
    <<t>> \o (IF w \in V THEN RemoveAt(list, Place(V, o, w)) ELSE list)

(* Stamping moves an element to the front of the list, or puts it there.   *)
LEMMA ListedAfter ==
  ASSUME NEW V, NEW o, NEW w, NEW p, Restamps(V, o, w, p),
         NEW tag, NEW tag2, Retags(V, tag, w, tag2)
  PROVE  Listed(V \cup {w}, p, tag2) = ToFront(V, o, w, Listed(V, o, tag), tag2[w])
  <1>o. Ordered(V, o)
    BY DEF Restamps
  <1>t. /\ \A v \in V : tag[v] \in Nat
        /\ tag2[w] \in Nat
        /\ \A v \in V \ {w} : tag2[v] = tag[v]
    BY DEF Retags
  <1>0. /\ Ordered(V \cup {w}, p)
        /\ Place(V \cup {w}, p, w) = 1
        /\ \A v \in V \ {w} : Place(V \cup {w}, p, v) = MovedBack(V, o, w, v)
    BY PlacesAfter
  <1> DEFINE V2 == V \cup {w}
             n == Cardinality(V)
             n2 == Cardinality(V2)
             r == Place(V, o, w)
             t == tag2[w]
             list == Listed(V, o, tag)
             list2 == Listed(V2, p, tag2)
             rest == IF w \in V THEN RemoveAt(list, r) ELSE list
  <1>1. /\ Ordered(V2, p) /\ Place(V2, p, w) = 1
        /\ \A v \in V \ {w} :
               Place(V2, p, v) = IF w \in V /\ r < Place(V, o, v) THEN Place(V, o, v)
                                                                   ELSE Place(V, o, v) + 1
    BY <1>0 DEF MovedBack
  <1>2. /\ n \in Nat
        /\ \A v \in V : Place(V, o, v) \in 1 .. n
        /\ \A v \in V : Place(V, o, v) = r /\ w \in V => v = w
    BY <1>o, Places
  <1>3. /\ list \in Seq(Nat) /\ Len(list) = n
        /\ \A v \in V : list[Place(V, o, v)] = tag[v]
    BY <1>o, <1>t, ListedTags
  <1>4. /\ list2 \in Seq(Nat) /\ Len(list2) = n2
        /\ \A v \in V2 : list2[Place(V2, p, v)] = tag2[v]
    <2>1. \A v \in V2 : tag2[v] \in Nat
      BY <1>t
    <2> HIDE DEF V2
    <2> QED BY <1>1, <2>1, ListedTags
  <1>5. n2 \in Nat /\ \A i \in 1 .. n2 : \E v \in V2 : Place(V2, p, v) = i
    BY <1>1, Places
  <1>6. n2 = IF w \in V THEN n ELSE n + 1
    BY <1>o, FS_AddElement DEF Ordered
  <1>7. w \in V => r \in 1 .. n
    BY <1>2
  <1>e. V2 \ {w} = V \ {w}
    OBVIOUS
  <1> HIDE DEF list, list2, n, n2, r, V2
  <1>8. /\ rest \in Seq(Nat) /\ Len(rest) = n2 - 1
        /\ \A i \in 1 .. n2 - 1 :
              rest[i] = IF w \in V /\ i >= r THEN list[i + 1] ELSE list[i]
    <2>1. CASE w \in V
      <3>1. /\ RemoveAt(list, r) \in Seq(Nat) /\ Len(RemoveAt(list, r)) = n - 1
            /\ \A i \in 1 .. n - 1 :
                  RemoveAt(list, r)[i] = IF i < r THEN list[i] ELSE list[i + 1]
        BY <1>3, <1>7, <2>1, Without
      <3> QED BY <1>2, <1>6, <1>7, <2>1, <3>1
    <2>2. CASE w \notin V
      BY <1>2, <1>3, <1>6, <2>2
    <2> QED BY <2>1, <2>2
  <1> HIDE DEF rest
  <1>9. /\ <<t>> \o rest \in Seq(Nat) /\ Len(<<t>> \o rest) = n2
        /\ \A i \in 1 .. n2 : (<<t>> \o rest)[i] = IF i = 1 THEN t ELSE rest[i - 1]
    <2>1. t \in Nat /\ Len(rest) + 1 = n2
      BY <1>5, <1>8, <1>t
    <2> HIDE DEF t
    <2> QED BY <1>8, <2>1, InFront
  <1>10. ASSUME NEW i \in 1 .. n2
         PROVE  list2[i] = (<<t>> \o rest)[i]
    <2>1. PICK v \in V2 : Place(V2, p, v) = i
      BY <1>5
    <2>2. list2[i] = tag2[v]
      BY <1>4, <2>1
    <2>3. CASE v = w
      BY <1>1, <1>9, <2>1, <2>2, <2>3
    <2>4. CASE v # w
      <3> DEFINE k == Place(V, o, v)
      <3>1. /\ v \in V \ {w} /\ k \in 1 .. n /\ list[k] = tag[v] /\ tag2[v] = tag[v]
            /\ i = IF w \in V /\ r < k THEN k ELSE k + 1
            /\ w \in V => k # r
        BY <1>1, <1>2, <1>3, <1>e, <1>t, <2>1, <2>4
      <3> HIDE DEF k
      <3>2. CASE w \in V /\ r < k
        <4>1. i = k /\ i # 1 /\ i - 1 \in 1 .. n2 - 1 /\ i - 1 >= r
          BY <1>2, <1>5, <1>6, <1>7, <3>1, <3>2
        <4>2. rest[i - 1] = list[(i - 1) + 1] /\ (i - 1) + 1 = i
          BY <1>8, <3>2, <4>1
        <4> QED BY <1>9, <2>2, <3>1, <4>1, <4>2
      <3>3. CASE ~(w \in V /\ r < k)
        <4>1. i = k + 1 /\ i # 1 /\ i - 1 \in 1 .. n2 - 1 /\ i - 1 = k
          BY <1>2, <1>5, <1>6, <3>1, <3>3
        <4>2. ~(w \in V /\ i - 1 >= r)
          BY <1>2, <1>7, <3>1, <3>3, <4>1
        <4>3. rest[i - 1] = list[i - 1]
          BY <1>8, <4>1, <4>2
        <4> QED BY <1>9, <2>2, <3>1, <4>1, <4>3
      <3> QED BY <3>2, <3>3
    <2> QED BY <2>3, <2>4
  <1>11. list2 = <<t>> \o rest
    <2> DEFINE l == <<t>> \o rest
    <2>1. l \in Seq(Nat) /\ Len(l) = Len(list2) /\ \A i \in 1 .. Len(list2) : list2[i] = l[i]
      BY <1>4, <1>9, <1>10
    <2> HIDE DEF l
    <2>2. list2 = l
      BY <1>4, <2>1, SeqEqual
    <2> QED BY <2>2 DEF l
  <1> QED BY <1>11 DEF ToFront, list2, list, rest, r, V2

-----------------------------------------------------------------------------
(* The list of a set of a cache.                                           *)
ValidIn(c, s) == {w \in Ways(c) : c.sets[s][w].v_bit = 1}
OrderIn(c, s) == [w \in Ways(c) |-> c.sets[s][w].order]
TagIn(c, s)   == [w \in Ways(c) |-> c.sets[s][w].tag]
ListIn(c, s)  == Listed(ValidIn(c, s), OrderIn(c, s), TagIn(c, s))

(* The stamps order the valid blocks, each of which has a tag.             *)
LEMMA OrderedSet ==
  ASSUME CacheInv, NEW s \in SetIndexes(cache)
  PROVE  /\ Ordered(ValidIn(cache, s), OrderIn(cache, s))
         /\ \A w \in ValidIn(cache, s) : /\ TagIn(cache, s)[w] \in Nat
                                         /\ OrderIn(cache, s)[w] < cache.lru_tracker
  <1> USE CacheAssumption
  <1> DEFINE V == ValidIn(cache, s)
             o == OrderIn(cache, s)
  <1>1. IsFiniteSet(V)
    <2>1. IsFiniteSet(Ways(cache))
      BY FS_Interval DEF CacheInv, TypeOK, IsCache, Ways
    <2>2. V \in SUBSET Ways(cache)
      BY DEF ValidIn
    <2> QED BY <2>1, <2>2, FS_Subset
  <1>2. \A w \in Ways(cache) : cache.sets[s][w] \in Blocks
    BY DEF CacheInv, TypeOK, IsCache
  <1>3. \A w \in V : /\ w \in Ways(cache) /\ w \in Valid(s)
                     /\ o[w] = cache.sets[s][w].order
                     /\ TagIn(cache, s)[w] = cache.sets[s][w].tag
    BY DEF ValidIn, Valid, OrderIn, TagIn
  <1>4. \A w \in V : o[w] \in 1 .. cache.lru_tracker - 1
    BY <1>3 DEF CacheInv, StampsOrderTheSet
  <1>5. \A v, w \in V : v # w => o[v] # o[w]
    BY <1>3 DEF CacheInv, StampsOrderTheSet
  <1>6. cache.lru_tracker \in Nat
    BY DEF CacheInv, TypeOK, IsCache
  <1> HIDE DEF V, o
  <1>7. Ordered(V, o)
    BY <1>1, <1>4, <1>5, <1>6 DEF Ordered
  <1>8. \A w \in V : TagIn(cache, s)[w] \in Nat /\ o[w] < cache.lru_tracker
    BY <1>2, <1>3, <1>4, <1>6 DEF Blocks
  <1> QED BY <1>7, <1>8 DEF V, o

RecencyIsTheList == \A s \in SetIndexes(cache) : Recency(s) = ListIn(cache, s)

(* What Recency lists is that.                                             *)
LEMMA RecencyIsListed == CacheInv => RecencyIsTheList
  <1> SUFFICES ASSUME CacheInv, NEW s \in SetIndexes(cache)
               PROVE  Recency(s) = ListIn(cache, s)
    BY DEF RecencyIsTheList
  <1> DEFINE V == ValidIn(cache, s)
             o == OrderIn(cache, s)
             n == Cardinality(V)
             place(w) == Cardinality(Newer(cache, s, w)) + 1
             here(i) == CHOOSE w \in V : place(w) = i
             there(i) == CHOOSE w \in V : Place(V, o, w) = i
  <1>1. Valid(s) = V
    BY DEF Valid, ValidIn
  <1>2. \A w \in V : Newer(cache, s, w) = Ahead(V, o, w)
    BY DEF Newer, Ahead, ValidIn, OrderIn
  <1>3. \A w \in V : place(w) = Place(V, o, w)
    BY <1>2 DEF Place
  <1>4. Ordered(V, o)
    BY OrderedSet
  <1>r. Recency(s) = [i \in 1 .. n |-> cache.sets[s][here(i)].tag]
    BY <1>1 DEF Recency
  <1>l. ListIn(cache, s) = [i \in 1 .. n |-> TagIn(cache, s)[there(i)]]
    BY DEF ListIn, Listed
  <1> HIDE DEF V, o, n, place
  <1>5. ASSUME NEW i \in 1 .. n
        PROVE  here(i) \in V /\ here(i) = there(i)
    <2>1. PICK w \in V : Place(V, o, w) = i
      BY <1>4, Places DEF n
    <2>2. \A v \in V : Place(V, o, v) = Place(V, o, w) => v = w
      BY <1>4, Places
    <2>3. there(i) \in V /\ Place(V, o, there(i)) = i
      BY <2>1
    <2>4. here(i) \in V /\ place(here(i)) = i
      BY <1>3, <2>1
    <2> QED BY <1>3, <2>1, <2>2, <2>3, <2>4
  <1>6. \A w \in V : cache.sets[s][w].tag = TagIn(cache, s)[w]
    BY DEF V, ValidIn, TagIn
  <1> HIDE DEF here, there
  <1>7. \A i \in 1 .. n : cache.sets[s][here(i)].tag = TagIn(cache, s)[there(i)]
    BY <1>5, <1>6
  <1> QED BY <1>r, <1>l, <1>7

(* A use of block w of a set for an address puts its tag in front.         *)
LEMMA UseMovesToFront ==
  ASSUME CacheInv, NEW a \in Addrs, NEW w, StampedFor(a, w)
  PROVE  LET s    == find_set(cache, a)
             V    == ValidIn(cache, s)
             list == ListIn(cache, s)
         IN  /\ SetIndexes(cache') = SetIndexes(cache)
             /\ ListIn(cache', s) =
                    ToFront(V, OrderIn(cache, s), w, list, find_tag(cache, a))
             /\ \A s2 \in SetIndexes(cache) \ {s} : ListIn(cache', s2) = ListIn(cache, s2)
  <1> USE CacheAssumption
  <1>s. PICK s : s = find_set(cache, a)
    OBVIOUS
  <1>t. PICK t : t = find_tag(cache, a)
    OBVIOUS
  <1> DEFINE V == ValidIn(cache, s)
             o == OrderIn(cache, s)
             p == OrderIn(cache', s)
             tag == TagIn(cache, s)
             tag2 == TagIn(cache', s)
  <1>1. /\ SetIndexes(cache') = SetIndexes(cache) /\ Ways(cache') = Ways(cache)
        /\ w \in Ways(cache) /\ cache.lru_tracker \in Nat
        /\ s \in SetIndexes(cache) /\ t \in Nat
    <2>1. SetIndexes(cache') = SetIndexes(cache) /\ Ways(cache') = Ways(cache)
      BY StampsStayOrdered DEF CacheInv
    <2>2. cache.num_sets \in SupportedSetCounts /\ a \in Nat /\ cache.lru_tracker \in Nat
      BY DEF CacheInv, TypeOK, IsCache
    <2>3. s \in SetIndexes(cache) /\ t \in Nat
      BY <1>s, <1>t, <2>2, AddressParts
    <2> QED BY <2>1, <2>2, <2>3 DEF StampedFor
  <1>2. /\ cache'.sets[s][w].v_bit = 1
        /\ cache'.sets[s][w].tag = t
        /\ cache'.sets[s][w].order = cache.lru_tracker
        /\ \A s2 \in SetIndexes(cache), w2 \in Ways(cache) :
               s2 # s \/ w2 # w => cache'.sets[s2][w2] = cache.sets[s2][w2]
    BY <1>s, <1>t DEF StampedFor, Stamped
  <1>3. /\ Ordered(V, o)
        /\ \A v \in V : tag[v] \in Nat /\ o[v] < cache.lru_tracker
    BY <1>1, OrderedSet
  <1>4. ValidIn(cache', s) = V \cup {w}
    BY <1>1, <1>2 DEF ValidIn
  <1>5. p[w] = cache.lru_tracker /\ tag2[w] = t
    BY <1>1, <1>2 DEF OrderIn, TagIn
  <1>6. \A v \in V \ {w} : p[v] = o[v] /\ tag2[v] = tag[v]
    BY <1>1, <1>2 DEF OrderIn, TagIn, ValidIn
  <1>7. ASSUME NEW s2 \in SetIndexes(cache) \ {s}
        PROVE  ListIn(cache', s2) = ListIn(cache, s2)
    <2>1. \A v \in Ways(cache) : cache'.sets[s2][v] = cache.sets[s2][v]
      BY <1>2
    <2>2. /\ ValidIn(cache', s2) = ValidIn(cache, s2)
          /\ OrderIn(cache', s2) = OrderIn(cache, s2)
          /\ TagIn(cache', s2) = TagIn(cache, s2)
      BY <1>1, <2>1 DEF ValidIn, OrderIn, TagIn
    <2> QED BY <2>2 DEF ListIn
  <1>8. ListIn(cache', s) = Listed(V \cup {w}, p, tag2)
    BY <1>4 DEF ListIn
  <1> HIDE DEF V, o, p, tag, tag2
  <1>9. Restamps(V, o, w, p)
    BY <1>1, <1>3, <1>5, <1>6 DEF Restamps
  <1>10. Listed(V \cup {w}, p, tag2) =
             ToFront(V, o, w, Listed(V, o, tag), tag2[w])
    <2>1. Retags(V, tag, w, tag2)
      BY <1>1, <1>3, <1>5, <1>6 DEF Retags
    <2> QED BY <1>9, <2>1, ListedAfter
  <1>11. Listed(V, o, tag) = ListIn(cache, s)
    BY DEF ListIn, V, o, tag
  <1> QED BY <1>s, <1>t, <1>1, <1>5, <1>7, <1>8, <1>10, <1>11 DEF V, o

-----------------------------------------------------------------------------
(* The state of LruCache that a cache stands for.                          *)
Lists == [s \in 0 .. NumSets - 1 |-> Recency(s)]

\* The lists when set s has its tag t in front, from the place of w.
ListsWith(w, s, t) ==
    [Lists EXCEPT ![s] = ToFront(ValidIn(cache, s), OrderIn(cache, s), w, ListIn(cache, s), t)]

\* The set and the tag of the last call.
Asked == <<(asked \div BlockBytes) % NumSets, (asked \div BlockBytes) \div NumSets>>

(* An address is looked up in a set of LruCache, for one of its tags.      *)
LEMMA AddressesAreAbstract ==
  ASSUME CacheInv, NEW a \in Addrs
  PROVE  /\ find_set(cache, a) \in 0 .. NumSets - 1
         /\ find_set(cache, a) \in SetIndexes(cache)
         /\ find_tag(cache, a) \in {(b \div BlockBytes) \div NumSets : b \in Addrs}
         /\ SetIndexes(cache) = 0 .. NumSets - 1
  <1> USE CacheAssumption
  <1>1. cache.num_sets = NumSets /\ a \in Nat
    BY DEF CacheInv, TypeOK, IsCache
  <1>2. find_set(cache, a) \in SetIndexes(cache)
    BY <1>1, AddressParts
  <1> QED BY <1>1, <1>2 DEF SetIndexes, find_tag

(* The set and the tag of cache.c are those of the address.                *)
LEMMA CallsAreAbstract ==
  ASSUME CacheInv, NEW a \in Addrs, asked' = a
  PROVE  Asked' = <<find_set(cache, a), find_tag(cache, a)>>
  BY DEF Asked, CacheInv, TypeOK, IsCache, find_set, find_tag

(* So it is after a step.                                                  *)
LEMMA RecencyStaysListed == CacheInv' => RecencyIsTheList'
  BY RecencyIsListed, PTL

(* A use changes the list of its set and no other.                         *)
LEMMA UseChangesOneList ==
  ASSUME CacheInv, Next, NEW a \in Addrs, NEW w, StampedFor(a, w)
  PROVE  Lists' = ListsWith(w, find_set(cache, a), find_tag(cache, a))
  <1>s. PICK s : s = find_set(cache, a)
    OBVIOUS
  <1>2. CacheInv'
    BY CacheStep
  <1>3. \A x \in SetIndexes(cache') : Recency(x)' = ListIn(cache', x)
    BY <1>2, RecencyStaysListed DEF RecencyIsTheList
  <1>4. SetIndexes(cache) = 0 .. NumSets - 1 /\ s \in 0 .. NumSets - 1
    BY <1>s, AddressesAreAbstract
  <1>5. \A x \in 0 .. NumSets - 1 : Recency(x) = ListIn(cache, x)
    BY <1>4, RecencyIsListed DEF RecencyIsTheList
  <1>6. SetIndexes(cache') = SetIndexes(cache)
    BY UseMovesToFront
  <1>7. \A x \in 0 .. NumSets - 1 :
           Recency(x)' = IF x = s THEN ListsWith(w, s, find_tag(cache, a))[x] ELSE Recency(x)
    <2>1. ListIn(cache', s) = ToFront(ValidIn(cache, s), OrderIn(cache, s), w,
                                      ListIn(cache, s), find_tag(cache, a))
      BY <1>s, UseMovesToFront
    <2>2. \A x \in 0 .. NumSets - 1 : x # s => ListIn(cache', x) = ListIn(cache, x)
      BY <1>s, <1>4, UseMovesToFront
    <2>3. ListsWith(w, s, find_tag(cache, a))[s] = ListIn(cache', s)
      BY <1>4, <2>1 DEF ListsWith, Lists
    <2> QED BY <1>3, <1>4, <1>5, <1>6, <2>2, <2>3
  <1>8. Lists' = [x \in 0 .. NumSets - 1 |-> Recency(x)']
    BY DEF Lists
  <1>9. ListsWith(w, s, find_tag(cache, a)) =
            [x \in 0 .. NumSets - 1 |->
                IF x = s THEN ListsWith(w, s, find_tag(cache, a))[x] ELSE Recency(x)]
    BY <1>4 DEF ListsWith, Lists
  <1> QED BY <1>s, <1>7, <1>8, <1>9

(* cache_new: no set lists anything.                                       *)
LEMMA StartsEmpty == Init => Lru!Init
  <1> SUFFICES ASSUME Init PROVE Lru!Init
    OBVIOUS
  <1> USE CacheAssumption
  <1>1. ASSUME NEW s \in 0 .. NumSets - 1
        PROVE  Recency(s) = << >>
    <2>1. Valid(s) = {}
      BY <1>1 DEF Init, cache_new, Valid, Ways, EmptyBlock
    <2>2. Cardinality(Valid(s)) = 0
      BY <2>1, FS_EmptySet
    <2> QED BY <2>2 DEF Recency
  <1>2. (0 \div BlockBytes) % NumSets = 0 /\ (0 \div BlockBytes) \div NumSets = 0
    BY DEF BlockBytes, SupportedSetCounts
  <1> QED BY <1>1, <1>2 DEF Init, Lru!Init

(* check_cache_hit: a block found moves to the front of its list.          *)
LEMMA HitIsFind ==
  ASSUME CacheInv, NEW a \in Addrs, Check(a), IsHit(cache, a)
  PROVE  Lru!Find(find_set(cache, a), find_tag(cache, a))
  <1> USE CacheAssumption
  <1>s. PICK s : s = find_set(cache, a)
    OBVIOUS
  <1>t. PICK t : t = find_tag(cache, a)
    OBVIOUS
  <1>1. PICK w \in HittingWays(cache, a) : Stamped(cache, cache', s, w, t)
    BY <1>s, <1>t, HitStamps DEF Check, CacheInv, TypeOK, IsCache
  <1>2. /\ w \in Ways(cache)
        /\ cache.sets[s][w].v_bit = 1 /\ cache.sets[s][w].tag = t
    BY <1>s, <1>t DEF HittingWays, Holds
  <1>3. StampedFor(a, w) /\ Next
    BY <1>s, <1>t, <1>1, <1>2 DEF StampedFor, Next
  <1> DEFINE V == ValidIn(cache, s)
             o == OrderIn(cache, s)
             list == ListIn(cache, s)
             i == Place(V, o, w)
  <1>4. w \in V /\ TagIn(cache, s)[w] = t
    BY <1>2 DEF ValidIn, TagIn
  <1>5. s \in SetIndexes(cache) /\ SetIndexes(cache) = 0 .. NumSets - 1
    BY <1>s, AddressesAreAbstract
  <1>6. Ordered(V, o) /\ \A v \in V : TagIn(cache, s)[v] \in Nat
    BY <1>5, OrderedSet
  <1>7. i \in DOMAIN list /\ list[i] = t
    <2>1. i \in 1 .. Cardinality(V)
      BY <1>4, <1>6, Places
    <2>2. list \in Seq(Nat) /\ Len(list) = Cardinality(V) /\ list[i] = t
      BY <1>4, <1>6, ListedTags DEF ListIn
    <2> HIDE DEF list, i, V
    <2> QED BY <2>1, <2>2
  <1>8. Lists[s] = list
    BY <1>5, RecencyIsListed DEF RecencyIsTheList, Lists
  <1>9. Lists' = [Lists EXCEPT ![s] = <<t>> \o RemoveAt(Lists[s], i)]
    <2>1. Lists' = ListsWith(w, s, t)
      BY <1>s, <1>t, <1>3, UseChangesOneList
    <2>2. ToFront(V, o, w, list, t) = <<t>> \o RemoveAt(list, i)
      BY <1>4 DEF ToFront
    <2> HIDE DEF V, o, list, i
    <2>3. ListsWith(w, s, t) = [Lists EXCEPT ![s] = ToFront(V, o, w, list, t)]
      BY DEF ListsWith, V, o, list
    <2> QED BY <1>8, <2>1, <2>2, <2>3
  <1>10. hit' = 1
    BY DEF Check
  <1> HIDE DEF list, i
  <1>11. i \in DOMAIN Lists[s] /\ Lists[s][i] = t
    BY <1>7, <1>8
  <1>13. Asked' = <<s, t>>
    BY <1>s, <1>t, CallsAreAbstract DEF Check
  <1>12. Lru!Find(s, t)
    BY <1>9, <1>10, <1>11, <1>13 DEF Lru!Find, Lists, RemoveAt, Lru!RemoveAt, Asked
  <1> QED BY <1>s, <1>t, <1>12

(* check_cache_hit: a tag no block of the set holds is not listed.         *)
LEMMA NoHitIsMiss ==
  ASSUME CacheInv, NEW a \in Addrs, Check(a), ~IsHit(cache, a)
  PROVE  Lru!Miss(find_set(cache, a), find_tag(cache, a))
  <1> USE CacheAssumption
  <1>s. PICK s : s = find_set(cache, a)
    OBVIOUS
  <1>t. PICK t : t = find_tag(cache, a)
    OBVIOUS
  <1> DEFINE V == ValidIn(cache, s)
             o == OrderIn(cache, s)
             list == ListIn(cache, s)
  <1>1. cache' = cache /\ hit' = 0
    BY DEF Check, check_cache_hit
  <1>2. \A v \in V : TagIn(cache, s)[v] # t
    BY <1>s, <1>t DEF ValidIn, TagIn, IsHit, HittingWays, Holds
  <1>5. s \in SetIndexes(cache) /\ SetIndexes(cache) = 0 .. NumSets - 1
    BY <1>s, AddressesAreAbstract
  <1>6. Ordered(V, o) /\ \A v \in V : TagIn(cache, s)[v] \in Nat
    BY <1>5, OrderedSet
  <1>7. \A i \in DOMAIN list : list[i] # t
    <2>1. list \in Seq(Nat) /\ Len(list) = Cardinality(V)
          /\ \A v \in V : list[Place(V, o, v)] = TagIn(cache, s)[v]
      BY <1>6, ListedTags DEF ListIn
    <2>2. \A i \in 1 .. Cardinality(V) : \E v \in V : Place(V, o, v) = i
      BY <1>6, Places
    <2> HIDE DEF list, V, o
    <2>3. DOMAIN list = 1 .. Cardinality(V)
      BY <2>1
    <2> QED BY <1>2, <2>1, <2>2, <2>3
  <1>8. Lists[s] = list
    BY <1>5, RecencyIsListed DEF RecencyIsTheList, Lists
  <1>9. Lists' = Lists
    BY <1>1 DEF Lists, Recency, Newer, Valid
  <1> HIDE DEF list
  <1>11. Asked' = <<s, t>>
    BY <1>s, <1>t, CallsAreAbstract DEF Check
  <1>10. Lru!Miss(s, t)
    BY <1>1, <1>7, <1>8, <1>9, <1>11 DEF Lru!Miss, Lists, Lru!Range, Asked
  <1> QED BY <1>s, <1>t, <1>10
(* A list as long as the capacity loses its last, a shorter one nothing.   *)
LEMMA DropTheLast ==
  ASSUME NEW q \in Seq(Nat)
  PROVE  /\ SubSeq(q, 1, Len(q)) = q
         /\ Len(q) > 0 => RemoveAt(q, Len(q)) = SubSeq(q, 1, Len(q) - 1)
  <1> DEFINE n == Len(q)
  <1>1. n \in Nat /\ \A i \in 1 .. n : q[i] \in Nat
    OBVIOUS
  <1>2. SubSeq(q, 1, n) = q
    OBVIOUS
  <1>3. n > 0 => RemoveAt(q, n) = SubSeq(q, 1, n - 1)
    <2> SUFFICES ASSUME n > 0 PROVE RemoveAt(q, n) = SubSeq(q, 1, n - 1)
      OBVIOUS
    <2> DEFINE r == RemoveAt(q, n)
               h == SubSeq(q, 1, n - 1)
    <2>1. /\ r \in Seq(Nat) /\ Len(r) = n - 1
          /\ \A i \in 1 .. n - 1 : r[i] = q[i]
      <3>1. n \in 1 .. Len(q)
        BY <1>1
      <3>2. /\ r \in Seq(Nat) /\ Len(r) = Len(q) - 1
            /\ \A i \in 1 .. Len(q) - 1 : r[i] = IF i < n THEN q[i] ELSE q[i + 1]
        BY <3>1, Without
      <3> QED BY <1>1, <3>2
    <2>2. /\ h \in Seq(Nat) /\ Len(h) = n - 1
          /\ \A i \in 1 .. n - 1 : h[i] = q[i]
      <3>1. \A i \in 1 .. n - 1 : q[i] \in Nat
        BY <1>1
      <3>2. /\ h \in Seq(Nat)
            /\ Len(h) = IF 1 <= n - 1 THEN (n - 1) - 1 + 1 ELSE 0
            /\ \A i \in 1 .. (n - 1) - 1 + 1 : h[i] = q[1 + i - 1]
        BY <3>1, SubSeqProperties
      <3>3. n \in Nat /\ n > 0
        BY <1>1
      <3> HIDE DEF h, n
      <3> QED BY <3>2, <3>3
    <2> HIDE DEF r, h
    <2>3. r = h
      BY <1>1, <2>1, <2>2, SeqEqual
    <2> QED BY <2>3 DEF r, h
  <1> QED BY <1>2, <1>3

(* cache_update: a block that was empty lengthens its list; a set without  *)
(* one loses the last of its list, whose block is the one stamped first.   *)
LEMMA UpdateIsFill ==
  ASSUME CacheInv, NEW a \in Addrs, Update(a)
  PROVE  Lru!Fill(find_set(cache, a), find_tag(cache, a))
  <1> USE CacheAssumption
  <1>s. PICK s : s = find_set(cache, a)
    OBVIOUS
  <1>t. PICK t : t = find_tag(cache, a)
    OBVIOUS
  <1>w. PICK w : w = find_suitable_block(cache, s)
    OBVIOUS
  <1>0. /\ IsCache(cache, NumSets, NumWays) /\ a \in Nat
        /\ s \in SetIndexes(cache) /\ SetIndexes(cache) = 0 .. NumSets - 1
        /\ Ways(cache) = 0 .. NumWays - 1
    BY <1>s, AddressesAreAbstract DEF CacheInv, TypeOK, IsCache, Ways
  <1>1. Stamped(cache, cache', s, w, t)
    BY <1>0, <1>s, <1>t, <1>w, FillStamps DEF Update
  <1>2. /\ w \in Ways(cache)
        /\ \/ cache.sets[s][w].v_bit = 0
           \/ \A v \in Ways(cache) : /\ cache.sets[s][v].v_bit = 1
                                     /\ cache.sets[s][w].order <= cache.sets[s][v].order
    BY <1>0, <1>w, Victim
  <1>3. StampedFor(a, w) /\ Next
    BY <1>s, <1>t, <1>1, <1>2 DEF StampedFor, Valid, Next
  <1> DEFINE V == ValidIn(cache, s)
             o == OrderIn(cache, s)
             list == ListIn(cache, s)
  <1>6. Ordered(V, o) /\ \A v \in V : TagIn(cache, s)[v] \in Nat
    BY <1>0, OrderedSet
  <1>7. list \in Seq(Nat) /\ Len(list) = Cardinality(V)
    BY <1>6, ListedTags DEF ListIn
  <1>8. IsFiniteSet(Ways(cache)) /\ Cardinality(Ways(cache)) = NumWays
    BY <1>0, FS_Interval
  <1>9. Lists[s] = list
    BY <1>0, RecencyIsListed DEF RecencyIsTheList, Lists
  <1>10. ToFront(V, o, w, list, t) =
             <<t>> \o SubSeq(list, 1, IF Len(list) = NumWays THEN NumWays - 1 ELSE Len(list))
    <2>1. CASE cache.sets[s][w].v_bit = 0
      <3>1. w \notin V /\ V \in SUBSET Ways(cache)
        BY <2>1 DEF ValidIn
      <3>2. Cardinality(V) # NumWays
        BY <1>2, <1>8, <3>1, FS_Subset
      <3> HIDE DEF V, o, list
      <3> QED BY <1>7, <3>1, <3>2, DropTheLast DEF ToFront
    <2>2. CASE \A v \in Ways(cache) : /\ cache.sets[s][v].v_bit = 1
                                      /\ cache.sets[s][w].order <= cache.sets[s][v].order
      <3>1. V = Ways(cache) /\ w \in V
        BY <1>2, <2>2 DEF ValidIn
      <3>2. \A v \in V : o[w] <= o[v]
        BY <2>2, <1>2, <3>1 DEF OrderIn
      <3> HIDE DEF V, o, list
      <3>3. Ahead(V, o, w) = V \ {w}
        BY <1>6, <3>1, <3>2 DEF Ahead, Ordered
      <3>4. Cardinality(V \ {w}) = NumWays - 1
        BY <1>8, <3>1, FS_RemoveElement
      <3>5. Place(V, o, w) = NumWays /\ Len(list) = NumWays
        BY <1>7, <1>8, <3>1, <3>3, <3>4 DEF Place
      <3>6. RemoveAt(list, NumWays) = SubSeq(list, 1, NumWays - 1)
        BY <1>7, <3>5, DropTheLast
      <3> QED BY <3>1, <3>5, <3>6 DEF ToFront
    <2> QED BY <1>2, <2>1, <2>2
  <1>11. Lists' = ListsWith(w, s, t)
    BY <1>s, <1>t, <1>3, UseChangesOneList
  <1> HIDE DEF V, o, list
  <1>12. ListsWith(w, s, t) = [Lists EXCEPT ![s] = ToFront(V, o, w, list, t)]
    BY DEF ListsWith, V, o, list
  <1>13. UNCHANGED hit /\ Asked' = <<s, t>>
    BY <1>s, <1>t, CallsAreAbstract DEF Update
  <1>14. Lru!Fill(s, t)
    BY <1>9, <1>10, <1>11, <1>12, <1>13 DEF Lru!Fill, Lists, Asked
  <1> QED BY <1>s, <1>t, <1>14

(* Every lookup and every fill is a step of LruCache.                      *)
LEMMA StepsAreAbstract ==
  ASSUME CacheInv, [Next]_vars
  PROVE  [Lru!Next]_<<Lists, hit, Asked>>
  <1>1. CASE UNCHANGED vars
    BY <1>1 DEF vars, Lists, Recency, Newer, Valid, Asked
  <1>2. ASSUME NEW a \in Addrs, Check(a) \/ Update(a)
        PROVE  Lru!Next
    <2> DEFINE s == find_set(cache, a)
               t == find_tag(cache, a)
    <2>1. Lru!Find(s, t) \/ Lru!Miss(s, t) \/ Lru!Fill(s, t)
      BY <1>2, HitIsFind, NoHitIsMiss, UpdateIsFill
    <2>2. s \in 0 .. NumSets - 1 /\ t \in {(b \div BlockBytes) \div NumSets : b \in Addrs}
      BY AddressesAreAbstract
    <2> HIDE DEF s, t
    <2> QED BY <2>1, <2>2 DEF Lru!Next
  <1> QED BY <1>1, <1>2 DEF Next

(* cache.c: whatever the sets, ways and addresses, and however lookups and *)
(* fills alternate, the caches of the simulator are least-recently-used.   *)
THEOREM CacheIsLru == Spec => ImplementsLru
  <1>1. CacheInv /\ [Next]_vars => [Lru!Next]_<<Lists, hit, Asked>>
    BY StepsAreAbstract
  <1> QED BY <1>1, StartsEmpty, CacheInvariant, PTL DEF Spec, ImplementsLru, Lru!Spec, Lists, Asked
=============================================================================
