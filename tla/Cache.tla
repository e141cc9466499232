------------------------------- MODULE Cache --------------------------------
(***************************************************************************)
(* One cache of cache.c under any sequence of the two calls its owner      *)
(* makes, check_cache_hit and cache_update.  The owner may fill a block    *)
(* the cache already holds: pipe_stage_mem does so on every hit.           *)
(***************************************************************************)
EXTENDS CacheOps, FiniteSets

CONSTANTS
    NumSets, NumWays,   \* 256 and 8 for data, 64 and 4 for instructions
    Addrs,              \* the addresses that are looked up and filled
    MaxStamp            \* bound on lru_tracker

ASSUME CacheAssumption ==
    /\ NumSets \in SupportedSetCounts
    /\ NumWays \in Nat \ {0}
    /\ Addrs \subseteq Nat
    /\ MaxStamp \in Nat

VARIABLES
    cache,              \* a cache_t
    hit,                \* what check_cache_hit returned last
    asked,              \* history: the address of the last call, 0 before it
    uses                \* history: stamps given out in the set of an address
                        \* since the address was last used itself

vars == <<cache, hit, asked, uses>>

-----------------------------------------------------------------------------
Init ==
    /\ cache = cache_new(NumSets, NumWays)
    /\ hit = 0 /\ asked = 0
    /\ uses = [a \in Addrs |-> NumWays]

SameBlock(a, b) == a \div BlockBytes = b \div BlockBytes
SameSet(a, b)   == find_set(cache, a) = find_set(cache, b)

\* The count stops at NumWays: an address that never was used starts there.
Used(a) ==
    uses' = [b \in Addrs |->
                IF SameBlock(a, b) THEN 0
                ELSE IF SameSet(a, b) /\ uses[b] < NumWays THEN uses[b] + 1
                ELSE uses[b]]

Check(a) ==
    /\ cache.lru_tracker < MaxStamp
    /\ cache' = check_cache_hit(cache, a)
    /\ hit' = IF IsHit(cache, a) THEN 1 ELSE 0
    /\ asked' = a
    /\ IF IsHit(cache, a) THEN Used(a) ELSE UNCHANGED uses

Update(a) ==
    /\ cache.lru_tracker < MaxStamp
    /\ cache' = cache_update(cache, a)
    /\ Used(a)
    /\ asked' = a
    /\ UNCHANGED hit

Next == \E a \in Addrs : Check(a) \/ Update(a)

Spec == Init /\ [][Next]_vars

-----------------------------------------------------------------------------
Valid(s) == {w \in Ways(cache) : cache.sets[s][w].v_bit = 1}

TypeOK ==
    /\ IsCache(cache, NumSets, NumWays)
    /\ hit \in {0, 1} /\ asked \in Addrs \cup {0}
    /\ uses \in [Addrs -> 0 .. NumWays]

(* The stamps order the valid blocks of a set: no two are the same, none   *)
(* is ahead of the clock, and an empty block has none.  find_suitable_block *)
(* compares nothing else, so its victim depends on it.                     *)
StampsOrderTheSet ==
    \A s \in SetIndexes(cache), w \in Ways(cache) :
        IF w \in Valid(s)
        THEN /\ cache.sets[s][w].order \in 1 .. cache.lru_tracker - 1
             /\ \A v \in Valid(s) \ {w} : cache.sets[s][v].order # cache.sets[s][w].order
        ELSE cache.sets[s][w].order = 0

(* A block that was used stays in the cache through the next NumWays - 1   *)
(* uses of its set, however hits and fills alternate and however many      *)
(* copies of other blocks the fills make.                                  *)
UsedBlockStays == \A a \in Addrs : uses[a] < NumWays => IsHit(cache, a)

-----------------------------------------------------------------------------
\* The valid blocks of set s that were used after block w.
Newer(c, s, w) == {v \in Ways(c) : /\ c.sets[s][v].v_bit = 1
                                   /\ c.sets[s][v].order > c.sets[s][w].order}

\* The list of a set: the tags of its valid blocks, the newest stamp first.
Recency(s) ==
    LET place(w) == Cardinality(Newer(cache, s, w)) + 1
    IN  [i \in 1 .. Cardinality(Valid(s)) |->
            cache.sets[s][CHOOSE w \in Valid(s) : place(w) = i].tag]

Lru == INSTANCE LruCache WITH
           Indexes  <- 0 .. NumSets - 1,
           Tags     <- {(a \div BlockBytes) \div NumSets : a \in Addrs},
           Capacity <- NumWays,
           recency  <- [s \in 0 .. NumSets - 1 |-> Recency(s)],
           asked    <- <<(asked \div BlockBytes) % NumSets,
                         (asked \div BlockBytes) \div NumSets>>

(* Stamps, invalid blocks and the two searches of cache.c together are     *)
(* least-recently-used replacement: each call finds, misses or fills the   *)
(* block its address is in.                                                *)
ImplementsLru == Lru!Spec
=============================================================================
