------------------------------ MODULE CacheOps ------------------------------
(***************************************************************************)
(* cache.c: a set-associative cache with a global clock (lru_tracker) that *)
(* stamps the block of every hit and every fill, and a victim search that  *)
(* takes the first invalid block of a set or else the one stamped longest  *)
(* ago.  The cache holds tags and no data: it only decides timing.         *)
(*                                                                         *)
(* A cache is a record, and the operations of cache.c are operators that   *)
(* return the cache they leave behind.  The pipeline owns two of them.     *)
(***************************************************************************)
EXTENDS Integers

BlockBytes == 32        \* block_bits = 5 in find_tag and find_set

\* calc_bits knows the logarithms of these set counts and of no others.
SupportedSetCounts == {4, 8, 64, 256}

Ways(c)    == 0 .. c.num_ways - 1
SetIndexes(c) == 0 .. c.num_sets - 1

EmptyBlock == [v_bit |-> 0, tag |-> 0, order |-> 0]

\* Mutant: the clock starts at the stamp of an empty block.
new_at_zero(sets, ways) ==
    [num_sets    |-> sets,
     num_ways    |-> ways,
     lru_tracker |-> 0,
     sets        |-> [s \in 0 .. sets - 1 |-> [w \in 0 .. ways - 1 |-> EmptyBlock]]]

cache_new(sets, ways) ==
    [num_sets    |-> sets,
     num_ways    |-> ways,
     lru_tracker |-> 1,
     sets        |-> [s \in 0 .. sets - 1 |-> [w \in 0 .. ways - 1 |-> EmptyBlock]]]

find_set(c, addr) == (addr \div BlockBytes) % c.num_sets
find_tag(c, addr) == (addr \div BlockBytes) \div c.num_sets

\* The values a cache_t takes.
Blocks == [v_bit : {0, 1}, tag : Nat, order : Nat]

IsCache(c, sets, ways) ==
    /\ DOMAIN c = {"num_sets", "num_ways", "lru_tracker", "sets"}
    /\ c.num_sets = sets /\ c.num_ways = ways
    /\ c.lru_tracker \in Nat \ {0}
    /\ c.sets \in [SetIndexes(c) -> [Ways(c) -> Blocks]]

Holds(block, tag) == block.v_bit = 1 /\ block.tag = tag

-----------------------------------------------------------------------------
\* Mutant: the newest block is evicted.
find_newest(c, set_i) ==
    LET blocks  == c.sets[set_i]
        invalid == {w \in Ways(c) : blocks[w].v_bit = 0}
    IN  IF invalid # {} THEN CHOOSE w \in invalid : \A v \in invalid : w <= v
        ELSE CHOOSE w \in Ways(c) :
                 \A v \in Ways(c) : blocks[w].order >= blocks[v].order

\* The first invalid block, or else the first of those with the oldest stamp.
find_suitable_block(c, set_i) ==
    LET blocks  == c.sets[set_i]
        invalid == {w \in Ways(c) : blocks[w].v_bit = 0}
        oldest  == {w \in Ways(c) :
                       \A v \in Ways(c) : blocks[w].order <= blocks[v].order}
        eligible == IF invalid # {} THEN invalid ELSE oldest
    IN  CHOOSE w \in eligible : \A v \in eligible : w <= v

\* Mutant: the clock stands still.
update_same_stamp(c, set_i, block_i, tag) ==
    [c EXCEPT !.sets[set_i][block_i] =
                  [v_bit |-> 1, tag |-> tag, order |-> c.lru_tracker]]

update_vals(c, set_i, block_i, tag) ==
    [c EXCEPT !.sets[set_i][block_i] =
                  [v_bit |-> 1, tag |-> tag, order |-> c.lru_tracker],
              !.lru_tracker = @ + 1]

\* The fill does not look for a copy the set may already hold.
cache_update(c, addr) ==
    update_vals(c, find_set(c, addr),
                find_suitable_block(c, find_set(c, addr)), find_tag(c, addr))

-----------------------------------------------------------------------------
HittingWays(c, addr) ==
    {w \in Ways(c) : Holds(c.sets[find_set(c, addr)][w], find_tag(c, addr))}

\* What check_cache_hit returns ...
IsHit(c, addr) == HittingWays(c, addr) # {}

\* Mutant: a hit leaves no stamp.
hit_without_stamp(c, addr) == c

\* ... and the cache it leaves: the first copy found is stamped anew.
check_cache_hit(c, addr) ==
    IF IsHit(c, addr)
    THEN LET w == CHOOSE w \in HittingWays(c, addr) :
                      \A v \in HittingWays(c, addr) : w <= v
         IN  [c EXCEPT !.sets[find_set(c, addr)][w].order = c.lru_tracker,
                       !.lru_tracker = @ + 1]
    ELSE c
=============================================================================
