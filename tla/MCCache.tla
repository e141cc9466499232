------------------------------ MODULE MCCache -------------------------------
(***************************************************************************)
(* A three-way cache with four sets; four blocks that fall in one set, one *)
(* more than it has room for, one that falls in another, and a second      *)
(* address in the first block.                                             *)
(***************************************************************************)
EXTENDS Cache

Block(set, tag) == (tag * NumSets + set) * BlockBytes

FewAddrs == {Block(1, 0), Block(1, 0) + 8, Block(1, 1), Block(1, 2), Block(1, 3),
             Block(2, 1)}
=============================================================================
