----------------------------- MODULE MemoryOps ------------------------------
(***************************************************************************)
(* shell.c: the simulated memory.  Regions of bytes, little-endian 32-bit  *)
(* words; a read outside every region is 0 and a write there is dropped.   *)
(*                                                                         *)
(* The text region holds the program and is kept apart from this memory    *)
(* (see Pipeline): the programs considered neither load from it nor store  *)
(* to it.  A word that starts in the last three bytes of a region runs off *)
(* the end of the C array; the programs considered have none of those.     *)
(***************************************************************************)
EXTENDS Words

CONSTANTS
    DataStart, DataSize,    \* 0x10000000 and 0x00100000 in the code
    StackStart, StackSize   \* 0xfffffffc and 0x00100000 in the code

ASSUME RegionsAssumption ==
    /\ DataStart \in Nat /\ DataSize \in Nat
    /\ StackStart \in Nat /\ StackSize \in Nat

\* The bytes of MEM_REGIONS other than text.
Addresses == (DataStart .. DataStart + DataSize - 1)
                \cup (StackStart .. StackStart + StackSize - 1)

ZeroMemory == [a \in Addresses |-> 0]

\* The region a word access at this address falls in, tested on its first byte.
InRegion(address) == address \in Addresses

\* Only the programs left out of the model read a byte behind a region.
ByteAt(mem, address) == IF InRegion(address) THEN mem[address] ELSE 0

mem_read_32(mem, address) ==
    IF InRegion(address)
    THEN ByteAt(mem, address) + 2^ByteBits * (ByteAt(mem, address + 1)
           + 2^ByteBits * (ByteAt(mem, address + 2) + 2^ByteBits * ByteAt(mem, address + 3)))
    ELSE 0

\* Byte i of a word, least significant first.
ByteOf(word, i) == (word \div 2^(ByteBits * i)) % 2^ByteBits

mem_write_32(mem, address, value) ==
    IF InRegion(address)
    THEN [mem EXCEPT ![address]     = ByteOf(value, 0),
                     ![address + 1] = ByteOf(value, 1),
                     ![address + 2] = ByteOf(value, 2),
                     ![address + 3] = ByteOf(value, 3)]
    ELSE mem
=============================================================================
