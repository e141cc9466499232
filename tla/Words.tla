------------------------------- MODULE Words -------------------------------
(***************************************************************************)
(* The machine integers the simulator computes with.  A register is an     *)
(* int64_t, an instruction result is cut to int when it is written back,   *)
(* addresses are uint64_t or uint32_t.  Every value is kept here as its    *)
(* unsigned 64-bit representation, so int64_t and uint64_t are one set.    *)
(*                                                                         *)
(* All widths derive from ByteBits, which is 8 in the code.  The checker's *)
(* own integers have 32 bits, so the instances scale the machine down: the *)
(* relations between the widths (a word is four bytes, a register is two   *)
(* words, int is half of int64_t) are what the code depends on and they    *)
(* are kept.                                                               *)
(***************************************************************************)
EXTENDS Integers

CONSTANT ByteBits       \* bits of a uint8_t

IntBits  == 4 * ByteBits        \* int, uint32_t
LongBits == 8 * ByteBits        \* int64_t, uint64_t

\* The provers know no arithmetic of powers, so what a power is is stated.
ASSUME ByteBitsAssumption ==
    /\ ByteBits \in Nat \ {0}
    /\ 2^0 = 1
    /\ \A n \in 1 .. LongBits : 2^n = 2 * 2^(n - 1)

Byte == 0 .. 2^ByteBits - 1
Word == 0 .. 2^IntBits - 1
Long == 0 .. 2^LongBits - 1

\* The conversions of C: to uint64_t, to uint32_t, and to int followed by
\* the sign extension that any later use as int64_t makes.
ToLong(x) == x % 2^LongBits
ToWord(x) == x % 2^IntBits
ToInt(x)  == LET low == ToWord(x)
             IN  IF low < 2^(IntBits - 1) THEN low
                                          ELSE low + 2^LongBits - 2^IntBits

IsNegative(x) == x >= 2^(LongBits - 1)

\* The upper half of a register, as stored by STUR.
HighWord(x) == x \div 2^IntBits

LowByte(x)     == x % 2^ByteBits
LowHalfword(x) == x % 2^(2 * ByteBits)

-----------------------------------------------------------------------------
Bit(x, i) == (x \div 2^i) % 2

\* f[0] + ... + f[n - 1]
SumBelow(f, n) ==
    LET sum[i \in 0 .. n] == IF i = 0 THEN 0 ELSE sum[i - 1] + f[i - 1]
    IN  sum[n]

\* The number of the given width whose bit i is F(Bit(x, i), Bit(y, i)).
PerBit(F(_, _), x, y, bits) ==
    SumBelow([i \in 0 .. bits - 1 |-> F(Bit(x, i), Bit(y, i)) * 2^i], bits)

And(x, y)       == PerBit(LAMBDA a, b : a * b, x, y, LongBits)
Or(x, y)        == PerBit(LAMBDA a, b : a + b - a * b, x, y, LongBits)
Xor(x, y, bits) == PerBit(LAMBDA a, b : (a + b) % 2, x, y, bits)

\* Bits shifted out at either end are lost; the right shift is logical.
ShiftLeft(x, n)  == (x % 2^(LongBits - n)) * 2^n
ShiftRight(x, n) == x \div 2^n

\* A product modulo 2^LongBits, by shifting and adding: the partial products
\* stay small enough for the checker's integers.
Times(x, y) ==
    ToLong(SumBelow([i \in 0 .. LongBits - 1 |-> Bit(x, i) * ShiftLeft(y, i)], LongBits))
=============================================================================
