------------------------------ MODULE Assembly ------------------------------
(***************************************************************************)
(* Constructors for instruction words: what the assembler makes of the     *)
(* operation named first and its operands.                                 *)
(***************************************************************************)
EXTENDS Instructions

Reg(op, d, n, m)    == [op |-> op, Rd |-> d, Rn |-> n, Rm |-> m, imm |-> 0]
Imm(op, d, n, imm)  == [op |-> op, Rd |-> d, Rn |-> n, Rm |-> (imm \div 64) % 32,
                        imm |-> imm]
Access(op, t, n, offset) ==
    [op |-> op, Rd |-> t, Rn |-> n, Rm |-> 0, imm |-> offset]
Movz(d, imm)        == Imm("MOVZ", d, 0, imm)
ZeroTest(op, t, offset) == Access(op, t, 0, offset)
Cond(op, offset)    == Access(op, 0, 0, offset)
Jump(offset)        == Access("B", 0, 0, offset)
JumpTo(n)           == Reg("BR", 0, n, 0)
Compare(n, m)       == Reg("SUBS", 31, n, m)
Halt                == Reg("HLT", 0, 0, 0)
=============================================================================
