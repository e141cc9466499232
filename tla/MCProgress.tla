----------------------------- MODULE MCProgress ------------------------------
(***************************************************************************)
(* Instances for the control properties: every sequence of a few           *)
(* instructions out of a mix that has each kind which the stages treat     *)
(* differently, behind a prefix that fills most of an instruction block.   *)
(***************************************************************************)
EXTENDS PipelineControl, Assembly, InstructionWords

\* B.CS, one of the conditions decode does not know, two words ahead.
Unlisted == Decoded(<<\h5400, \h0042>>)

Mix == {Access("LDUR", 2, 1, 0), Access("STUR", 2, 1, 28), Access("LDURB", 2, 1, 0),
        Access("STURB", 2, 1, 0), Imm("ADDI", 2, 2, 1), Reg("ADD", 2, 1, 2),
        Compare(2, 0), Cond("BGT", -1), Cond("BNE", 2), ZeroTest("CBNZ", 2, -2),
        Jump(2), JumpTo(3), Halt, ZeroWord, Unlisted}

\* Eight words to a block: the second of the three is the first of a block.
Prefix == [i \in 1 .. 7 |-> IF i = 4 THEN Movz(0, 1) ELSE Imm("ADDI", 2, 0, 1)]

MixedPrograms == {Prefix \o <<a, b, c, Halt>> : a, b, c \in Mix}

\* Two of the mix, for the liveness properties.
ShortPrograms == {Prefix \o <<a, b, Halt, Halt>> : a, b \in Mix}

\* X1 holds the address of the data, X3 that of the last HLT.
Registers == {[r \in Regs |-> IF r = 1 THEN DataStart
                              ELSE IF r = 3 THEN TextStart + 40 ELSE 0]}
=============================================================================
