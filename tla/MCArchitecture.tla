--------------------------- MODULE MCArchitecture ---------------------------
(***************************************************************************)
(* Short programs for the comparison with the instruction set.             *)
(***************************************************************************)
EXTENDS PipelineArchitecture, Assembly, InstructionWords

\* B.CS, one of the conditions decode does not know, two words ahead.
Unlisted == Decoded(<<\h5400, \h0042>>)

\* What is computed, and what looks at it.
Makers == {Reg("ADD", 2, 0, 3), Reg("SUBS", 2, 2, 3), Imm("ADDSI", 2, 2, 1),
           Imm("SUBI", 3, 2, 1), Imm("SUBSI", 2, 3, 1), Imm("SUBSI", 31, 2, 1),
           Compare(2, 3), Reg("MUL", 2, 3, 3), Imm("LSLI", 2, 3, 5), Movz(2, 0),
           Access("LDUR", 2, 1, 0), Access("LDURB", 2, 1, 1), Access("STUR", 3, 1, 16),
           Access("STURB", 3, 1, 1), Access("STURH", 2, 1, 2), ZeroWord, Unlisted}

Users == {Reg("ADD", 3, 2, 0), Reg("ANDS", 3, 2, 31), Access("LDURH", 3, 1, 2),
          Access("STUR", 2, 1, -4), Cond("BNE", 2), Cond("BGT", -2),
          ZeroTest("CBZ", 2, 2), Jump(2), JumpTo(0), Halt}

\* X0 is written, and eight words fill a block of the instruction cache.  The
\* load brings a block into the data cache while the next block of the
\* program is not yet fetched.
Idle == [i \in 1 .. 7 |-> IF i = 2 THEN Reg("ADD", 2, 3, 3) ELSE Movz(0, 3)]
Warm == [Idle EXCEPT ![6] = Access("LDUR", 2, 1, 0)]

\* The mix lies across the boundary of two blocks, or in one.
Straddling == {Idle \o <<a, b, c, Halt, Halt>> : a, b \in Makers, c \in Users}
Together   == {Warm \o <<Movz(0, 3), a, b, c, Halt, Halt>> :
                  a, b \in Makers, c \in Users}

ComparedPrograms == Straddling \cup Together

ComparedRegisters ==
    {[r \in Regs |-> CASE r = 1 -> DataStart + 16 [] r = 3 -> v [] OTHER -> 0] :
        v \in {1, 300}}
=============================================================================
