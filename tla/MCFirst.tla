-------------------------------- MODULE MCFirst -----------------------------
(***************************************************************************)
(* Short programs for the first version of the pipeline.                   *)
(***************************************************************************)
EXTENDS FirstPipeline, Assembly, InstructionWords

\* B.CS, one of the conditions decode does not know, two words ahead.
Unlisted == Decoded(<<\h5400, \h0042>>)

Makers == {Reg("ADD", 2, 0, 3), Reg("SUBS", 2, 2, 3), Imm("ADDSI", 2, 2, 1),
           Imm("SUBI", 3, 2, 1), Imm("SUBSI", 2, 3, 1), Compare(2, 3),
           Reg("MUL", 2, 3, 3), Imm("LSLI", 2, 3, 5), Movz(2, 0),
           Access("LDUR", 2, 1, 0), Access("LDURB", 2, 1, 1), Access("STUR", 3, 1, 0),
           Access("STURB", 3, 1, 1), Access("STURH", 2, 1, 2), Unlisted}

Users == {Reg("ADD", 3, 2, 0), Reg("ANDS", 3, 2, 31), Access("LDURH", 3, 1, 2),
          Access("STUR", 2, 1, -4), Cond("BNE", 2), Cond("BGT", -2),
          ZeroTest("CBZ", 2, 2), Jump(2), JumpTo(0), Halt}

\* One more instruction lies behind the HLT.
ComparedPrograms ==
    {<<a, b, c, Halt, d>> : a, b \in Makers, c \in Users,
                            d \in {Movz(2, 7), Access("STUR", 3, 1, 8)}}

ComparedRegisters ==
    {[r \in Regs |-> CASE r = 1 -> DataStart + 16 [] r = 3 -> v [] OTHER -> 0] :
        v \in {1, 300}}
=============================================================================
