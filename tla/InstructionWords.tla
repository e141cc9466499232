-------------------------- MODULE InstructionWords ---------------------------
(***************************************************************************)
(* The 32 bits of an instruction word, as pipe_stage_decode takes them     *)
(* apart: the record of Instructions that a word of a program file stands  *)
(* for.  A word is the pair of its upper and lower halfword, for the       *)
(* checker's integers have 32 bits and a sign.                             *)
(***************************************************************************)
EXTENDS Instructions, TLC

\* (instructionCode >> first) & (2^width - 1)
Bits(code, first, width) ==
    IF first >= 16 THEN (code[1] \div 2^(first - 16)) % 2^width
    ELSE IF first + width <= 16 THEN (code[2] \div 2^first) % 2^width
    ELSE (code[1] % 2^(first + width - 16)) * 2^(16 - first) + code[2] \div 2^first

\* The sign bit is subtracted: signImm9, signImm19, sign_branch.
SignedBits(code, first, width) ==
    Bits(code, first, width - 1) - Bits(code, first + width - 1, 1) * 2^(width - 1)

-----------------------------------------------------------------------------
\* The cases of the switch on the opcode field, bits 21 to 31; two of them are
\* divided by other fields of the word.  Compares are told apart later
\* (OperationOf).
OpcodesOf ==
    [ADD   |-> \h458 .. \h459, ADDI  |-> \h488 .. \h48F,
     ADDS  |-> \h558 .. \h559, ADDSI |-> \h588 .. \h58F,
     STUR  |-> {\h7C0}, STURB |-> {\h1C0}, STURH |-> {\h3C0},
     LDUR  |-> {\h7C2}, LDURB |-> {\h1C2}, LDURH |-> {\h3C2},
     AND   |-> {\h450}, ANDS  |-> {\h750}, EOR |-> {\h650}, ORR |-> {\h550},
     SUB   |-> {\h658}, SUBI  |-> \h688 .. \h68F,
     SUBS  |-> {\h758}, SUBSI |-> \h788 .. \h78F,
     MUL   |-> {\h4D8}, HLT   |-> {\h6A2}, BR |-> {\h6B0},
     CBNZ  |-> \h5A8 .. \h5AF, CBZ |-> \h5A0 .. \h5A7,
     MOVZ  |-> \h694 .. \h697, B   |-> \h0A0 .. \h0BF]

Shifts       == \h69A .. \h69B
ConditionalB == \h2A0 .. \h2A7

Conditions == (0 :> "BEQ") @@ (1 :> "BNE") @@ (10 :> "BGE") @@ (11 :> "BLT")
                @@ (12 :> "BGT") @@ (13 :> "BLE")

\* The opcode part of the word: "NONE" when no case applies, "COND" when the
\* condition of a B.cond is none of the six.
OpcodeOf(code) ==
    LET opcode == Bits(code, 21, 11)
    IN  IF opcode \in Shifts THEN IF Bits(code, 10, 6) # 63 THEN "LSLI" ELSE "LSRI"
        ELSE IF opcode \in ConditionalB
        THEN IF Bits(code, 0, 4) \in DOMAIN Conditions THEN Conditions[Bits(code, 0, 4)]
                                                       ELSE "COND"
        ELSE IF \E op \in DOMAIN OpcodesOf : opcode \in OpcodesOf[op]
        THEN CHOOSE op \in DOMAIN OpcodesOf : opcode \in OpcodesOf[op]
        ELSE "NONE"

\* Mutant: MOVZ takes its immediate from the field of ADDI.
ImmediateOfAddi(op, code) ==
    IF op \in Loads \cup Stores THEN SignedBits(code, 12, 9)
    ELSE IF op \in FlagBranches \cup ZeroTests THEN SignedBits(code, 5, 19)
    ELSE IF op = "B" THEN SignedBits(code, 0, 26)
    ELSE Bits(code, 10, 12)

\* The immediate that execute uses, from the latch or from the word itself.
\* The hw field of MOVZ and the shift field of ADDI are ignored.
ImmediateOf(op, code) ==
    CASE op \in Loads \cup Stores            -> SignedBits(code, 12, 9)
      [] op \in FlagBranches \cup ZeroTests  -> SignedBits(code, 5, 19)
      [] op = "B"                            -> SignedBits(code, 0, 26)
      [] op = "MOVZ"                         -> Bits(code, 5, 16)
      [] op = "LSLI"                         -> Bits(code, 10, 6)
      [] op = "LSRI"                         -> Bits(code, 16, 6)
      [] OTHER                               -> Bits(code, 10, 12)

Decoded(code) ==
    LET word == [op |-> OpcodeOf(code), Rd |-> Bits(code, 0, 5),
                 Rn |-> Bits(code, 5, 5), Rm |-> Bits(code, 16, 5)]
    IN  word @@ IF word.op \in Keepers
                THEN [imms |-> [op \in OperationNames |-> ImmediateOf(op, code)]]
                ELSE [imm |-> ImmediateOf(word.op, code)]
=============================================================================
