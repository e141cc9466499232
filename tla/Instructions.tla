---------------------------- MODULE Instructions ----------------------------
(***************************************************************************)
(* The instruction set of the simulator: which operations there are, what  *)
(* pipe_stage_decode makes of an instruction word, and which operations    *)
(* the stages treat alike.                                                 *)
(*                                                                         *)
(* An instruction word is a record [op, Rd, Rn, Rm, imm] of its fields.    *)
(* Rd and Rt are the same five bits of the word.  A word for which decode  *)
(* sets no operation keeps the one of the word before it; its immediate is *)
(* the field that operation uses, so it is a record [op, Rd, Rn, Rm, imms] *)
(* with an immediate for every operation.  The word 0, which fills unused  *)
(* text and follows every flush, is one of those.                          *)
(***************************************************************************)
EXTENDS Integers

\* operationName_t, the branches on the flags apart.
FlagBranches == {"BEQ", "BNE", "BGE", "BLT", "BGT", "BLE"}

ZeroTests == {"CBZ", "CBNZ"}

Loads      == {"LDUR", "LDURB", "LDURH"}
Stores     == {"STUR", "STURB", "STURH"}
Compares   == {"CMP", "CMPI"}
Branches   == {"B", "BR"} \cup FlagBranches \cup ZeroTests

\* Operations with two register operands, and with a register and an
\* immediate, whose result goes to Rd.
AluRegister  == {"ADD", "ADDS", "AND", "ANDS", "EOR", "ORR", "SUB", "SUBS", "MUL"}
AluImmediate == {"ADDI", "ADDSI", "SUBI", "SUBSI", "LSLI", "LSRI"}
WritesRd     == AluRegister \cup AluImmediate \cup {"MOVZ"}

\* The operations whose write-back calls set_flags: SUBSI and CMPI do not.
SetsFlags == {"ADDS", "ADDSI", "ANDS", "SUBS", "CMP"}

Operations == WritesRd \cup Loads \cup Stores \cup Compares \cup Branches \cup {"HLT"}

OperationNames == Operations \cup {"NoOp"}

\* The words that keep the operation: no case of decode applies, or it is a
\* B.cond with a condition that is none of the six.
Keepers == {"NONE", "COND"}

\* What the opcode field of an instruction word can say.
Opcodes == (Operations \ Compares) \cup Keepers

ZeroWord == [op |-> "NONE", Rd |-> 0, Rn |-> 0, Rm |-> 0,
             imms |-> [op \in OperationNames |-> 0]]

-----------------------------------------------------------------------------
\* Register numbers decode puts into a field that the operation does not use,
\* so that the forwarding comparisons fail: none is a register.
BlankRd == 50
Blank   == 40

\* SUBS and SUBSI with destination 31 are the compares.
OperationOf(word) ==
    IF word.Rd = 31 /\ word.op = "SUBS" THEN "CMP"
    ELSE IF word.Rd = 31 /\ word.op = "SUBSI" THEN "CMPI"
    ELSE word.op

\* The fields of the word after the switch of pipe_stage_decode.  CMPI, HLT
\* and a word no case applies to keep whatever bits the word has there; every
\* B.cond, whatever its condition, has all four blanked.
RdField(word) ==
    IF OperationOf(word) \in Stores \cup Loads \cup Branches \cup {"COND"}
    THEN BlankRd ELSE word.Rd

RnField(word) ==
    IF OperationOf(word) \in ZeroTests \cup FlagBranches \cup {"B", "MOVZ", "COND"}
    THEN Blank ELSE word.Rn

RmField(word) ==
    IF OperationOf(word) = "STURH" THEN BlankRd
    ELSE IF OperationOf(word) \in AluImmediate \cup Loads \cup Stores
                                    \cup Branches \cup {"MOVZ", "COND"}
    THEN Blank ELSE word.Rm

\* Mutant: STUR is taken for an operation with a destination.
RtFieldBlanked(word) ==
    IF OperationOf(word) \in WritesRd \cup FlagBranches \cup {"B", "BR", "COND", "STUR"}
    THEN Blank ELSE word.Rd

RtField(word) ==
    IF OperationOf(word) \in WritesRd \cup FlagBranches \cup {"B", "BR", "COND"}
    THEN Blank ELSE word.Rd

\* The immediate that operation op finds in the word: its own, unless the word
\* keeps the operation of another.
Immediate(word, op) == IF word.op \in Keepers THEN word.imms[op] ELSE word.imm

\* The opcode field, bits 21 to 31 of the word, of a B.cond: three bits of its
\* offset are part of it.  What the field holds of other words is never used.
OpcodeField(word) ==
    IF word.op = "COND" THEN \h2A0 + ((word.imms["BEQ"] \div \h10000) % 8) ELSE 0

-----------------------------------------------------------------------------
\* The latch fields pipe_stage_execute uses to index the register file.
ReadsRn == AluRegister \cup AluImmediate \cup Loads \cup Stores \cup Compares \cup {"BR"}
ReadsRm == AluRegister \cup {"CMP"}
ReadsRt == Stores \cup ZeroTests
=============================================================================
