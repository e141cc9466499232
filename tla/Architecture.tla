---------------------------- MODULE Architecture ----------------------------
(***************************************************************************)
(* The machine the simulator stands for: the instructions of pipe.c, one   *)
(* at a time and in program order, each with the meaning its name and the  *)
(* comment beside its case in pipe_stage_execute give it ("SUB Immediate", *)
(* "LDUR 64 bit").  There is no pipeline here, no cache and no predictor.  *)
(*                                                                         *)
(* The simulator is not exact for every program.  From the moment a        *)
(* simulation departs from this machine the machine says nothing about it: *)
(* `predictable' is FALSE and everything may happen.                       *)
(***************************************************************************)
EXTENDS Words, MemoryOps, Instructions, Sequences

CONSTANTS
    TextStart,          \* where the program lies
    Programs,           \* the programs there may be
    RegisterFiles       \* what the registers may hold at the start

VARIABLES
    program, mem,
    regs,               \* X0 to X31, all alike: pipe.c has no zero register
    flags,              \* N and Z, the two that pipe.c has
    pc, running, predictable

archVars == <<program, mem, regs, flags, pc, running, predictable>>

-----------------------------------------------------------------------------
Instruction ==
    LET i == (pc - TextStart) \div 4 + 1
    IN  IF i \in DOMAIN program THEN program[i] ELSE ZeroWord

-----------------------------------------------------------------------------
(* What instruction i does to registers r, memory m and flags f.           *)

First(i, r)  == r[i.Rn]
Second(i, r) == IF OperationOf(i) \in ReadsRm THEN r[i.Rm] ELSE i.imm
Data(i, r)   == r[i.Rd]

Sum        == {"ADD", "ADDI", "ADDS", "ADDSI"}
Difference == {"SUB", "SUBI", "SUBS", "SUBSI", "CMP", "CMPI"}

\* The word of a left shift holds the complement of the amount.
Value(i, r) ==
    LET op == OperationOf(i)
        a  == First(i, r)
        b  == Second(i, r)
    IN  CASE op = "MOVZ"            -> b
          [] op \in Sum             -> ToLong(a + b)
          [] op \in Difference      -> ToLong(a - b)
          [] op = "MUL"             -> Times(a, b)
          [] op \in {"AND", "ANDS"} -> And(a, b)
          [] op = "EOR"             -> Xor(a, b, LongBits)
          [] op = "ORR"             -> Or(a, b)
          [] op = "LSLI"            -> ShiftLeft(a, LongBits - 1 - (b % LongBits))
          [] op = "LSRI"            -> ShiftRight(a, b % LongBits)

SetsTheFlags == SetsFlags \cup Compares \cup {"SUBSI"}

FlagsOf(result) == [N |-> IF IsNegative(result) THEN 1 ELSE 0,
                    Z |-> IF result = 0 THEN 1 ELSE 0]

Address(i, r) == ToLong(First(i, r) + i.imm)

\* What a load puts into its register.
Loaded(i, r, m) ==
    LET a == Address(i, r)
    IN  CASE OperationOf(i) = "LDUR"  ->
                 mem_read_32(m, a) + 2^IntBits * mem_read_32(m, ToLong(a + 4))
          [] OperationOf(i) = "LDURB" -> ByteAt(m, a)
          [] OperationOf(i) = "LDURH" ->
                 IF InRegion(a) THEN ByteAt(m, a) + 2^ByteBits * ByteAt(m, a + 1) ELSE 0

\* What a store leaves in memory: eight bytes, one or two.
Stored(i, r, m) ==
    LET a == Address(i, r)
        v == Data(i, r)
    IN  CASE OperationOf(i) = "STUR"  ->
                 mem_write_32(mem_write_32(m, a, ToWord(v)), ToLong(a + 4), HighWord(v))
          [] OperationOf(i) = "STURB" ->
                 IF InRegion(a) THEN [m EXCEPT ![a] = ByteOf(v, 0)] ELSE m
          [] OperationOf(i) = "STURH" ->
                 IF InRegion(a) THEN [m EXCEPT ![a]     = ByteOf(v, 0),
                                               ![a + 1] = ByteOf(v, 1)]
                                ELSE m

Taken(i, r, f) ==
    LET op == OperationOf(i)
    IN  CASE op \in {"B", "BR"} -> TRUE
          [] op = "CBZ"  -> Data(i, r) = 0
          [] op = "CBNZ" -> Data(i, r) # 0
          [] op = "BEQ"  -> f.Z = 1
          [] op = "BNE"  -> f.Z = 0
          [] op = "BGE"  -> f.N = 0
          [] op = "BLT"  -> f.N = 1
          [] op = "BGT"  -> f.Z = 0 /\ f.N = 0
          [] op = "BLE"  -> f.Z = 1 \/ f.N = 1

\* The address that follows address a of i.
NextAddress(i, a, r, f) ==
    IF OperationOf(i) \in Branches /\ Taken(i, r, f)
    THEN IF OperationOf(i) = "BR" THEN First(i, r) ELSE ToLong(a + 4 * i.imm)
    ELSE ToLong(a + 4)

-----------------------------------------------------------------------------
Init ==
    /\ program \in Programs
    /\ mem = ZeroMemory
    /\ regs \in RegisterFiles
    /\ flags = [N |-> 0, Z |-> 0]
    /\ pc = TextStart
    /\ running = TRUE /\ predictable = TRUE

\* The instruction at pc, and on to the one that follows it.
Operation == OperationOf(Instruction)

Advance ==
    /\ pc' = NextAddress(Instruction, pc, regs, flags)
    /\ UNCHANGED <<program, predictable>>

Compute ==
    /\ Operation \in WritesRd
    /\ LET v == Value(Instruction, regs)
       IN  /\ regs' = [regs EXCEPT ![Instruction.Rd] = v]
           /\ flags' = IF Operation \in SetsTheFlags THEN FlagsOf(v) ELSE flags
    /\ Advance
    /\ UNCHANGED <<mem, running>>

CompareValues ==
    /\ Operation \in Compares
    /\ flags' = FlagsOf(Value(Instruction, regs))
    /\ Advance
    /\ UNCHANGED <<mem, regs, running>>

Load ==
    /\ Operation \in Loads
    /\ regs' = [regs EXCEPT ![Instruction.Rd] = Loaded(Instruction, regs, mem)]
    /\ Advance
    /\ UNCHANGED <<mem, flags, running>>

Store ==
    /\ Operation \in Stores
    /\ mem' = Stored(Instruction, regs, mem)
    /\ Advance
    /\ UNCHANGED <<regs, flags, running>>

Branch ==
    /\ Operation \in Branches
    /\ Advance
    /\ UNCHANGED <<mem, regs, flags, running>>

Stop ==
    /\ Operation = "HLT"
    /\ running' = FALSE
    /\ Advance
    /\ UNCHANGED <<mem, regs, flags>>

Step ==
    /\ running = TRUE /\ predictable = TRUE
    /\ Compute \/ CompareValues \/ Load \/ Store \/ Branch \/ Stop

Depart == ~predictable'

Next == Step \/ Depart

Spec == Init /\ [][Next]_archVars
=============================================================================
