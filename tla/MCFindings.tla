----------------------------- MODULE MCFindings -----------------------------
(***************************************************************************)
(* Statements the repository makes of the program, and small programs for  *)
(* which the code does otherwise.                                          *)
(***************************************************************************)
EXTENDS PipelineControl, Assembly, InstructionWords

\* Four instructions that lie in one block of the instruction cache.
StoreThenHalt ==
    {<<Access("STUR", 2, 1, 0), Imm("ADDI", 2, 2, 1), Imm("ADDI", 2, 2, 1), Halt>>}

StoreByte ==
    {<<op, Imm("ADDI", 2, 2, 1), Halt, Halt>> :
        op \in {Access("STURB", 2, 1, 0), Access("STURH", 2, 1, 0)}}

\* A CBZ that is not taken: the ADDI behind it is to be executed.
UntakenBranch ==
    {<<Movz(2, 1), ZeroTest("CBZ", 2, 3), Imm("ADDI", 2, 2, 4), Movz(3, 1), Halt, Halt>>}

\* A B.CS behind an ADD.
UnlistedCondition ==
    {<<Reg("ADD", 2, 2, 2), Decoded(<<\h5400, \h0042>>), Imm("ADDI", 2, 2, 1), Halt>>}

\* X1 holds the address of the data.
Registers == {[r \in Regs |-> IF r = 1 THEN DataStart ELSE 1]}

-----------------------------------------------------------------------------
(* shell.c:115: `go - run program to completion'.  A straight line of      *)
(* instructions that ends in HLT is through long before MaxCycles.         *)
RunsToCompletion == stat_cycles = MaxCycles => RUN_BIT = 0

(* shell.h:23: `only the cache touches these functions', of mem_read_32    *)
(* and mem_write_32.  Then a word an instruction writes to memory is in a  *)
(* block the data cache holds.                                             *)
OnlyCacheTouchesMemory ==
    [][stage = "mem" /\ mem' # mem =>
          IsHit(data_cache', executeStruct.storeAddress)]_vars

(* README.md:1: `Simulator achieves 100% accuracy over 1000 cycles'.  Then *)
(* the result of the ADDI behind a branch that is not taken is in its      *)
(* register when the program has come to its end.                          *)
Accurate == RUN_BIT = 0 /\ stage = "begin" => REGS[2] = 5

(* pipe.h:20: `register file state', of REGS[ARM_REGS]; shell.h:21:        *)
(* `#define ARM_REGS 32'.  Then every register number that execute reads   *)
(* with, or write-back writes with, is below 32.                           *)
IndexesBelowARM_REGS ==
    /\ Executes => \A r \in Sources(decodeStruct) : r < 32
    /\ stage = "wb" => \A r \in Destinations(memoryStruct) : r < 32
=============================================================================
