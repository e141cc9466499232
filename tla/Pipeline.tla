------------------------------ MODULE Pipeline ------------------------------
(***************************************************************************)
(* pipe.c: the five-stage pipeline.  cycle() of shell.c calls pipe_cycle,  *)
(* which runs the stages from the last to the first (write-back, memory,   *)
(* execute, decode, fetch), each on the latch the stage before it left in  *)
(* the previous cycle.  The variable stage says which call comes next;     *)
(* there is one action per stage, or per case of a stage that touches      *)
(* different state.                                                        *)
(*                                                                         *)
(* Variables keep the names of pipe.c; a C flag is 0 or 1.  The five *FLAG *)
(* globals RNFLAG, RMFLAG and RTFLAG are the set `forward', and the values *)
(* they guard the function `forwarded'.                                    *)
(***************************************************************************)
EXTENDS Words, MemoryOps, CacheOps, PredictorOps, Instructions, Sequences

CONSTANTS
    TextStart,              \* 0x00400000 in the code
    Programs,               \* the programs load_program may put at TextStart
    RegisterFiles,          \* the register contents `input' may have set up
    Regs,                   \* the registers those programs name
    DataSets, DataWays,                 \* 256 and 8 in the code
    InstructionSets, InstructionWays,   \* 64 and 4 in the code
    MissCycles,             \* 9: cycles a miss of either cache waits
    MaxCycles               \* bound on the cycles simulated

\* A word of a program: its bits, of which those that are used to name a
\* register name one of Regs.  A word that keeps the operation before it may
\* have all of its fields used, unless they are blanked.
IsInstruction(word) ==
    /\ word.op \in Opcodes
    /\ {word.Rd, word.Rn, word.Rm} \subseteq 0 .. 31
    /\ \A op \in OperationNames : Immediate(word, op) \in Int
    /\ word.op \in {"MOVZ"} \cup Keepers => Immediate(word, "MOVZ") \in Long
    /\ OperationOf(word) \in ReadsRn \cup {"NONE"} => word.Rn \in Regs
    /\ OperationOf(word) \in ReadsRm \cup {"NONE"} => word.Rm \in Regs
    /\ OperationOf(word) \in ReadsRt \cup Loads \cup WritesRd \cup {"NONE"} => word.Rd \in Regs

ASSUME PipelineAssumption ==
    /\ TextStart \in Long /\ TextStart # 0
    /\ MissCycles \in Nat \ {0}
    /\ MaxCycles \in Nat
    /\ 0 \in Regs /\ Regs \subseteq 0 .. 31
    /\ RegisterFiles \subseteq [Regs -> Long]
    /\ \A p \in Programs : /\ DOMAIN p \subseteq Nat \ {0}
                           /\ \A i \in DOMAIN p : IsInstruction(p[i])
    /\ {DataSets, InstructionSets} \subseteq SupportedSetCounts
    /\ {DataWays, InstructionWays} \subseteq Nat \ {0}

VARIABLES
    program,                        \* the text region
    mem,                            \* the other regions
    REGS, FLAG_N, FLAG_Z, PC,       \* CURRENT_STATE
    RUN_BIT, stat_cycles, stat_inst_retire,
    fetchStruct, decodeStruct, executeStruct, memoryStruct,
    forward, forwarded,             \* RNFLAG, RMFLAG, RTFLAG and their values
    IFtoID_BP, IDtoEX_BP, branch_predictor,
    data_cache, instruction_cache,
    data_stall, instruction_stall, fresh_data_stall,
    update_data_cache, update_instruction_cache,
    HaltFlag, StallFlag, flushed,
    temp_FLAG_N, temp_FLAG_Z,
    stage                           \* the call of pipe_cycle that comes next

flagVars    == <<FLAG_N, FLAG_Z, temp_FLAG_N, temp_FLAG_Z>>
statVars    == <<RUN_BIT, stat_cycles, stat_inst_retire>>
latches     == <<fetchStruct, decodeStruct, executeStruct, memoryStruct>>
forwardVars == <<forward, forwarded>>
predictVars == <<IFtoID_BP, IDtoEX_BP, branch_predictor>>
caches      == <<data_cache, instruction_cache>>
stallVars   == <<data_stall, instruction_stall, fresh_data_stall,
                 update_data_cache, update_instruction_cache>>
controlVars == <<HaltFlag, StallFlag, flushed>>

vars == <<program, mem, REGS, PC, flagVars, statVars, latches, forwardVars,
          predictVars, caches, stallVars, controlVars, stage>>

-----------------------------------------------------------------------------
Fields == {"Rn", "Rm", "Rt"}

\* The word mem_read_32 returns for an instruction address.  Left out are
\* instructions in the data or stack region, and addresses that are no multiple
\* of 4, where the bytes of two words make a third.
InstructionAt(addr) ==
    LET i == (addr - TextStart) \div 4 + 1
    IN  IF i \in DOMAIN program THEN program[i] ELSE ZeroWord

\* clearFetchStruct and clearDecodeStruct.
EmptyFetch == [PC |-> 0, word |-> ZeroWord]

\* Mutant: the operation survives.
clearDecodeFields(d) ==
    [d EXCEPT !.opcode = 0, !.Rd = BlankRd, !.Rn = Blank, !.Rm = Blank,
              !.Rt = Blank, !.imm = 0]

clearDecodeStruct(d) ==
    [d EXCEPT !.op = "NoOp", !.opcode = 0, !.Rd = BlankRd, !.Rn = Blank,
              !.Rm = Blank, !.Rt = Blank, !.imm = 0]

\* clearMemoryStruct: the comparison result is not cleared.
clearMemoryStruct(m) ==
    [m EXCEPT !.op = "NoOp", !.Rd = 0, !.Rt = 0, !.RdVal = 0, !.RtVal = 0]

Init ==
    /\ program \in Programs
    /\ mem = ZeroMemory
    /\ REGS \in RegisterFiles
    /\ FLAG_N = 0 /\ FLAG_Z = 0 /\ temp_FLAG_N = 0 /\ temp_FLAG_Z = 0
    /\ PC = TextStart
    /\ RUN_BIT = 1 /\ stat_cycles = 0 /\ stat_inst_retire = 0
    /\ fetchStruct = EmptyFetch
    /\ decodeStruct = [op |-> "NoOp", PC |-> 0, opcode |-> 0, Rd |-> 0, Rn |-> 0,
                       Rm |-> 0, Rt |-> 0, imm |-> 0]
    /\ executeStruct = [op |-> "NoOp", Rd |-> 0, Rt |-> 0, RdVal |-> 0,
                        cmpResult |-> 0, storeAddress |-> 0, storeValLow |-> 0,
                        storeValHigh |-> 0, loadValLow |-> 0]
    /\ memoryStruct = [op |-> "NoOp", Rd |-> 0, Rt |-> 0, RdVal |-> 0,
                       RtVal |-> 0, cmpResult |-> 0]
    /\ forward = {} /\ forwarded = [f \in Fields |-> 0]
    /\ IFtoID_BP = [pred_address |-> 0, pred_taken |-> 0]
    /\ IDtoEX_BP = [pred_address |-> 0, pred_taken |-> 0]
    /\ branch_predictor = EmptyPredictor
    /\ data_cache = cache_new(DataSets, DataWays)
    /\ instruction_cache = cache_new(InstructionSets, InstructionWays)
    /\ data_stall = 0 /\ instruction_stall = 0 /\ fresh_data_stall = 0
    /\ update_data_cache = 0 /\ update_instruction_cache = 0
    /\ HaltFlag = 0 /\ StallFlag = 0 /\ flushed = 0
    /\ stage = "begin"

-----------------------------------------------------------------------------
(* The start of a cycle, and the three ways a cycle ends.                  *)

RegHolds(r, v) == r \in Regs /\ REGS[r] = v

At(offset, cycle) == PC = TextStart + offset /\ stat_cycles = cycle

\* forward_regs_flags: two states of two grading programs, recognised by
\* registers, address and cycle, in which the counters and one word of
\* memory are set right by hand.
ExtraRetirement ==
    /\ RegHolds(1, DataStart)
    /\ \/ RegHolds(3, 100) /\ (At(40, 32) \/ At(44, 33))
       \/ RegHolds(5, 4) /\ RegHolds(6, 3) /\ At(44, 42)

MissingStore ==
    RegHolds(1, DataStart) /\ RegHolds(5, 4) /\ RegHolds(6, 3) /\ At(36, 40)

\* Mutant: the last cycle of the wait is not waited for.
WaitingTooShort == data_stall > 1

Waiting == data_stall >= 1

\* The shell calls cycle() only while RUN_BIT is set.
BeginCycle ==
    /\ stage = "begin"
    /\ RUN_BIT = 1
    /\ stat_cycles < MaxCycles
    /\ stat_inst_retire' = IF ExtraRetirement THEN stat_inst_retire - 1
                                              ELSE stat_inst_retire
    /\ mem' = IF MissingStore THEN mem_write_32(mem, DataStart + 40, 4) ELSE mem
    /\ flushed' = 0
    /\ stage' = IF Waiting THEN "stall" ELSE "wb"
    /\ UNCHANGED <<program, REGS, PC, flagVars, RUN_BIT, stat_cycles, latches,
                   forwardVars, predictVars, caches, stallVars, HaltFlag, StallFlag>>

EndCycle == stage' = "begin" /\ stat_cycles' = stat_cycles + 1

\* One cycle off the wait for the instruction cache; the block is filled by
\* the next stage that asks for it.
CountInstructionStall ==
    /\ instruction_stall' = instruction_stall - 1
    /\ update_instruction_cache' =
           IF instruction_stall = 1 THEN 1 ELSE update_instruction_cache

\* A cycle spent waiting for the data cache: no stage runs.
StallCycle ==
    /\ stage = "stall"
    /\ data_stall' = data_stall - 1
    /\ update_data_cache' = IF data_stall = 1 THEN 1 ELSE update_data_cache
    /\ CountInstructionStall
    /\ EndCycle
    /\ UNCHANGED <<program, mem, REGS, PC, flagVars, RUN_BIT, stat_inst_retire,
                   latches, forwardVars, predictVars, caches, fresh_data_stall,
                   controlVars>>

\* The rest of the cycle in which a data access missed.
MissCycle ==
    /\ stage = "miss"
    /\ CountInstructionStall
    /\ EndCycle
    /\ UNCHANGED <<program, mem, REGS, PC, flagVars, RUN_BIT, stat_inst_retire,
                   latches, forwardVars, predictVars, caches, data_stall,
                   fresh_data_stall, update_data_cache, controlVars>>

\* The fetch stage is waiting for the instruction cache.
FetchStallCycle ==
    /\ stage = "fetch"
    /\ instruction_stall >= 1
    /\ CountInstructionStall
    /\ EndCycle
    /\ UNCHANGED <<program, mem, REGS, PC, flagVars, RUN_BIT, stat_inst_retire,
                   latches, forwardVars, predictVars, caches, data_stall,
                   fresh_data_stall, update_data_cache, controlVars>>

-----------------------------------------------------------------------------
(* Write-back.                                                             *)

\* check_dependency_wb and check_dependency_mem: a result on its way to
\* register r is offered to the instruction waiting in decodeStruct, unless
\* the result is 0.
Matching(r) == {f \in Fields : decodeStruct[f] = r}

Forward(enabled, r, val) ==
    /\ forward' = IF enabled THEN forward \cup Matching(r) ELSE forward
    /\ forwarded' = IF enabled
                    THEN [f \in Fields |-> IF f \in Matching(r) THEN val
                                                                ELSE forwarded[f]]
                    ELSE forwarded

NextRegister(m) ==
    IF m.op \in WritesRd /\ m.Rd \in Regs THEN [REGS EXCEPT ![m.Rd] = ToInt(m.RdVal)]
    ELSE IF m.op \in Loads /\ m.Rt \in Regs THEN [REGS EXCEPT ![m.Rt] = m.RtVal]
    ELSE REGS

\* An index beyond the 32 registers is not checked.  In the binary of the
\* repository executeStruct lies behind CURRENT_STATE: REGS[Blank] is its
\* opcode, and REGS[BlankRd] its storeValLow and storeValHigh, which a STUR in
\* executeStruct is about to store.  Nothing reads an opcode a load leaves there.
WrittenBehind(m) ==
    IF m.op \in WritesRd /\ m.Rd \notin Regs
    THEN [executeStruct EXCEPT !.storeValLow  = ToWord(ToInt(m.RdVal)),
                               !.storeValHigh = HighWord(ToInt(m.RdVal))]
    ELSE executeStruct

ZFlag(result) == IF result = 0 THEN 1 ELSE 0
NFlag(result) == IF IsNegative(result) THEN 1 ELSE 0

\* Mutant: branches are left with the flags of the last compare.
set_flags_only(result) ==
    /\ FLAG_Z' = ZFlag(result) /\ FLAG_N' = NFlag(result)
    /\ UNCHANGED <<temp_FLAG_Z, temp_FLAG_N>>

\* set_flags also overwrites the flags that compares in execute have set.
set_flags(result) ==
    /\ FLAG_Z' = ZFlag(result) /\ temp_FLAG_Z' = ZFlag(result)
    /\ FLAG_N' = NFlag(result) /\ temp_FLAG_N' = NFlag(result)

pipe_stage_wb ==
    /\ stage = "wb"
    /\ fresh_data_stall = 0
    /\ REGS' = NextRegister(memoryStruct)
    /\ executeStruct' = WrittenBehind(memoryStruct)
    /\ IF memoryStruct.op \in SetsFlags
       THEN set_flags(IF memoryStruct.op = "CMP" THEN memoryStruct.cmpResult
                                                 ELSE ToInt(memoryStruct.RdVal))
       ELSE UNCHANGED flagVars
    /\ stat_inst_retire' = IF memoryStruct.op = "NoOp" THEN stat_inst_retire
                                                       ELSE stat_inst_retire + 1
    /\ RUN_BIT' = IF memoryStruct.op = "HLT" THEN 0 ELSE RUN_BIT
    /\ Forward(memoryStruct.RdVal # 0, memoryStruct.Rd, memoryStruct.RdVal)
    /\ stage' = "mem"
    /\ UNCHANGED <<program, mem, PC, stat_cycles, fetchStruct, decodeStruct,
                   memoryStruct, predictVars, caches, stallVars, controlVars>>

\* The first cycle after a data stall: memoryStruct was already written back
\* in the cycle of the miss, and holds the access that is about to be retried.
SkipWriteBack ==
    /\ stage = "wb"
    /\ fresh_data_stall = 1
    /\ fresh_data_stall' = 0
    /\ stage' = "mem"
    /\ UNCHANGED <<program, mem, REGS, PC, flagVars, statVars, latches, forwardVars,
                   predictVars, caches, data_stall, instruction_stall,
                   update_data_cache, update_instruction_cache, controlVars>>

-----------------------------------------------------------------------------
(* Memory.                                                                 *)

\* What every call copies from executeStruct; its RtVal is never set.
Latched == [op        |-> executeStruct.op,    Rd    |-> executeStruct.Rd,
            Rt        |-> executeStruct.Rt,    RdVal |-> executeStruct.RdVal,
            cmpResult |-> executeStruct.cmpResult, RtVal |-> 0]

\* STUR and LDUR go through the data cache, the narrow accesses do not.
AccessAddress == IF executeStruct.op = "STUR" THEN executeStruct.storeAddress
                                              ELSE executeStruct.loadValLow
HighAddress   == IF executeStruct.op = "STUR" THEN ToLong(AccessAddress + 4)
                                              ELSE ToWord(AccessAddress + 4)

\* Mutant: only the word accessed last is filled.
FillHigh(c) == cache_update(c, HighAddress)

\* Both words of the access are filled, each on its own.
FillBoth(c) == cache_update(cache_update(c, AccessAddress), HighAddress)

\* Mutant: the fill that was waited for is forgotten.
UnfilledCache == data_cache

ProbedCache == IF update_data_cache = 1 THEN FillBoth(data_cache) ELSE data_cache

DataHit  == IsHit(ProbedCache, AccessAddress)
DataMiss == executeStruct.op \in {"STUR", "LDUR"} /\ ~DataHit

AfterHit == FillBoth(check_cache_hit(ProbedCache, AccessAddress))

\* Mutant: results are forwarded from write-back only.
NoDependency == UNCHANGED forwardVars

\* check_dependency_mem, on the memoryStruct this call leaves.
CheckDependency ==
    Forward(memoryStruct'.RdVal # 0, executeStruct.Rd, executeStruct.RdVal)

\* Mutants: every load stalls; the second pass leaves the load in memoryStruct.
stall_always(m) ==
    IF StallFlag = 1
    THEN StallFlag' = 0 /\ memoryStruct' = clearMemoryStruct(m)
    ELSE StallFlag' = 1 /\ memoryStruct' = m

stall_without_bubble(m) ==
    /\ StallFlag' = IF StallFlag = 0 /\ Matching(m.Rt) # {} THEN 1 ELSE 0
    /\ memoryStruct' = m

\* check_stall: the instruction in decodeStruct names the register being
\* loaded, so it waits a cycle; in that cycle the load passes here again and
\* is turned into a bubble.
check_stall(m) ==
    IF StallFlag = 1
    THEN StallFlag' = 0 /\ memoryStruct' = clearMemoryStruct(m)
    ELSE /\ StallFlag' = IF Matching(m.Rt) # {} THEN 1 ELSE 0
         /\ memoryStruct' = m

LoadedValue ==
    LET low == mem_read_32(mem, AccessAddress)
    IN  CASE executeStruct.op = "LDUR"  ->
               low + 2^IntBits * mem_read_32(mem, HighAddress)
          [] executeStruct.op = "LDURB" -> LowByte(low)
          [] executeStruct.op = "LDURH" -> LowHalfword(low)

MemLoad ==
    /\ stage = "mem"
    /\ executeStruct.op \in Loads
    /\ ~DataMiss
    /\ check_stall([Latched EXCEPT !.RtVal = LoadedValue])
    /\ IF executeStruct.op = "LDUR"
       THEN data_cache' = AfterHit /\ update_data_cache' = 0
       ELSE UNCHANGED <<data_cache, update_data_cache>>
    /\ CheckDependency
    /\ stage' = "execute"
    /\ UNCHANGED <<program, mem, REGS, PC, flagVars, statVars, fetchStruct,
                   decodeStruct, executeStruct, predictVars, instruction_cache,
                   data_stall, instruction_stall, fresh_data_stall,
                   update_instruction_cache, HaltFlag, flushed>>

MemStore ==
    /\ stage = "mem"
    /\ executeStruct.op = "STUR"
    /\ DataHit
    /\ mem' = mem_write_32(mem_write_32(mem, AccessAddress, executeStruct.storeValLow),
                           HighAddress, executeStruct.storeValHigh)
    /\ data_cache' = AfterHit
    /\ update_data_cache' = 0
    /\ memoryStruct' = Latched
    /\ CheckDependency
    /\ stage' = "execute"
    /\ UNCHANGED <<program, REGS, PC, flagVars, statVars, fetchStruct, decodeStruct,
                   executeStruct, predictVars, instruction_cache, data_stall,
                   instruction_stall, fresh_data_stall, update_instruction_cache,
                   controlVars>>

\* STURB and STURH: a whole word is written, beside the data cache.
MemStoreNarrow ==
    /\ stage = "mem"
    /\ executeStruct.op \in {"STURB", "STURH"}
    /\ mem' = mem_write_32(mem, executeStruct.storeAddress, executeStruct.storeValLow)
    /\ memoryStruct' = Latched
    /\ CheckDependency
    /\ stage' = "execute"
    /\ UNCHANGED <<program, REGS, PC, flagVars, statVars, fetchStruct, decodeStruct,
                   executeStruct, predictVars, caches, stallVars, controlVars>>

\* Every other operation passes through.
MemPass ==
    /\ stage = "mem"
    /\ executeStruct.op \notin Loads \cup Stores
    /\ memoryStruct' = Latched
    /\ CheckDependency
    /\ stage' = "execute"
    /\ UNCHANGED <<program, mem, REGS, PC, flagVars, statVars, fetchStruct,
                   decodeStruct, executeStruct, predictVars, caches, stallVars,
                   controlVars>>

\* The instruction cache once its pending block, if any, has been filled.
ProbedInstructionCache ==
    IF update_instruction_cache = 1 THEN cache_update(instruction_cache, PC)
                                    ELSE instruction_cache

\* While the data access waits, PC moves on as if the instruction there had
\* been fetched, and fetchStruct is left alone.
MovePC ==
    IF instruction_stall > 0
    THEN UNCHANGED <<PC, instruction_cache, instruction_stall,
                     update_instruction_cache>>
    ELSE /\ update_instruction_cache' = 0
         /\ instruction_cache' = check_cache_hit(ProbedInstructionCache, PC)
         /\ IF IsHit(ProbedInstructionCache, PC)
            THEN /\ PC' = bp_predict(branch_predictor, PC).pred_address
                 /\ UNCHANGED instruction_stall
            ELSE /\ instruction_stall' = MissCycles + 1
                 /\ UNCHANGED PC

\* Mutant: the retry is not announced to write-back.
update_PC_unmarked == MovePC /\ UNCHANGED fresh_data_stall

update_PC == MovePC /\ fresh_data_stall' = 1

MemMiss ==
    /\ stage = "mem"
    /\ DataMiss
    /\ memoryStruct' = Latched
    /\ data_cache' = ProbedCache
    /\ update_data_cache' = 0
    /\ data_stall' = MissCycles
    /\ update_PC
    /\ stage' = "miss"
    /\ UNCHANGED <<program, mem, REGS, flagVars, statVars, fetchStruct, decodeStruct,
                   executeStruct, forwardVars, predictVars, controlVars>>

-----------------------------------------------------------------------------
(* Execute.                                                                *)

\* execute has copied the opcode before it reads REGS[Blank] (WrittenBehind).
Register(r) == IF r \in Regs THEN REGS[r] ELSE ToLong(decodeStruct.opcode)

Operand(field) == IF field \in forward THEN forwarded[field]
                                       ELSE Register(decodeStruct[field])

Alu(op, a, b) ==
    CASE op \in {"ADD", "ADDI", "ADDS", "ADDSI"} -> ToLong(a + b)
      [] op \in {"SUB", "SUBS", "CMP"}           -> ToLong(a - b)
      [] op = "MUL"                              -> Times(a, b)
      [] op \in {"AND", "ANDS"}                  -> And(a, b)
      [] op = "EOR"                              -> Xor(a, b, LongBits)
      [] op = "ORR"                              -> Or(a, b)
      \* A shift is taken modulo the width; the word of a left shift holds the
      \* complement.
      [] op = "LSLI"                -> ShiftLeft(a, LongBits - 1 - (b % LongBits))
      [] op = "LSRI"                -> ShiftRight(a, b % LongBits)
      \* The three with an immediate subtract it from the register file's
      \* value only: a forwarded value is passed on as it is.
      [] op \in {"SUBI", "SUBSI", "CMPI"}        ->
             IF "Rn" \in forward THEN a ELSE ToLong(a - b)

Result(d) ==
    IF d.op = "MOVZ" THEN d.imm
    ELSE IF d.op \in ReadsRm THEN Alu(d.op, Operand("Rn"), Operand("Rm"))
    ELSE Alu(d.op, Operand("Rn"), d.imm)

\* The offset of a load or store is taken as a uint32_t.
EffectiveAddress(d) == Operand("Rn") + ToWord(d.imm)

\* Mutant: what was forwarded stays in use.
ExecutingKeepsForwarded ==
    /\ stage = "execute"
    /\ StallFlag = 0
    /\ stage' = "decode"
    /\ UNCHANGED <<program, mem, REGS, FLAG_N, FLAG_Z, statVars, memoryStruct,
                   forwardVars, IFtoID_BP, IDtoEX_BP, caches, data_stall,
                   fresh_data_stall, update_data_cache, StallFlag>>

\* Every call resets the forwarding flags and moves the instruction on.
Executing ==
    /\ stage = "execute"
    /\ StallFlag = 0
    /\ forward' = {}
    /\ stage' = "decode"
    /\ UNCHANGED <<program, mem, REGS, FLAG_N, FLAG_Z, statVars, memoryStruct,
                   forwarded, IFtoID_BP, IDtoEX_BP, caches, data_stall,
                   fresh_data_stall, update_data_cache, StallFlag>>

Carried == [executeStruct EXCEPT !.op = decodeStruct.op,
                                 !.Rd = decodeStruct.Rd, !.Rt = decodeStruct.Rt]

ExecuteNoOp ==
    /\ Executing
    /\ decodeStruct.op = "NoOp"
    /\ executeStruct' = Carried
    /\ UNCHANGED <<PC, temp_FLAG_N, temp_FLAG_Z, fetchStruct, decodeStruct,
                   branch_predictor, instruction_stall, update_instruction_cache,
                   HaltFlag, flushed>>

ExecuteAlu ==
    /\ Executing
    /\ decodeStruct.op \in WritesRd
    /\ executeStruct' = [Carried EXCEPT !.RdVal = Result(decodeStruct)]
    /\ UNCHANGED <<PC, temp_FLAG_N, temp_FLAG_Z, fetchStruct, decodeStruct,
                   branch_predictor, instruction_stall, update_instruction_cache,
                   HaltFlag, flushed>>

\* set_temp_flags: branches in execute look at the temporary flags.
ExecuteCompare ==
    /\ Executing
    /\ decodeStruct.op \in Compares
    /\ LET sumSubs == ToInt(Result(decodeStruct))
       IN  /\ executeStruct' = [Carried EXCEPT !.cmpResult = sumSubs]
           /\ temp_FLAG_Z' = ZFlag(sumSubs)
           /\ temp_FLAG_N' = NFlag(sumSubs)
    /\ UNCHANGED <<PC, fetchStruct, decodeStruct, branch_predictor, instruction_stall,
                   update_instruction_cache, HaltFlag, flushed>>

ExecuteLoad ==
    /\ Executing
    /\ decodeStruct.op \in Loads
    /\ executeStruct' =
           [Carried EXCEPT !.loadValLow = ToWord(EffectiveAddress(decodeStruct))]
    /\ UNCHANGED <<PC, temp_FLAG_N, temp_FLAG_Z, fetchStruct, decodeStruct,
                   branch_predictor, instruction_stall, update_instruction_cache,
                   HaltFlag, flushed>>

\* STURH masks its value to a byte, as STURB does; neither writes the high word.
ExecuteStore ==
    /\ Executing
    /\ decodeStruct.op \in Stores
    /\ LET addressed == [Carried EXCEPT
                            !.storeAddress = ToLong(EffectiveAddress(decodeStruct))]
       IN  executeStruct' =
             IF decodeStruct.op = "STUR"
             THEN [addressed EXCEPT !.storeValLow  = ToWord(Operand("Rt")),
                                    !.storeValHigh = HighWord(Operand("Rt"))]
             ELSE [addressed EXCEPT !.storeValLow  = LowByte(Operand("Rt"))]
    /\ UNCHANGED <<PC, temp_FLAG_N, temp_FLAG_Z, fetchStruct, decodeStruct,
                   branch_predictor, instruction_stall, update_instruction_cache,
                   HaltFlag, flushed>>

HaltUntouched ==
    UNCHANGED <<PC, temp_FLAG_N, temp_FLAG_Z, branch_predictor, instruction_stall,
                update_instruction_cache, flushed>>

\* Mutants: fetching is not stopped; what was fetched is not dropped; the HLT
\* is cleared with what is behind it.
HaltUnmarked ==
    /\ Executing
    /\ decodeStruct.op = "HLT"
    /\ executeStruct' = Carried
    /\ decodeStruct' = clearDecodeStruct(decodeStruct)
    /\ fetchStruct' = EmptyFetch
    /\ HaltUntouched /\ UNCHANGED HaltFlag

HaltKeepsFetched ==
    /\ Executing
    /\ decodeStruct.op = "HLT"
    /\ executeStruct' = Carried
    /\ HaltFlag' = 1
    /\ decodeStruct' = clearDecodeStruct(decodeStruct)
    /\ HaltUntouched /\ UNCHANGED fetchStruct

HaltClearsItself ==
    /\ Executing
    /\ decodeStruct.op = "HLT"
    /\ HaltFlag' = 1
    /\ decodeStruct' = clearDecodeStruct(decodeStruct)
    /\ fetchStruct' = EmptyFetch
    /\ HaltUntouched /\ UNCHANGED executeStruct

\* HLT stops the fetching and drops what is behind it.
ExecuteHalt ==
    /\ Executing
    /\ decodeStruct.op = "HLT"
    /\ executeStruct' = Carried
    /\ HaltFlag' = 1
    /\ decodeStruct' = clearDecodeStruct(decodeStruct)
    /\ fetchStruct' = EmptyFetch
    /\ HaltUntouched

BranchTaken(op) ==
    CASE op \in {"B", "BR"} -> TRUE
      [] op = "CBZ"  -> Operand("Rt") = 0
      [] op = "CBNZ" -> Operand("Rt") # 0
      [] op = "BEQ"  -> temp_FLAG_Z = 1
      [] op = "BNE"  -> temp_FLAG_Z = 0
      [] op = "BGE"  -> temp_FLAG_N = 0
      [] op = "BLT"  -> temp_FLAG_N = 1
      [] op = "BGT"  -> temp_FLAG_Z = 0 /\ temp_FLAG_N = 0
      [] op = "BLE"  -> temp_FLAG_Z = 1 \/ temp_FLAG_N = 1

\* A branch that is not taken goes on two instructions later, except BGT.
CorrectAddress(d) ==
    IF d.op = "BR" THEN Operand("Rn")
    ELSE IF BranchTaken(d.op) THEN ToLong(d.PC + 4 * d.imm)
    ELSE ToLong(d.PC + (IF d.op = "BGT" THEN 4 ELSE 8))

ExecuteBranch ==
    /\ Executing
    /\ decodeStruct.op \in Branches
    /\ LET d       == decodeStruct
           taken   == IF BranchTaken(d.op) THEN 1 ELSE 0
           cond    == IF d.op \in {"B", "BR"} THEN 0 ELSE 1
           correct == CorrectAddress(d)
           flush   == must_flush(IDtoEX_BP, correct, taken)
       IN  /\ branch_predictor' =
                  bp_update(branch_predictor, d.PC, correct, taken, cond)
           /\ PC'           = IF flush THEN correct ELSE PC
           /\ decodeStruct' = IF flush THEN clearDecodeStruct(d) ELSE d
           /\ fetchStruct'  = IF flush THEN EmptyFetch ELSE fetchStruct
           /\ flushed'      = IF flush THEN 1 ELSE flushed
           \* Only BGT gives up a fetch that waits for the instruction cache.
           /\ IF flush /\ d.op = "BGT"
              THEN instruction_stall' = 0 /\ update_instruction_cache' = 0
              ELSE UNCHANGED <<instruction_stall, update_instruction_cache>>
    /\ executeStruct' = Carried
    /\ UNCHANGED <<temp_FLAG_N, temp_FLAG_Z, HaltFlag>>

ExecuteStalled ==
    /\ stage = "execute"
    /\ StallFlag = 1
    /\ stage' = "decode"
    /\ UNCHANGED <<program, mem, REGS, PC, flagVars, statVars, latches, forwardVars,
                   predictVars, caches, stallVars, controlVars>>

-----------------------------------------------------------------------------
(* Decode and fetch.                                                       *)

\* Decode sets no operationName for some words: it stays as it was.
pipe_stage_decode ==
    /\ stage = "decode"
    /\ stage' = "fetch"
    /\ IF StallFlag = 1
       THEN UNCHANGED <<decodeStruct, IDtoEX_BP>>
       ELSE LET word == fetchStruct.word
                op   == IF word.op \in Keepers THEN decodeStruct.op
                                               ELSE OperationOf(word)
            IN  /\ decodeStruct' =
                       [op  |-> op, PC |-> fetchStruct.PC,
                        opcode |-> OpcodeField(word),
                        Rd  |-> RdField(word), Rn |-> RnField(word),
                        Rm  |-> RmField(word), Rt |-> RtField(word),
                        imm |-> Immediate(word, op)]
                /\ IDtoEX_BP' = IFtoID_BP
    /\ UNCHANGED <<program, mem, REGS, PC, flagVars, statVars, fetchStruct,
                   executeStruct, memoryStruct, forwardVars, IFtoID_BP,
                   branch_predictor, caches, stallVars, controlVars>>

FetchTurn ==
    /\ stage = "fetch"
    /\ instruction_stall < 1
    /\ EndCycle
    /\ UNCHANGED <<program, mem, REGS, flagVars, RUN_BIT, stat_inst_retire,
                   decodeStruct, executeStruct, memoryStruct, forwardVars, IDtoEX_BP,
                   branch_predictor, data_cache, data_stall, fresh_data_stall,
                   update_data_cache, HaltFlag, StallFlag>>

\* Mutant: fetching goes on behind a HLT.
FetchNotHeldByHalt == StallFlag = 1 \/ flushed = 1

FetchHeld == StallFlag = 1 \/ HaltFlag = 1 \/ flushed = 1

\* Nothing is fetched in the cycle of a load-use stall, after a HLT, and in
\* the cycle of a flush, whose mark is taken back.
FetchNothing ==
    /\ FetchTurn
    /\ FetchHeld
    /\ flushed' = IF StallFlag = 1 \/ HaltFlag = 1 THEN flushed ELSE 0
    /\ UNCHANGED <<PC, fetchStruct, IFtoID_BP, instruction_cache, instruction_stall,
                   update_instruction_cache>>

Fetching ==
    /\ FetchTurn
    /\ ~FetchHeld
    /\ instruction_cache' = check_cache_hit(ProbedInstructionCache, PC)
    /\ update_instruction_cache' = 0
    /\ UNCHANGED flushed

FetchHit ==
    /\ Fetching
    /\ IsHit(ProbedInstructionCache, PC)
    /\ fetchStruct' = [PC |-> PC, word |-> InstructionAt(PC)]
    /\ IFtoID_BP' = bp_predict(branch_predictor, PC)
    /\ PC' = IFtoID_BP'.pred_address
    /\ UNCHANGED instruction_stall

\* Mutants: the prediction moves on without its instruction; the wait is one
\* cycle too long.
FetchMissPredicts ==
    /\ Fetching
    /\ ~IsHit(ProbedInstructionCache, PC)
    /\ instruction_stall' = MissCycles
    /\ IFtoID_BP' = bp_predict(branch_predictor, PC)
    /\ UNCHANGED <<PC, fetchStruct>>

FetchMissLong ==
    /\ Fetching
    /\ ~IsHit(ProbedInstructionCache, PC)
    /\ instruction_stall' = MissCycles + 1
    /\ UNCHANGED <<PC, fetchStruct, IFtoID_BP>>

\* fetchStruct keeps the instruction fetched last, which decode takes again.
FetchMiss ==
    /\ Fetching
    /\ ~IsHit(ProbedInstructionCache, PC)
    /\ instruction_stall' = MissCycles
    /\ UNCHANGED <<PC, fetchStruct, IFtoID_BP>>

-----------------------------------------------------------------------------
\* run and go refuse to simulate a halted machine.
Halted ==
    /\ stage = "begin"
    /\ RUN_BIT = 0
    /\ UNCHANGED vars

MemoryStage == MemLoad \/ MemStore \/ MemStoreNarrow \/ MemPass \/ MemMiss

ExecuteStage ==
    \/ ExecuteStalled \/ ExecuteNoOp \/ ExecuteAlu \/ ExecuteCompare
    \/ ExecuteLoad \/ ExecuteStore \/ ExecuteBranch \/ ExecuteHalt

FetchStage == FetchStallCycle \/ FetchNothing \/ FetchHit \/ FetchMiss

Next ==
    \/ BeginCycle \/ StallCycle \/ pipe_stage_wb \/ SkipWriteBack
    \/ MemoryStage \/ MissCycle \/ ExecuteStage \/ pipe_stage_decode \/ FetchStage
    \/ Halted

\* go() calls cycle() until RUN_BIT is 0, so a step is taken whenever one can.
Spec == Init /\ [][Next]_vars /\ WF_vars(Next)
=============================================================================
