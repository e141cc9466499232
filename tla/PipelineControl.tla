--------------------------- MODULE PipelineControl ---------------------------
(***************************************************************************)
(* What the control of the pipeline promises: stalls, flushes, bubbles and *)
(* the halt, whatever the data and whatever the program.                   *)
(***************************************************************************)
EXTENDS Pipeline

Flag == {0, 1}

Stages == {"begin", "stall", "wb", "mem", "miss", "execute", "decode", "fetch"}

\* Register fields of the latches: a register, or one of the two blanks.
FieldValues == 0 .. 31 \cup {Blank, BlankRd}

Prediction == [pred_address : Long, pred_taken : Flag]

\* The state that steers the pipeline ...
ControlTypeOK ==
    /\ stage \in Stages
    /\ {fresh_data_stall, update_data_cache, update_instruction_cache,
        HaltFlag, StallFlag, flushed, RUN_BIT} \subseteq Flag
    /\ data_stall \in 0 .. MissCycles
    /\ instruction_stall \in Int /\ instruction_stall <= MissCycles + 1
    /\ stat_cycles \in 0 .. MaxCycles /\ stat_inst_retire \in Int
    /\ program \in Programs
    /\ forward \subseteq Fields
    /\ IsInstruction(fetchStruct.word)
    /\ DOMAIN decodeStruct = {"op", "PC", "opcode", "Rd", "Rn", "Rm", "Rt", "imm"}
    /\ decodeStruct.op \in OperationNames
    /\ {decodeStruct.Rd, decodeStruct.Rn, decodeStruct.Rm, decodeStruct.Rt}
           \subseteq FieldValues
    /\ DOMAIN executeStruct = {"op", "Rd", "Rt", "RdVal", "cmpResult", "storeAddress",
                               "storeValLow", "storeValHigh", "loadValLow"}
    /\ executeStruct.op \in OperationNames
    /\ {executeStruct.Rd, executeStruct.Rt} \subseteq FieldValues
    /\ DOMAIN memoryStruct = {"op", "Rd", "Rt", "RdVal", "RtVal", "cmpResult"}
    /\ memoryStruct.op \in OperationNames
    /\ {memoryStruct.Rd, memoryStruct.Rt} \subseteq FieldValues

\* ... and the state it moves.
DataTypeOK ==
    /\ mem \in [Addresses -> Byte]
    /\ REGS \in [Regs -> Long] /\ PC \in Long
    /\ {FLAG_N, FLAG_Z} \subseteq Word
    /\ {temp_FLAG_N, temp_FLAG_Z} \subseteq Flag
    /\ fetchStruct.PC \in Long
    /\ decodeStruct.PC \in Long /\ {decodeStruct.imm, decodeStruct.opcode} \subseteq Int
    /\ {executeStruct.RdVal, executeStruct.cmpResult, executeStruct.storeAddress}
           \subseteq Long
    /\ {executeStruct.storeValLow, executeStruct.storeValHigh, executeStruct.loadValLow}
           \subseteq Word
    /\ {memoryStruct.RdVal, memoryStruct.RtVal, memoryStruct.cmpResult} \subseteq Long
    /\ forwarded \in [Fields -> Long]
    /\ IFtoID_BP \in Prediction /\ IDtoEX_BP \in Prediction
    /\ branch_predictor.GHR \in Indexes
    /\ branch_predictor.PHT \in [Indexes -> 0 .. 3]
    /\ branch_predictor.BTB \in
           [Indexes -> [pr_address : Long, br_address : Long, valid : Flag, cond : Flag]]
    /\ IsCache(data_cache, DataSets, DataWays)
    /\ IsCache(instruction_cache, InstructionSets, InstructionWays)

(* Type correctness of all the state of pipe.c.                            *)
TypeOK == ControlTypeOK /\ DataTypeOK

-----------------------------------------------------------------------------
\* An instruction lives in executeStruct until memory has copied it, except
\* that a load which has passed memory stays there for a load-use stall; and
\* in memoryStruct until it is written back, except that what memory copied
\* there before a miss is copied again by the retry.
InExecute == stage # "execute" /\ StallFlag = 0 /\ executeStruct.op # "NoOp"
InMemory  == stage # "mem" /\ fresh_data_stall = 0 /\ memoryStruct.op # "NoOp"

\* The fields of a latch whose registers execute reads, and the register
\* that write-back is going to write.
ReadFields(op) == {f \in Fields : \/ f = "Rn" /\ op \in ReadsRn
                                  \/ f = "Rm" /\ op \in ReadsRm
                                  \/ f = "Rt" /\ op \in ReadsRt}

Sources(d) == {d[f] : f \in ReadFields(d.op)}

Destinations(d) == IF d.op \in WritesRd THEN {d.Rd}
                   ELSE IF d.op \in Loads THEN {d.Rt} ELSE {}

Executes == stage = "execute" /\ StallFlag = 0 /\ decodeStruct.op # "NoOp"

-----------------------------------------------------------------------------
(* A data miss freezes the access that missed: while the pipeline waits,   *)
(* and until the retry, execute still holds the STUR or LDUR, write-back   *)
(* is told to skip it, and no load-use stall is in progress.  A retry of   *)
(* anything else would execute an instruction twice or lose one.           *)
MissIsReplayed ==
    /\ data_stall > 0 => stage \in {"begin", "stall", "miss"}
    /\ data_stall > 0 \/ fresh_data_stall = 1 \/ update_data_cache = 1 =>
           executeStruct.op \in {"STUR", "LDUR"}
    /\ data_stall > 0 => fresh_data_stall = 1 /\ update_data_cache = 0
    /\ fresh_data_stall = 1 /\ data_stall = 0 => update_data_cache = 1

(* When a wait is over the retry finds the block that was fetched for it:  *)
(* neither filling the other word of the access nor anything done while    *)
(* waiting evicts it, and no new wait has begun.  Otherwise the pipeline   *)
(* could wait for the same access forever.                                 *)
RetryHits ==
    /\ update_data_cache = 1 => DataHit
    /\ update_instruction_cache = 1 =>
           instruction_stall <= 0 /\ IsHit(ProbedInstructionCache, PC)

(* A load-use stall lasts one cycle and stands for a load: the instruction *)
(* that waits in decode names the loaded register, and the load that       *)
(* passes memory a second time finds its block still in the cache.         *)
StallIsForALoad ==
    StallFlag = 1 =>
        /\ executeStruct.op \in Loads
        /\ Matching(executeStruct.Rt) # {}
        /\ fresh_data_stall = 0
        /\ stage = "mem" => ~DataMiss

(* Once HLT has been executed nothing younger is in the machine: the front *)
(* end is empty and stays so, execute holds HLT or a bubble, nothing       *)
(* waits, and as long as the machine runs the HLT is on its way to         *)
(* write-back.                                                             *)
HaltDrains ==
    HaltFlag = 1 =>
        /\ fetchStruct = EmptyFetch
        /\ decodeStruct.op = "NoOp"
        /\ executeStruct.op \in {"HLT", "NoOp"}
        /\ data_stall = 0 /\ StallFlag = 0
        /\ RUN_BIT = 1 => "HLT" \in {executeStruct.op, memoryStruct.op}

(* RUN_BIT falls only for a HLT that was executed.                         *)
StopsOnlyByHalt == RUN_BIT = 0 => HaltFlag = 1

-----------------------------------------------------------------------------
(* The blanks 40 and 50 that decode stores in unused fields are outside    *)
(* REGS, and a word may keep the operation of the word before it, so the   *)
(* operation and the fields of a latch may come from different words.      *)
(* There is one word with which the register file is indexed out of its    *)
(* bounds: a B.cond with none of the six conditions.  Execute reads        *)
(* REGS[40] for that word alone, whatever was stalled, repeated or flushed *)
(* around it, and write-back leaves REGS only in programs that have one.   *)
HasUnlistedCondition == \E i \in DOMAIN program : program[i].op = "COND"

OutOfBoundsOnlyByBCond ==
    /\ \A f \in ReadFields(decodeStruct.op) :
          decodeStruct[f] \notin 0 .. 31 =>
              decodeStruct[f] = Blank /\ InstructionAt(decodeStruct.PC).op = "COND"
    /\ memoryStruct.op \in WritesRd /\ memoryStruct.Rd \notin 0 .. 31 =>
          memoryStruct.Rd = BlankRd /\ HasUnlistedCondition
    /\ memoryStruct.op \in Loads /\ memoryStruct.Rt \notin 0 .. 31 =>
          memoryStruct.Rt = Blank /\ HasUnlistedCondition

(* A slot without an address is a bubble, in every latch: what a flush     *)
(* leaves behind is never taken for an instruction.                        *)
Bubble(s) == s.PC = 0

FlushLeavesBubbles ==
    /\ Bubble(fetchStruct) => fetchStruct.word = ZeroWord
    /\ stage # "decode" /\ Bubble(decodeStruct) => decodeStruct.op = "NoOp"
    /\ flushed = 1 => Bubble(fetchStruct) /\ decodeStruct.op = "NoOp"

(* What is fetched is what the program holds at that address, and the      *)
(* prediction that travels with it is its own, through stalls, misses and  *)
(* the predictions update_PC makes on the side: not taken means the next   *)
(* address.                                                                *)
PredictionTravelsAlong ==
    /\ ~Bubble(fetchStruct) =>
           /\ fetchStruct.word = InstructionAt(fetchStruct.PC)
           /\ \/ IFtoID_BP.pred_taken = 1
              \/ IFtoID_BP.pred_address = ToLong(fetchStruct.PC + 4)
    /\ stage # "decode" /\ ~Bubble(decodeStruct) =>
           \/ IDtoEX_BP.pred_taken = 1
           \/ IDtoEX_BP.pred_address = ToLong(decodeStruct.PC + 4)

(* Only a branch is predicted taken: a BTB row keeps the whole address of  *)
(* its branch, so another instruction that shares the row is not sent      *)
(* astray.  (A word that keeps the operation before it may repeat a        *)
(* branch.)                                                                *)
OnlyBranchesPredictedTaken ==
    ~Bubble(fetchStruct) /\ IFtoID_BP.pred_taken = 1 =>
        fetchStruct.word.op \in Branches \cup Keepers

-----------------------------------------------------------------------------
(* A cycle spent waiting for data changes no register, flag, memory word   *)
(* or latch, but for the hand-made corrections at its start.               *)
WaitingIsInvisible ==
    [][data_stall > 0 /\ stage # "begin" =>
          UNCHANGED <<REGS, flagVars, mem, latches, stat_inst_retire, PC,
                      forwardVars, predictVars>>]_vars

(* After HLT has been executed the program counter is final: it is what    *)
(* rdump prints.                                                           *)
HaltFreezesPC == [][HaltFlag = 1 => UNCHANGED PC]_vars

(* A HLT that was executed stops the machine within three cycles: the one  *)
(* that executes it, and one for each latch between there and write-back.  *)
HaltStops ==
    HaltFlag = 1 /\ stat_cycles + 3 <= MaxCycles
        ~> RUN_BIT = 0 /\ stage = "begin"

(* A data miss is served: after the wait the access gets through memory.   *)
(* It does not miss again, and nothing holds it back.                      *)
MissIsServed ==
    stage = "miss" /\ stat_cycles + MissCycles + 2 <= MaxCycles
        ~> stage = "execute" /\ memoryStruct.op \in {"STUR", "LDUR"}
=============================================================================
