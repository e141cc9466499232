--------------------------- MODULE PipelineProofs ----------------------------
(***************************************************************************)
(* Proofs about the pipeline, for every program, every size of cache and   *)
(* predictor and every miss penalty: first its control, then its data.     *)
(*                                                                         *)
(* The control rests on one inductive invariant, ControlInv: the types of  *)
(* the control state, MissIsReplayed, and WaitStages, which says at which  *)
(* calls of pipe_cycle the marks of a data miss can be set.  The halt, the *)
(* register fields and the retirement count each add a layer on top of it. *)
(*                                                                         *)
(* The data needs DataInv, that every latched value is a 64-bit word.  On  *)
(* the two together, StateInv, rest the retries, the load-use stalls, the  *)
(* bubbles behind a flush and the rows of the target buffer.  MachineInv   *)
(* joins all of it, and CommonInv is the part that pipe_old.c shares.      *)
(*                                                                         *)
(* What the eight cases of pipe_stage_execute have in common is proved     *)
(* once (Executed); nothing else about execute is needed below.            *)
(***************************************************************************)
EXTENDS PipelineHistory, OperatorLemmas

-----------------------------------------------------------------------------
(* Records updated with EXCEPT, one field at a time.                       *)

(* The instruction execute passes on is the one in decodeStruct, whatever  *)
(* result is attached to it afterwards.                                    *)
LEMMA CarriedFields ==
  ASSUME ControlTypeOK
  PROVE  /\ DOMAIN Carried = DOMAIN executeStruct
         /\ Carried.op = decodeStruct.op
         /\ Carried.Rd = decodeStruct.Rd
         /\ Carried.Rt = decodeStruct.Rt
  <1>1. {"op", "Rd", "Rt"} \subseteq DOMAIN executeStruct
    BY DEF ControlTypeOK
  <1> QED BY <1>1, Zenon DEF Carried

(* clearDecodeStruct leaves a bubble that names no register.               *)
LEMMA ClearedFields ==
  ASSUME ControlTypeOK
  PROVE  LET d == clearDecodeStruct(decodeStruct)
         IN  /\ DOMAIN d = DOMAIN decodeStruct
             /\ d.op = "NoOp" /\ d.PC = decodeStruct.PC
             /\ d.Rd = BlankRd /\ d.Rn = Blank /\ d.Rm = Blank /\ d.Rt = Blank
             /\ d.imm = 0 /\ d.opcode = 0
  <1>1. {"op", "PC", "opcode", "Rd", "Rn", "Rm", "Rt", "imm"} \subseteq DOMAIN decodeStruct
    BY DEF ControlTypeOK
  <1> QED BY <1>1, Zenon DEF clearDecodeStruct

(* clearMemoryStruct leaves a bubble.                                      *)
LEMMA ClearedMemory ==
  ASSUME NEW m, {"op", "Rd", "Rt", "RdVal", "RtVal"} \subseteq DOMAIN m
  PROVE  LET c == clearMemoryStruct(m)
         IN  /\ DOMAIN c = DOMAIN m
             /\ c.op = "NoOp" /\ c.Rd = 0 /\ c.Rt = 0
  BY Zenon DEF clearMemoryStruct

(* What every call of pipe_stage_mem copies names the instruction that is  *)
(* in executeStruct; the value a load adds does not disturb it.            *)
LEMMA LatchedFields ==
  ASSUME NEW v
  PROVE  LET m == [Latched EXCEPT !.RtVal = v]
             ids == {"op", "Rd", "Rt", "RdVal", "RtVal", "cmpResult"}
         IN  /\ DOMAIN Latched = ids /\ DOMAIN m = ids
             /\ Latched.op = executeStruct.op /\ m.op = executeStruct.op
             /\ Latched.Rd = executeStruct.Rd /\ m.Rd = executeStruct.Rd
             /\ Latched.Rt = executeStruct.Rt /\ m.Rt = executeStruct.Rt
  <1>1. /\ DOMAIN Latched = {"op", "Rd", "Rt", "RdVal", "RtVal", "cmpResult"}
        /\ Latched.op = executeStruct.op
        /\ Latched.Rd = executeStruct.Rd /\ Latched.Rt = executeStruct.Rt
    BY DEF Latched
  <1>2. {"op", "Rd", "Rt"} \subseteq DOMAIN Latched
    BY <1>1
  <1>3. LET m == [Latched EXCEPT !.RtVal = v]
        IN  /\ DOMAIN m = DOMAIN Latched
            /\ m.op = Latched.op /\ m.Rd = Latched.Rd /\ m.Rt = Latched.Rt
    BY <1>2, Zenon
  <1> QED BY <1>1, <1>3

(* What write-back stores beyond the 32 registers are values of a store:   *)
(* executeStruct keeps its instruction, its result and its addresses.      *)
LEMMA WrittenFields ==
  ASSUME ControlTypeOK
  PROVE  LET e == WrittenBehind(memoryStruct)
         IN  /\ DOMAIN e = DOMAIN executeStruct
             /\ e.op = executeStruct.op
             /\ e.Rd = executeStruct.Rd /\ e.Rt = executeStruct.Rt
             /\ e.RdVal = executeStruct.RdVal
             /\ e.cmpResult = executeStruct.cmpResult
             /\ e.storeAddress = executeStruct.storeAddress
             /\ e.loadValLow = executeStruct.loadValLow
             /\ e.storeValLow \in
                    {executeStruct.storeValLow, ToWord(ToInt(memoryStruct.RdVal))}
             /\ e.storeValHigh \in
                    {executeStruct.storeValHigh, HighWord(ToInt(memoryStruct.RdVal))}
  <1>1. DOMAIN executeStruct = {"op", "Rd", "Rt", "RdVal", "cmpResult", "storeAddress",
                                "storeValLow", "storeValHigh", "loadValLow"}
    BY DEF ControlTypeOK
  <1>2. CASE memoryStruct.op \in WritesRd /\ memoryStruct.Rd \notin Regs
    <2> DEFINE low == ToWord(ToInt(memoryStruct.RdVal))
               high == HighWord(ToInt(memoryStruct.RdVal))
    <2>1. WrittenBehind(memoryStruct) =
             [executeStruct EXCEPT !.storeValLow = low, !.storeValHigh = high]
      BY <1>2 DEF WrittenBehind
    <2> HIDE DEF low, high
    <2>2. LET e == [executeStruct EXCEPT !.storeValLow = low, !.storeValHigh = high]
          IN  /\ DOMAIN e = DOMAIN executeStruct
              /\ e.op = executeStruct.op
              /\ e.Rd = executeStruct.Rd /\ e.Rt = executeStruct.Rt
              /\ e.RdVal = executeStruct.RdVal
              /\ e.cmpResult = executeStruct.cmpResult
              /\ e.storeAddress = executeStruct.storeAddress
              /\ e.loadValLow = executeStruct.loadValLow
              /\ e.storeValLow = low /\ e.storeValHigh = high
      BY <1>1
    <2> QED BY <2>1, <2>2 DEF low, high
  <1>3. CASE ~(memoryStruct.op \in WritesRd /\ memoryStruct.Rd \notin Regs)
    BY <1>3 DEF WrittenBehind
  <1> QED BY <1>2, <1>3

\* What write-back leaves of the latches.
LatchesStay ==
    /\ UNCHANGED <<fetchStruct, decodeStruct, memoryStruct>>
    /\ DOMAIN executeStruct' = DOMAIN executeStruct
    /\ executeStruct'.op = executeStruct.op
    /\ executeStruct'.Rd = executeStruct.Rd
    /\ executeStruct'.Rt = executeStruct.Rt
    /\ executeStruct'.RdVal = executeStruct.RdVal
    /\ executeStruct'.cmpResult = executeStruct.cmpResult
    /\ executeStruct'.storeAddress = executeStruct.storeAddress
    /\ executeStruct'.loadValLow = executeStruct.loadValLow

(* Every instruction stays where it is in write-back.                      *)
LEMMA WriteBackMovesNothing ==
  ASSUME ControlTypeOK, pipe_stage_wb
  PROVE  LatchesStay
  <1>1. /\ executeStruct' = WrittenBehind(memoryStruct)
        /\ UNCHANGED <<fetchStruct, decodeStruct, memoryStruct>>
    BY DEF pipe_stage_wb
  <1> QED BY <1>1, WrittenFields DEF LatchesStay

-----------------------------------------------------------------------------
(* What execute does to the control state.                                 *)

Sent ==
    /\ DOMAIN executeStruct' = DOMAIN executeStruct
    /\ executeStruct'.op = decodeStruct.op
    /\ executeStruct'.Rd = decodeStruct.Rd
    /\ executeStruct'.Rt = decodeStruct.Rt

FrontKept == UNCHANGED <<fetchStruct, decodeStruct>>

FrontCleared ==
    /\ fetchStruct' = EmptyFetch
    /\ DOMAIN decodeStruct' = DOMAIN decodeStruct
    /\ decodeStruct'.op = "NoOp" /\ decodeStruct'.PC = decodeStruct.PC
    /\ decodeStruct'.Rd = BlankRd /\ decodeStruct'.Rn = Blank
    /\ decodeStruct'.Rm = Blank /\ decodeStruct'.Rt = Blank
    /\ decodeStruct'.imm = 0 /\ decodeStruct'.opcode = 0

Moves ==
    /\ stage = "execute" /\ stage' = "decode"
    /\ StallFlag = 0
    /\ forward' \in {{}, forward}
    /\ UNCHANGED <<program, mem, REGS, FLAG_N, FLAG_Z, statVars, memoryStruct,
                   forwarded, IFtoID_BP, IDtoEX_BP, caches, data_stall,
                   fresh_data_stall, update_data_cache, StallFlag>>

Executed ==
    /\ Moves
    /\ Sent
    /\ FrontKept \/ FrontCleared
    /\ decodeStruct.op \in {"HLT", "NoOp"} => UNCHANGED PC
    /\ decodeStruct.op = "NoOp" => FrontKept
    /\ HaltFlag' = IF decodeStruct.op = "HLT" THEN 1 ELSE HaltFlag
    /\ flushed' \in {1, flushed} /\ (FrontCleared \/ UNCHANGED flushed)
    /\ instruction_stall' \in {0, instruction_stall}
    /\ update_instruction_cache' \in {0, update_instruction_cache}

\* What only this version does: nothing that was forwarded is used again, and
\* what is behind a HLT is dropped.
Resets == forward' = {} /\ (decodeStruct.op = "HLT" => FrontCleared)

(* The operations execute tells apart are told apart by name.              *)
LEMMA OperationClasses ==
  /\ "HLT" \notin WritesRd \cup Loads \cup Stores \cup Compares \cup Branches
  /\ "NoOp" \notin Operations
  BY DEF WritesRd, AluRegister, AluImmediate, Loads, Stores, Compares, Branches,
         FlagBranches, ZeroTests, Operations

(* So are the classes of operations they belong to.                        *)
LEMMA Apart ==
  /\ WritesRd \cap (Loads \cup Stores \cup Compares \cup Branches) = {}
  /\ Loads \cap (Stores \cup Compares \cup Branches) = {}
  /\ Stores \cap (Compares \cup Branches) = {} /\ Compares \cap Branches = {}
  /\ "STUR" \in Stores /\ "SUBS" \in WritesRd
  BY DEF WritesRd, Loads, Stores, Compares, Branches, AluRegister, AluImmediate, ZeroTests,
         FlagBranches

(* Every case of pipe_stage_execute that is not a stall has these effects. *)
LEMMA ExecuteEffect ==
  ASSUME ControlTypeOK, ExecuteStage
  PROVE  ExecuteStalled \/ (Executed /\ Resets)
  <1>c. /\ DOMAIN Carried = DOMAIN executeStruct
        /\ Carried.op = decodeStruct.op
        /\ Carried.Rd = decodeStruct.Rd
        /\ Carried.Rt = decodeStruct.Rt
        /\ {"op", "Rd", "Rt"} \subseteq DOMAIN Carried
    BY CarriedFields DEF ControlTypeOK
  <1>m. Executing => Moves /\ forward' = {}
    BY DEF Executing, Moves
  <1>d. CASE ExecuteStalled
    BY <1>d
  <1>1. CASE ExecuteNoOp
    BY <1>1, <1>c, <1>m DEF ExecuteNoOp, Executed, Resets, Sent, FrontKept
  <1>2. CASE ExecuteAlu
    <2>1. /\ DOMAIN executeStruct' = DOMAIN Carried
          /\ executeStruct'.op = Carried.op
          /\ executeStruct'.Rd = Carried.Rd
          /\ executeStruct'.Rt = Carried.Rt
      BY <1>2, <1>c, Zenon DEF ExecuteAlu
    <2>2. decodeStruct.op \notin {"HLT", "NoOp"}
      BY <1>2, OperationClasses DEF ExecuteAlu, Operations
    <2> QED BY <1>2, <1>c, <1>m, <2>1, <2>2 DEF ExecuteAlu, Executed, Resets, Sent, FrontKept
  <1>3. CASE ExecuteCompare
    <2>1. /\ DOMAIN executeStruct' = DOMAIN Carried
          /\ executeStruct'.op = Carried.op
          /\ executeStruct'.Rd = Carried.Rd
          /\ executeStruct'.Rt = Carried.Rt
      BY <1>3, <1>c, Zenon DEF ExecuteCompare
    <2>2. decodeStruct.op \notin {"HLT", "NoOp"}
      BY <1>3, OperationClasses DEF ExecuteCompare, Operations
    <2> QED BY <1>3, <1>c, <1>m, <2>1, <2>2 DEF ExecuteCompare, Executed, Resets, Sent, FrontKept
  <1>4. CASE ExecuteLoad
    <2>1. /\ DOMAIN executeStruct' = DOMAIN Carried
          /\ executeStruct'.op = Carried.op
          /\ executeStruct'.Rd = Carried.Rd
          /\ executeStruct'.Rt = Carried.Rt
      BY <1>4, <1>c, Zenon DEF ExecuteLoad
    <2>2. decodeStruct.op \notin {"HLT", "NoOp"}
      BY <1>4, OperationClasses DEF ExecuteLoad, Operations
    <2> QED BY <1>4, <1>c, <1>m, <2>1, <2>2 DEF ExecuteLoad, Executed, Resets, Sent, FrontKept
  <1>5. CASE ExecuteStore
    <2>1. /\ DOMAIN executeStruct' = DOMAIN Carried
          /\ executeStruct'.op = Carried.op
          /\ executeStruct'.Rd = Carried.Rd
          /\ executeStruct'.Rt = Carried.Rt
      BY <1>5, <1>c, Zenon DEF ExecuteStore
    <2>2. decodeStruct.op \notin {"HLT", "NoOp"}
      BY <1>5, OperationClasses DEF ExecuteStore, Operations
    <2> QED BY <1>5, <1>c, <1>m, <2>1, <2>2 DEF ExecuteStore, Executed, Resets, Sent, FrontKept
  <1>6. CASE ExecuteHalt
    BY <1>6, <1>c, <1>m, ClearedFields DEF ExecuteHalt, HaltUntouched, Executed, Resets, Sent, FrontCleared
  <1>7. CASE ExecuteBranch
    <2>2. decodeStruct.op \notin {"HLT", "NoOp"}
      BY <1>7, OperationClasses DEF ExecuteBranch, Operations
    <2>3. Sent
      BY <1>7, <1>c DEF ExecuteBranch, Sent
    <2>4. (FrontKept /\ UNCHANGED flushed) \/ FrontCleared
      BY <1>7, ClearedFields DEF ExecuteBranch, FrontKept, FrontCleared
    <2> QED BY <1>7, <1>m, <2>2, <2>3, <2>4 DEF ExecuteBranch, Executed, Resets
  <1> QED BY <1>d, <1>1, <1>2, <1>3, <1>4, <1>5, <1>6, <1>7 DEF ExecuteStage

-----------------------------------------------------------------------------
(* What memory does to the control state.                                  *)

Remembered ==
    /\ memoryStruct'.op = executeStruct.op
    /\ memoryStruct'.Rd = executeStruct.Rd
    /\ memoryStruct'.Rt = executeStruct.Rt

Forgotten == memoryStruct'.op = "NoOp" /\ memoryStruct'.Rd = 0 /\ memoryStruct'.Rt = 0

MemoryKept ==
    UNCHANGED <<program, PC, statVars, fetchStruct, decodeStruct, executeStruct,
                data_stall, instruction_stall, fresh_data_stall,
                update_instruction_cache, HaltFlag, flushed>>

Passed ==
    /\ stage = "mem" /\ stage' = "execute"
    /\ MemoryKept
    /\ DOMAIN memoryStruct' = {"op", "Rd", "Rt", "RdVal", "RtVal", "cmpResult"}
    /\ IF executeStruct.op \in Loads /\ StallFlag = 1 THEN Forgotten ELSE Remembered
    /\ IF executeStruct.op \notin Loads THEN StallFlag' = StallFlag
       ELSE IF StallFlag = 1 THEN StallFlag' = 0
       ELSE StallFlag' \in Flag
    /\ update_data_cache' = IF executeStruct.op \in {"STUR", "LDUR"} THEN 0
                                                                    ELSE update_data_cache
    /\ forward' \subseteq forward \cup Matching(executeStruct.Rd)

(* An access that does not wait for the data cache, and every instruction  *)
(* that is no access, has these effects on the control state.              *)
LEMMA MemoryEffect ==
  ASSUME ControlTypeOK, MemoryStage
  PROVE  MemMiss \/ Passed
  <1>f. /\ DOMAIN Latched = {"op", "Rd", "Rt", "RdVal", "RtVal", "cmpResult"}
        /\ Latched.op = executeStruct.op
        /\ Latched.Rd = executeStruct.Rd
        /\ Latched.Rt = executeStruct.Rt
    BY LatchedFields
  <1>g. CheckDependency => forward' \subseteq forward \cup Matching(executeStruct.Rd)
    BY DEF CheckDependency, Forward
  <1>1. CASE MemMiss
    BY <1>1
  <1>2. CASE MemLoad
    <2> DEFINE m == [Latched EXCEPT !.RtVal = LoadedValue]
    <2>1. /\ DOMAIN m = {"op", "Rd", "Rt", "RdVal", "RtVal", "cmpResult"}
          /\ m.op = executeStruct.op
          /\ m.Rd = executeStruct.Rd
          /\ m.Rt = executeStruct.Rt
      BY LatchedFields
    <2>2. /\ DOMAIN clearMemoryStruct(m) = DOMAIN m
          /\ clearMemoryStruct(m).op = "NoOp"
          /\ clearMemoryStruct(m).Rd = 0 /\ clearMemoryStruct(m).Rt = 0
      BY <2>1, ClearedMemory
    <2>3. check_stall(m)
      BY <1>2 DEF MemLoad
    <2> HIDE DEF m
    <2>4. /\ DOMAIN memoryStruct' = {"op", "Rd", "Rt", "RdVal", "RtVal", "cmpResult"}
          /\ IF StallFlag = 1 THEN Forgotten ELSE Remembered
          /\ IF StallFlag = 1 THEN StallFlag' = 0 ELSE StallFlag' \in Flag
      BY <2>1, <2>2, <2>3 DEF check_stall, Forgotten, Remembered, Flag
    <2>5. /\ executeStruct.op \in Loads
          /\ executeStruct.op # "STUR"
          /\ update_data_cache' = IF executeStruct.op = "LDUR" THEN 0
                                                              ELSE update_data_cache
      BY <1>2 DEF MemLoad, Loads
    <2>6. stage = "mem" /\ stage' = "execute" /\ MemoryKept /\ CheckDependency
      BY <1>2 DEF MemLoad, MemoryKept
    <2> QED BY <1>g, <2>4, <2>5, <2>6 DEF Passed
  <1>3. CASE MemStore
    BY <1>3, <1>f, <1>g
       DEF MemStore, Passed, MemoryKept, Remembered, controlVars, Loads
  <1>4. CASE MemStoreNarrow
    BY <1>4, <1>f, <1>g
       DEF MemStoreNarrow, Passed, MemoryKept, Remembered, controlVars, stallVars, Loads
  <1>5. CASE MemPass
    BY <1>5, <1>f, <1>g
       DEF MemPass, Passed, MemoryKept, Remembered, controlVars, stallVars, Loads, Stores
  <1> QED BY <1>1, <1>2, <1>3, <1>4, <1>5 DEF MemoryStage

-----------------------------------------------------------------------------
(* Types of the control state, and the marks of a data miss.               *)

WaitStages ==
    /\ stage = "stall" => data_stall > 0
    /\ fresh_data_stall = 1 => stage \in {"begin", "stall", "wb", "miss"}
    /\ update_data_cache = 1 => stage \in {"begin", "wb", "mem"}
    /\ stage # "begin" => stat_cycles < MaxCycles

ControlInv == ControlTypeOK /\ WaitStages /\ MissIsReplayed

(* The word 0 is an instruction word.                                      *)
LEMMA EmptyWord == IsInstruction(ZeroWord)
  <1>1. 0 \in Long /\ 0 \in Regs /\ 0 \in 0 .. 31
    BY Inclusions, PipelineAssumption
  <1>2. ZeroWord.op = "NONE" /\ \A op \in OperationNames : Immediate(ZeroWord, op) = 0
    BY DEF ZeroWord, Immediate, Keepers
  <1>3. "MOVZ" \in OperationNames
    BY DEF OperationNames, Operations, WritesRd
  <1>4. ZeroWord.op \in Opcodes /\ {ZeroWord.Rd, ZeroWord.Rn, ZeroWord.Rm} \subseteq {0}
    BY DEF ZeroWord, Opcodes, Keepers
  <1> QED BY <1>1, <1>2, <1>3, <1>4 DEF IsInstruction

(* pipe_init and the initial values of the globals satisfy the control     *)
(* invariant.                                                              *)
LEMMA ControlInit == Init => ControlInv
  <1> SUFFICES ASSUME Init PROVE ControlInv
    OBVIOUS
  <1>1. ControlTypeOK
    BY EmptyWord, PipelineAssumption
       DEF Init, ControlTypeOK, Stages, Flag, Fields, EmptyFetch,
           OperationNames, FieldValues
  <1>2. WaitStages /\ MissIsReplayed
    BY PipelineAssumption DEF Init, WaitStages, MissIsReplayed
  <1> QED BY <1>1, <1>2 DEF ControlInv

(* What the program holds at an address is an instruction word.            *)
LEMMA InstructionsAreWords ==
  ASSUME program \in Programs, NEW a
  PROVE  IsInstruction(InstructionAt(a))
  BY EmptyWord, PipelineAssumption DEF InstructionAt

(* Whatever the word, decode leaves an operation and register fields.      *)
LEMMA DecodedFields ==
  ASSUME NEW w, IsInstruction(w)
  PROVE  /\ w.op \notin Keepers => OperationOf(w) \in OperationNames
         /\ RdField(w) \in FieldValues
         /\ RnField(w) \in FieldValues
         /\ RmField(w) \in FieldValues
         /\ RtField(w) \in FieldValues
  <1>0. w.op \in Opcodes /\ {w.Rd, w.Rn, w.Rm} \subseteq 0 .. 31
    BY DEF IsInstruction
  <1>1. w.op \notin Keepers => OperationOf(w) \in OperationNames
    BY <1>0 DEF OperationOf, OperationNames, Opcodes, Operations, Compares, Keepers
  <1>2. /\ RdField(w) \in {w.Rd, BlankRd}
        /\ RnField(w) \in {w.Rn, Blank}
        /\ RmField(w) \in {w.Rm, Blank, BlankRd}
        /\ RtField(w) \in {w.Rd, Blank}
    BY DEF RdField, RnField, RmField, RtField
  <1> QED BY <1>0, <1>1, <1>2 DEF FieldValues

(* An instruction that passes memory keeps the control invariant, ...      *)
LEMMA PassedKeepsControl ==
  ASSUME ControlInv, Passed
  PROVE  ControlInv'
  <1> USE PipelineAssumption
  <1> USE DEF ControlInv, WaitStages, MissIsReplayed
  <1>1. memoryStruct'.op \in OperationNames
        /\ {memoryStruct'.Rd, memoryStruct'.Rt} \subseteq FieldValues
    BY DEF Passed, Forgotten, Remembered, ControlTypeOK, OperationNames, FieldValues
  <1>2. forward' \subseteq Fields
    BY DEF Passed, Matching, ControlTypeOK
  <1> QED BY <1>1, <1>2
          DEF Passed, MemoryKept, ControlTypeOK, Stages, Flag, statVars

(* ... and so does one that execute sends on.                              *)
LEMMA ExecutedKeepsControl ==
  ASSUME ControlInv, Executed
  PROVE  ControlInv'
  <1> USE PipelineAssumption
  <1> USE DEF ControlInv, WaitStages, MissIsReplayed
  <1>1. /\ DOMAIN executeStruct' = DOMAIN executeStruct
        /\ executeStruct'.op \in OperationNames
        /\ {executeStruct'.Rd, executeStruct'.Rt} \subseteq FieldValues
    BY DEF Executed, Sent, ControlTypeOK
  <1>2. /\ IsInstruction(fetchStruct'.word)
        /\ DOMAIN decodeStruct' = DOMAIN decodeStruct
        /\ decodeStruct'.op \in OperationNames
        /\ {decodeStruct'.Rd, decodeStruct'.Rn, decodeStruct'.Rm, decodeStruct'.Rt}
               \subseteq FieldValues
    <2>1. CASE FrontKept
      BY <2>1 DEF FrontKept, ControlTypeOK
    <2>2. CASE FrontCleared
      BY <2>2, EmptyWord DEF FrontCleared, EmptyFetch, OperationNames, FieldValues
    <2> QED BY <2>1, <2>2 DEF Executed
  <1>3. /\ instruction_stall' \in Int /\ instruction_stall' <= MissCycles + 1
        /\ {update_instruction_cache', HaltFlag', flushed'} \subseteq Flag
    BY DEF Executed, ControlTypeOK, Flag
  <1> QED BY <1>1, <1>2, <1>3
          DEF Executed, Moves, ControlTypeOK, Stages, statVars

(* No stage and no stall cycle breaks the control invariant.               *)
LEMMA ControlStep ==
  ASSUME ControlInv, [Next]_vars
  PROVE  ControlInv'
  <1> USE PipelineAssumption
  <1> USE DEF ControlInv, WaitStages, MissIsReplayed
  <1>t. ControlTypeOK
    OBVIOUS
  <1>1. CASE BeginCycle
    BY <1>1 DEF BeginCycle, Waiting, ControlTypeOK, Stages, Flag, vars, stallVars,
                latches, forwardVars
  <1>2. CASE StallCycle
    BY <1>2 DEF StallCycle, CountInstructionStall, EndCycle, ControlTypeOK, Stages,
                Flag, latches, forwardVars, controlVars
  <1>3. CASE pipe_stage_wb
    <2>1. forward' \subseteq Fields
      BY <1>3 DEF pipe_stage_wb, Forward, Matching, ControlTypeOK
    <2>2. stat_inst_retire' \in Int /\ RUN_BIT' \in Flag
      BY <1>3 DEF pipe_stage_wb, ControlTypeOK, Flag
    <2>3. LatchesStay
      BY <1>3, WriteBackMovesNothing
    <2> QED BY <1>3, <2>1, <2>2, <2>3
            DEF pipe_stage_wb, LatchesStay, ControlTypeOK, Stages, Flag, stallVars,
                controlVars
  <1>4. CASE SkipWriteBack
    BY <1>4 DEF SkipWriteBack, ControlTypeOK, Stages, Flag, latches, statVars,
                forwardVars, controlVars
  <1>5. CASE MemMiss
    <2>1. /\ DOMAIN memoryStruct' = {"op", "Rd", "Rt", "RdVal", "RtVal", "cmpResult"}
          /\ memoryStruct'.op = executeStruct.op
          /\ memoryStruct'.Rd = executeStruct.Rd
          /\ memoryStruct'.Rt = executeStruct.Rt
      BY <1>5, LatchedFields DEF MemMiss
    <2>2. /\ instruction_stall' \in {instruction_stall, MissCycles + 1}
          /\ update_instruction_cache' \in {0, update_instruction_cache}
          /\ fresh_data_stall' = 1
      BY <1>5 DEF MemMiss, update_PC, MovePC
    <2>3. executeStruct.op \in {"STUR", "LDUR"}
      BY <1>5 DEF MemMiss, DataMiss
    <2> QED BY <1>5, <2>1, <2>2, <2>3
            DEF MemMiss, ControlTypeOK, Stages, Flag, statVars, forwardVars, controlVars
  <1>6. CASE Passed
    BY <1>6, PassedKeepsControl
  <1>7. CASE MissCycle
    BY <1>7 DEF MissCycle, CountInstructionStall, EndCycle, ControlTypeOK, Stages,
                Flag, latches, forwardVars, controlVars
  <1>8. CASE ExecuteStalled
    BY <1>8 DEF ExecuteStalled, ControlTypeOK, Stages, Flag, statVars, latches,
                forwardVars, stallVars, controlVars
  <1>9. CASE Executed
    BY <1>9, ExecutedKeepsControl
  <1>10. CASE pipe_stage_decode
    <2>1. /\ DOMAIN decodeStruct' = DOMAIN decodeStruct
          /\ decodeStruct'.op \in OperationNames
          /\ {decodeStruct'.Rd, decodeStruct'.Rn, decodeStruct'.Rm, decodeStruct'.Rt}
                 \subseteq FieldValues
      <3>1. CASE StallFlag = 1
        BY <1>10, <3>1 DEF pipe_stage_decode, ControlTypeOK
      <3>2. CASE StallFlag # 1
        BY <1>10, <3>2, DecodedFields DEF pipe_stage_decode, ControlTypeOK
      <3> QED BY <3>1, <3>2
    <2> QED BY <1>10, <2>1
            DEF pipe_stage_decode, ControlTypeOK, Stages, statVars, forwardVars,
                stallVars, controlVars
  <1>11. CASE FetchStallCycle
    BY <1>11 DEF FetchStallCycle, CountInstructionStall, EndCycle, ControlTypeOK,
                 Stages, Flag, latches, forwardVars, controlVars
  <1>12. CASE FetchNothing
    BY <1>12 DEF FetchNothing, FetchTurn, EndCycle, ControlTypeOK, Stages, Flag,
                 forwardVars
  <1>13. CASE FetchHit
    <2>1. IsInstruction(fetchStruct'.word)
      BY <1>13, InstructionsAreWords DEF FetchHit, ControlTypeOK
    <2> QED BY <1>13, <2>1
            DEF FetchHit, Fetching, FetchTurn, EndCycle, ControlTypeOK, Stages, Flag,
                forwardVars
  <1>14. CASE FetchMiss
    BY <1>14 DEF FetchMiss, Fetching, FetchTurn, EndCycle, ControlTypeOK, Stages, Flag,
                 forwardVars
  <1>15. CASE UNCHANGED vars
    BY <1>15 DEF vars, ControlTypeOK, statVars, latches, forwardVars, stallVars,
                 controlVars
  <1>16. CASE MemoryStage
    BY <1>t, <1>5, <1>6, <1>16, MemoryEffect
  <1>17. CASE ExecuteStage
    BY <1>t, <1>8, <1>9, <1>17, ExecuteEffect
  <1> QED
    BY <1>1, <1>2, <1>3, <1>4, <1>7, <1>10, <1>11, <1>12, <1>13, <1>14, <1>15, <1>16, <1>17
       DEF Next, FetchStage, Halted

(* The control invariant holds in every reachable state.                   *)
THEOREM ControlInvariant == Spec => []ControlInv
  <1>1. Init => ControlInv
    BY ControlInit
  <1>2. ControlInv /\ [Next]_vars => ControlInv'
    BY ControlStep
  <1> QED BY <1>1, <1>2, PTL DEF Spec

(* pipe.c: the control state keeps its types.                              *)
THEOREM ControlTypesHold == Spec => []ControlTypeOK
  <1>1. ControlInv => ControlTypeOK
    BY DEF ControlInv
  <1> QED BY <1>1, ControlInvariant, PTL

(* pipe_stage_mem: a data miss freezes the access that missed until its    *)
(* retry.                                                                  *)
THEOREM MissesAreReplayed == Spec => []MissIsReplayed
  <1>1. ControlInv => MissIsReplayed
    BY DEF ControlInv
  <1> QED BY <1>1, ControlInvariant, PTL

-----------------------------------------------------------------------------
(* The halt.                                                               *)

\* HaltDrains says that HLT is in execute or in memory while the machine
\* runs; for the step that clears RUN_BIT it matters where it is when memory
\* and execute are about to overwrite those latches.
HaltInv ==
    /\ HaltDrains
    /\ StopsOnlyByHalt
    /\ "HLT" \in {executeStruct.op, memoryStruct.op} => HaltFlag = 1
    /\ HaltFlag = 1 /\ RUN_BIT = 1 =>
           /\ stage = "mem" => executeStruct.op = "HLT"
           /\ stage = "execute" => memoryStruct.op = "HLT"

(* No HLT has been executed when the simulator starts.                     *)
LEMMA HaltInit == Init => HaltInv
  BY DEF Init, HaltInv, HaltDrains, StopsOnlyByHalt

(* Every stage keeps the halt invariant: a HLT stays ahead of an empty     *)
(* pipeline until write-back has seen it.                                  *)
LEMMA HaltStep ==
  ASSUME ControlInv, HaltInv, [Next]_vars
  PROVE  HaltInv'
  <1> USE DEF HaltInv, HaltDrains, StopsOnlyByHalt
  <1>t. ControlTypeOK /\ WaitStages /\ MissIsReplayed
    BY DEF ControlInv
  <1>1. CASE BeginCycle
    BY <1>1 DEF BeginCycle, stallVars, latches
  <1>2. CASE StallCycle
    BY <1>t, <1>2 DEF StallCycle, EndCycle, WaitStages, latches, controlVars
  <1>3. CASE pipe_stage_wb
    BY <1>t, <1>3, WriteBackMovesNothing
       DEF pipe_stage_wb, LatchesStay, ControlTypeOK, Flag, stallVars, controlVars
  <1>4. CASE SkipWriteBack
    BY <1>t, <1>4 DEF SkipWriteBack, MissIsReplayed, latches, statVars, controlVars
  <1>5. CASE MemMiss
    <2>1. executeStruct.op \in {"STUR", "LDUR"}
      BY <1>5 DEF MemMiss, DataMiss
    <2>2. memoryStruct'.op = executeStruct.op
      BY <1>5, LatchedFields DEF MemMiss
    <2> QED BY <1>t, <1>5, <2>1, <2>2
            DEF MemMiss, statVars, controlVars, ControlTypeOK, Flag
  <1>6. CASE Passed
    <2>1. HaltFlag = 1 => executeStruct.op \notin Loads
      BY DEF Loads
    <2>2. memoryStruct'.op \in {executeStruct.op, "NoOp"}
      BY <1>6 DEF Passed, Remembered, Forgotten
    <2> QED BY <1>6, <2>1, <2>2 DEF Passed, Remembered, MemoryKept, statVars
  <1>7. CASE MissCycle
    BY <1>7 DEF MissCycle, EndCycle, latches, controlVars
  <1>8. CASE ExecuteStalled
    BY <1>8 DEF ExecuteStalled, latches, statVars, stallVars, controlVars
  <1>9. CASE Executed /\ Resets
    <2>1. data_stall = 0
      BY <1>t, <1>9 DEF Executed, Moves, MissIsReplayed, ControlTypeOK
    <2>2. UNCHANGED <<memoryStruct, RUN_BIT, data_stall, StallFlag>>
          /\ stage = "execute" /\ stage' = "decode" /\ StallFlag = 0
      BY <1>9 DEF Executed, Moves, statVars
    <2>3. CASE decodeStruct.op = "HLT"
      BY <1>9, <2>1, <2>2, <2>3 DEF Executed, Resets, Sent, FrontCleared
    <2>4. CASE decodeStruct.op # "HLT"
      BY <1>9, <2>1, <2>2, <2>4 DEF Executed, Sent, FrontKept
    <2> QED BY <2>3, <2>4
  <1>10. CASE pipe_stage_decode
    BY <1>10 DEF pipe_stage_decode, EmptyFetch, ZeroWord, Keepers, statVars, stallVars,
                 controlVars
  <1>11. CASE FetchStallCycle
    BY <1>11 DEF FetchStallCycle, EndCycle, latches, controlVars
  <1>12. CASE FetchNothing
    BY <1>12 DEF FetchNothing, FetchTurn, EndCycle
  <1>13. CASE FetchHit
    BY <1>13 DEF FetchHit, Fetching, FetchHeld, FetchTurn, EndCycle
  <1>14. CASE FetchMiss
    BY <1>14 DEF FetchMiss, Fetching, FetchHeld, FetchTurn, EndCycle
  <1>15. CASE UNCHANGED vars
    BY <1>15 DEF vars, statVars, latches, stallVars, controlVars
  <1>16. CASE MemoryStage
    BY <1>t, <1>5, <1>6, <1>16, MemoryEffect
  <1>17. CASE ExecuteStage
    BY <1>t, <1>8, <1>9, <1>17, ExecuteEffect
  <1> QED
    BY <1>1, <1>2, <1>3, <1>4, <1>7, <1>10, <1>11, <1>12, <1>13, <1>14, <1>15, <1>16, <1>17
       DEF Next, FetchStage, Halted

(* The control and halt invariants hold in every reachable state.          *)
LEMMA HaltInvariant == Spec => [](ControlInv /\ HaltInv)
  <1>1. Init => ControlInv /\ HaltInv
    BY ControlInit, HaltInit
  <1>2. ControlInv /\ HaltInv /\ [Next]_vars => (ControlInv /\ HaltInv)'
    BY ControlStep, HaltStep
  <1> QED BY <1>1, <1>2, PTL DEF Spec

(* pipe_stage_execute: behind a HLT that was executed the pipeline is      *)
(* empty and stays so, and the HLT reaches write-back.                     *)
THEOREM TheHaltDrains == Spec => []HaltDrains
  <1>1. HaltInv => HaltDrains
    BY DEF HaltInv
  <1> QED BY <1>1, HaltInvariant, PTL

(* pipe_stage_wb clears RUN_BIT for a HLT that was executed and for        *)
(* nothing else.                                                           *)
THEOREM OnlyHaltStops == Spec => []StopsOnlyByHalt
  <1>1. HaltInv => StopsOnlyByHalt
    BY DEF HaltInv
  <1> QED BY <1>1, HaltInvariant, PTL

(* After HLT has been executed no stage moves the program counter.         *)
THEOREM PCIsFinal == Spec => HaltFreezesPC
  <1>1. ControlInv /\ HaltInv /\ [Next]_vars => [HaltFlag = 1 => UNCHANGED PC]_vars
    <2> SUFFICES ASSUME ControlInv, HaltInv, Next, HaltFlag = 1 PROVE UNCHANGED PC
      OBVIOUS
    <2>t. ControlTypeOK
      BY DEF ControlInv
    <2>h. /\ decodeStruct.op = "NoOp"
          /\ executeStruct.op \in {"HLT", "NoOp"}
      BY DEF HaltInv, HaltDrains
    <2>1. CASE MemoryStage
      <3>1. ~MemMiss
        BY <2>h DEF MemMiss, DataMiss
      <3> QED BY <2>t, <2>1, <3>1, MemoryEffect DEF Passed, MemoryKept
    <2>2. CASE ExecuteStage
      <3>1. ExecuteStalled \/ Executed
        BY <2>t, <2>2, ExecuteEffect
      <3> QED BY <2>h, <3>1 DEF Executed, ExecuteStalled
    <2>3. CASE FetchStage
      BY <2>3 DEF FetchStage, FetchStallCycle, FetchNothing, FetchTurn, FetchHit,
                  FetchMiss, Fetching, FetchHeld
    <2>4. CASE BeginCycle \/ StallCycle \/ MissCycle
      BY <2>4 DEF BeginCycle, StallCycle, MissCycle
    <2>5. CASE pipe_stage_wb \/ SkipWriteBack \/ pipe_stage_decode
      BY <2>5 DEF pipe_stage_wb, SkipWriteBack, pipe_stage_decode
    <2>6. CASE Halted
      BY <2>6 DEF Halted, vars
    <2> QED BY <2>1, <2>2, <2>3, <2>4, <2>5, <2>6 DEF Next
  <1> QED BY <1>1, HaltInvariant, PTL DEF Spec, HaltFreezesPC

(* pipe_cycle: a cycle that waits for data changes nothing but the counts  *)
(* of the wait and of the cycles.                                          *)
THEOREM WaitsAreInvisible == Spec => WaitingIsInvisible
  <1> DEFINE Seen == UNCHANGED <<REGS, flagVars, mem, latches, stat_inst_retire, PC,
                                 forwardVars, predictVars>>
  <1>1. ControlInv /\ [Next]_vars => [data_stall > 0 /\ stage # "begin" => Seen]_vars
    <2> SUFFICES ASSUME ControlInv, Next, data_stall > 0, stage # "begin" PROVE Seen
      OBVIOUS
    <2>1. stage \in {"stall", "miss"}
      BY DEF ControlInv, MissIsReplayed
    <2>2. StallCycle \/ MissCycle
      BY <2>1 DEF Next, BeginCycle, pipe_stage_wb, SkipWriteBack, MemoryStage, MemLoad,
                  MemStore, MemStoreNarrow, MemPass, MemMiss, ExecuteStage,
                  ExecuteStalled, ExecuteNoOp, ExecuteAlu, ExecuteCompare, ExecuteLoad,
                  ExecuteStore, ExecuteBranch, ExecuteHalt, Executing,
                  pipe_stage_decode, FetchStage, FetchStallCycle, FetchNothing,
                  FetchHit, FetchMiss, Fetching, FetchTurn, Halted
    <2> QED BY <2>2 DEF StallCycle, MissCycle
  <1> QED BY <1>1, ControlInvariant, PTL DEF Spec, WaitingIsInvisible

-----------------------------------------------------------------------------
(* Register fields that leave REGS come from an unlisted B.cond.           *)

\* The fields that write-back uses come through decode and execute.
Names(s) ==
    /\ s.op \in WritesRd => s.Rd \in Regs \/ (s.Rd = BlankRd /\ HasUnlistedCondition)
    /\ s.op \in Loads => s.Rt \in Regs \/ (s.Rt = Blank /\ HasUnlistedCondition)

\* A field that execute reads, of the instruction in decodeStruct.
MayRead(r) == r \in Regs \/ (r = Blank /\ InstructionAt(decodeStruct.PC).op = "COND")

\* The word in fetchStruct is the one at its address, in a bubble too: that
\* no text is at address 0 keeps a bubble apart from a B.cond.
RegisterInv ==
    /\ fetchStruct.word = InstructionAt(fetchStruct.PC)
    /\ decodeStruct.op \in ReadsRn => MayRead(decodeStruct.Rn)
    /\ decodeStruct.op \in ReadsRm => MayRead(decodeStruct.Rm)
    /\ decodeStruct.op \in ReadsRt => MayRead(decodeStruct.Rt)
    /\ Names(decodeStruct) /\ Names(executeStruct) /\ Names(memoryStruct)

(* There is no instruction at address 0.                                   *)
LEMMA NoWordAtZero ==
  ASSUME program \in Programs
  PROVE  InstructionAt(0) = ZeroWord
  <1>1. TextStart \in Nat \ {0}
    <2>1. Long \subseteq Nat
      BY Inclusions
    <2> QED BY <2>1, PipelineAssumption
  <1>2. (0 - TextStart) \div 4 + 1 \notin Nat \ {0}
    BY <1>1
  <1>3. DOMAIN program \subseteq Nat \ {0}
    BY PipelineAssumption
  <1> QED BY <1>2, <1>3 DEF InstructionAt

(* No step writes to the text region.                                      *)
LEMMA ProgramStays ==
  ASSUME [Next]_vars
  PROVE  UNCHANGED program
  BY DEF Next, BeginCycle, StallCycle, pipe_stage_wb, SkipWriteBack, MemoryStage, MemLoad,
         MemStore, MemStoreNarrow, MemPass, MemMiss, MissCycle, ExecuteStage,
         ExecuteStalled, ExecuteNoOp, ExecuteAlu, ExecuteCompare, ExecuteLoad,
         ExecuteStore, ExecuteBranch, ExecuteHalt, Executing, pipe_stage_decode,
         FetchStage, FetchStallCycle, FetchNothing, FetchHit, FetchMiss, Fetching,
         FetchTurn, Halted, vars

(* Nor to what is at an address of it.                                     *)
LEMMA TextStays ==
  ASSUME [Next]_vars
  PROVE  \A x : InstructionAt(x)' = InstructionAt(x)
  BY ProgramStays DEF InstructionAt

(* The latches pipe_init leaves name no register for use.                  *)
LEMMA RegisterInit == Init => RegisterInv
  <1> SUFFICES ASSUME Init PROVE RegisterInv
    OBVIOUS
  <1>1. fetchStruct.word = InstructionAt(fetchStruct.PC)
    BY NoWordAtZero DEF Init, EmptyFetch
  <1>2. "NoOp" \notin ReadsRn \cup ReadsRm \cup ReadsRt \cup WritesRd \cup Loads
    BY DEF ReadsRn, ReadsRm, ReadsRt, WritesRd, Loads, Stores, Compares, AluRegister,
           AluImmediate, ZeroTests
  <1> QED BY <1>1, <1>2 DEF Init, RegisterInv, Names

(* The fields that pipe_stage_decode fills from a word are registers       *)
(* wherever the operation decode settles on will use them, also when the   *)
(* word has no operation and the one before it is kept; those of a B.cond  *)
(* are blanks.                                                             *)
LEMMA UsedFieldsAreRegisters ==
  ASSUME NEW w, IsInstruction(w)
  PROVE  LET op == OperationOf(w)
         IN  /\ op \in ReadsRn => RnField(w) \in Regs
             /\ op \in ReadsRm => RmField(w) \in Regs
             /\ op \in ReadsRt \cup Loads => RtField(w) \in Regs
             /\ op \in WritesRd => RdField(w) \in Regs
             /\ w.op = "NONE" => {RdField(w), RnField(w), RmField(w), RtField(w)}
                                     \subseteq Regs
             /\ w.op = "COND" => /\ RdField(w) = BlankRd
                                 /\ {RnField(w), RmField(w), RtField(w)} = {Blank}
  <1> DEFINE op == OperationOf(w)
  <1> USE DEF ReadsRn, ReadsRm, ReadsRt, WritesRd, Loads, Stores, Compares, Branches,
              AluRegister, AluImmediate, ZeroTests, FlagBranches
  <1>0. w.op \in {"NONE", "COND"} => op = w.op
    BY DEF OperationOf
  <1> HIDE DEF op
  <1>1. /\ RnField(w) = IF op \in ZeroTests \cup FlagBranches \cup {"B", "MOVZ", "COND"}
                        THEN Blank ELSE w.Rn
        /\ RmField(w) = IF op = "STURH" THEN BlankRd
                        ELSE IF op \in AluImmediate \cup Loads \cup Stores \cup Branches
                                        \cup {"MOVZ", "COND"}
                        THEN Blank ELSE w.Rm
        /\ RtField(w) = IF op \in WritesRd \cup FlagBranches \cup {"B", "BR", "COND"}
                        THEN Blank ELSE w.Rd
        /\ RdField(w) = IF op \in Stores \cup Loads \cup Branches \cup {"COND"}
                        THEN BlankRd ELSE w.Rd
    BY DEF RnField, RmField, RtField, RdField, op
  <1>2. op \in ReadsRn => RnField(w) = w.Rn
    BY <1>1
  <1>3. op \in ReadsRm => RmField(w) = w.Rm
    BY <1>1
  <1>4. op \in ReadsRt \cup Loads => RtField(w) = w.Rd
    BY <1>1
  <1>5. op \in WritesRd => RdField(w) = w.Rd
    BY <1>1
  <1>6. op = "NONE" => /\ RdField(w) = w.Rd /\ RnField(w) = w.Rn
                       /\ RmField(w) = w.Rm /\ RtField(w) = w.Rd
    BY <1>1
  <1>7. op = "COND" => /\ RdField(w) = BlankRd
                       /\ {RnField(w), RmField(w), RtField(w)} = {Blank}
    BY <1>1
  <1>8. /\ op \in ReadsRn \cup {"NONE"} => w.Rn \in Regs
        /\ op \in ReadsRm \cup {"NONE"} => w.Rm \in Regs
        /\ op \in ReadsRt \cup Loads \cup WritesRd \cup {"NONE"} => w.Rd \in Regs
    BY DEF IsInstruction, op
  <1> HIDE DEF ReadsRn, ReadsRm, ReadsRt, WritesRd, Loads, Stores, Compares, Branches,
              AluRegister, AluImmediate, ZeroTests, FlagBranches
  <1> QED BY <1>0, <1>2, <1>3, <1>4, <1>5, <1>6, <1>7, <1>8 DEF op

(* Memory and execute hand an instruction on with its fields, or leave a   *)
(* bubble.                                                                 *)
LEMMA LatchesKeepNames ==
  ASSUME ControlTypeOK, RegisterInv, Passed \/ Executed
  PROVE  RegisterInv'
  <1> USE DEF RegisterInv, Names
  <1>b. "NoOp" \notin ReadsRn \cup ReadsRm \cup ReadsRt \cup WritesRd \cup Loads
    BY DEF ReadsRn, ReadsRm, ReadsRt, WritesRd, Loads, Stores, Compares, AluRegister,
           AluImmediate, ZeroTests
  <1>p. /\ UNCHANGED program
        /\ HasUnlistedCondition' <=> HasUnlistedCondition
        /\ \A x : InstructionAt(x)' = InstructionAt(x)
    BY DEF Passed, MemoryKept, Executed, Moves, HasUnlistedCondition, InstructionAt
  <1>1. CASE Passed
    <2>1. UNCHANGED <<fetchStruct, decodeStruct, executeStruct>> /\ (Remembered \/ Forgotten)
      BY <1>1 DEF Passed, MemoryKept
    <2> QED BY <1>b, <1>p, <2>1 DEF Remembered, Forgotten, MayRead
  <1>2. CASE Executed
    <2>1. UNCHANGED memoryStruct
      BY <1>2 DEF Executed, Moves
    <2>2. fetchStruct'.word = InstructionAt(fetchStruct'.PC)
      BY <1>2, NoWordAtZero
         DEF Executed, FrontKept, FrontCleared, EmptyFetch, ControlTypeOK
    <2>3. /\ decodeStruct'.op \in ReadsRn => MayRead(decodeStruct.Rn)'
          /\ decodeStruct'.op \in ReadsRm => MayRead(decodeStruct.Rm)'
          /\ decodeStruct'.op \in ReadsRt => MayRead(decodeStruct.Rt)'
          /\ Names(decodeStruct)'
      <3>1. CASE FrontKept
        BY <1>p, <3>1 DEF FrontKept, MayRead
      <3>2. CASE FrontCleared
        BY <1>b, <3>2 DEF FrontCleared
      <3> QED BY <1>2, <3>1, <3>2 DEF Executed
    <2>4. Names(executeStruct)'
      BY <1>2, <1>p DEF Executed, Sent
    <2> QED BY <1>p, <2>1, <2>2, <2>3, <2>4
  <1> QED BY <1>1, <1>2

(* Every stage keeps the used register fields of each latch in bounds, but *)
(* for those a B.cond leaves.                                              *)
LEMMA RegisterStep ==
  ASSUME ControlInv, RegisterInv, [Next]_vars
  PROVE  RegisterInv'
  <1> USE DEF RegisterInv, Names
  <1>t. ControlTypeOK
    BY DEF ControlInv
  <1>p. /\ HasUnlistedCondition' <=> HasUnlistedCondition
        /\ \A x : InstructionAt(x)' = InstructionAt(x)
    BY ProgramStays, TextStays DEF HasUnlistedCondition
  <1>1. CASE LatchesStay
    BY <1>p, <1>1 DEF LatchesStay, MayRead
  <1>2. CASE MemMiss
    <2>1. /\ memoryStruct'.op = executeStruct.op
          /\ memoryStruct'.Rd = executeStruct.Rd
          /\ memoryStruct'.Rt = executeStruct.Rt
      BY <1>2, LatchedFields DEF MemMiss
    <2> QED BY <1>2, <1>p, <2>1 DEF MemMiss, MayRead
  <1>3. CASE Passed \/ Executed
    BY <1>t, <1>3, LatchesKeepNames
  <1>4. CASE UNCHANGED latches
    BY <1>p, <1>4 DEF latches, MayRead
  <1>5. CASE pipe_stage_decode
    <2>1. CASE StallFlag = 1
      BY <1>4, <1>5, <2>1 DEF pipe_stage_decode, latches
    <2>2. CASE StallFlag # 1
      <3> DEFINE w == fetchStruct.word
      <3>1. /\ decodeStruct'.op = IF w.op \in Keepers THEN decodeStruct.op ELSE OperationOf(w)
            /\ decodeStruct'.Rd = RdField(w) /\ decodeStruct'.Rn = RnField(w)
            /\ decodeStruct'.Rm = RmField(w) /\ decodeStruct'.Rt = RtField(w)
            /\ decodeStruct'.PC = fetchStruct.PC
            /\ UNCHANGED <<fetchStruct, executeStruct, memoryStruct>>
        BY <1>5, <2>2 DEF pipe_stage_decode
      <3>2. IsInstruction(w) /\ program \in Programs
        BY <1>t DEF ControlTypeOK
      <3>3. w = InstructionAt(fetchStruct.PC)
        OBVIOUS
      <3> HIDE DEF w
      <3>4. w.op = "COND" => HasUnlistedCondition
        BY <3>3 DEF InstructionAt, HasUnlistedCondition, ZeroWord
      <3>5. /\ decodeStruct'.op \in ReadsRn => MayRead(decodeStruct.Rn)'
            /\ decodeStruct'.op \in ReadsRm => MayRead(decodeStruct.Rm)'
            /\ decodeStruct'.op \in ReadsRt => MayRead(decodeStruct.Rt)'
        BY <1>p, <3>1, <3>2, <3>3, UsedFieldsAreRegisters DEF MayRead, Keepers
      <3>6. Names(decodeStruct)'
        BY <1>p, <3>1, <3>2, <3>4, UsedFieldsAreRegisters DEF Keepers
      <3> QED BY <1>p, <3>1, <3>3, <3>5, <3>6 DEF w
    <2> QED BY <2>1, <2>2
  <1>6. CASE FetchStage
    <2>1. FetchHit \/ UNCHANGED latches
      BY <1>6 DEF FetchStage, FetchStallCycle, FetchNothing, FetchMiss, Fetching, FetchTurn,
                  latches
    <2>2. CASE FetchHit
      <3>1. /\ fetchStruct' = [PC |-> PC, word |-> InstructionAt(PC)]
            /\ UNCHANGED <<decodeStruct, executeStruct, memoryStruct>>
        BY <2>2 DEF FetchHit, Fetching, FetchTurn
      <3> QED BY <1>p, <3>1 DEF MayRead
    <2> QED BY <1>4, <2>1, <2>2
  <1>7. CASE MemoryStage
    BY <1>t, <1>2, <1>3, <1>7, MemoryEffect
  <1>8. CASE ExecuteStage
    <2>1. ExecuteStalled => UNCHANGED latches
      BY DEF ExecuteStalled
    <2> QED BY <1>t, <1>3, <1>4, <1>8, <2>1, ExecuteEffect
  <1>9. CASE pipe_stage_wb
    BY <1>t, <1>1, <1>9, WriteBackMovesNothing
  <1> QED
    BY <1>4, <1>5, <1>6, <1>7, <1>8, <1>9
       DEF Next, BeginCycle, StallCycle, SkipWriteBack, MissCycle, Halted, vars

(* What the invariant says of the indexes.                                 *)
LEMMA IndexesNamed ==
  ASSUME RegisterInv
  PROVE  OutOfBoundsOnlyByBCond
  <1>1. Regs \subseteq 0 .. 31
    BY PipelineAssumption
  <1>2. \A f \in ReadFields(decodeStruct.op) : MayRead(decodeStruct[f])
    BY DEF RegisterInv, ReadFields, Fields
  <1> QED BY <1>1, <1>2 DEF RegisterInv, OutOfBoundsOnlyByBCond, MayRead, Names

(* pipe_stage_execute and pipe_stage_wb index REGS by the register fields  *)
(* of a latch only where decode has put a register number there, unless    *)
(* the word is a B.cond without one of the six conditions.                 *)
THEOREM OnlyBCondLeavesTheRegisterFile == Spec => []OutOfBoundsOnlyByBCond
  <1>1. Init => ControlInv /\ RegisterInv
    BY ControlInit, RegisterInit
  <1>2. ControlInv /\ RegisterInv /\ [Next]_vars => (ControlInv /\ RegisterInv)'
    BY ControlStep, RegisterStep
  <1>3. RegisterInv => OutOfBoundsOnlyByBCond
    BY IndexesNamed
  <1> QED BY <1>1, <1>2, <1>3, PTL DEF Spec

-----------------------------------------------------------------------------
(* Every instruction that execute sends on is retired exactly once.        *)

\* The count holds step by step as long as it is a load that a load-use
\* stall holds back: nothing else passes memory twice.
RetireInv ==
    /\ RetireOnce
    /\ executed \in Int /\ corrected \in Int
    /\ StallFlag = 1 => executeStruct.op \in Loads

(* Nothing is executed, retired or in flight when the simulator starts.    *)
LEMMA RetireInit == HInit => RetireInv
  BY DEF HInit, Init, RetireInv, RetireOnce, InFlight, InExecute, InMemory

(* Every stage keeps the account of the instructions in flight: what       *)
(* execute sends on is retired or still in one of two latches.             *)
LEMMA RetireStep ==
  ASSUME ControlInv, RetireInv, [HNext]_historyVars
  PROVE  RetireInv'
  <1> USE DEF RetireInv, RetireOnce, InFlight, InExecute, InMemory
  <1>t. ControlTypeOK /\ WaitStages /\ MissIsReplayed
    BY DEF ControlInv
  <1>i. /\ stat_inst_retire \in Int
        /\ {StallFlag, fresh_data_stall} \subseteq {0, 1}
    BY <1>t DEF ControlTypeOK, Flag
  <1>n. "NoOp" \notin Loads
    BY DEF Loads
  <1>u. CASE UNCHANGED historyVars
    BY <1>u DEF historyVars, vars, statVars, latches, stallVars, controlVars
  <1>s. CASE HNext
    <2>h. /\ executed' = executed + (IF stage = "execute" /\ StallFlag = 0
                                       /\ decodeStruct.op # "NoOp" THEN 1 ELSE 0)
          /\ corrected' = corrected + (IF stage = "begin" /\ RUN_BIT = 1 /\ ExtraRetirement
                                        THEN 1 ELSE 0)
          /\ Next
      BY <1>s DEF HNext
    <2>1. CASE BeginCycle
      BY <1>i, <2>h, <2>1 DEF BeginCycle, latches, stallVars
    <2>2. CASE StallCycle \/ MissCycle \/ FetchStallCycle
      <3>1. /\ UNCHANGED <<executeStruct, memoryStruct, StallFlag, fresh_data_stall,
                           stat_inst_retire>>
            /\ stage \in {"stall", "miss", "fetch"} /\ stage' = "begin"
        BY <2>2 DEF StallCycle, MissCycle, FetchStallCycle, EndCycle, latches, controlVars
      <3> QED BY <1>i, <2>h, <3>1
    <2>3. CASE pipe_stage_wb
      BY <1>t, <1>i, <2>h, <2>3, WriteBackMovesNothing
         DEF pipe_stage_wb, LatchesStay, stallVars, controlVars
    <2>4. CASE SkipWriteBack
      BY <1>i, <2>h, <2>4 DEF SkipWriteBack, latches, statVars, controlVars
    <2>5. CASE MemMiss
      <3>1. fresh_data_stall' = 1
        BY <2>5 DEF MemMiss, update_PC, MovePC
      <3> QED BY <1>i, <2>h, <2>5, <3>1 DEF MemMiss, statVars, controlVars
    <2>6. CASE Passed
      <3>1. UNCHANGED <<executeStruct, fresh_data_stall, stat_inst_retire>>
            /\ stage = "mem" /\ stage' = "execute"
        BY <2>6 DEF Passed, MemoryKept, statVars
      <3>2. fresh_data_stall = 0
        BY <1>i, <1>t, <3>1 DEF WaitStages
      <3>3. CASE StallFlag = 1
        <4>1. StallFlag' = 0 /\ memoryStruct'.op = "NoOp"
          BY <2>6, <3>3 DEF Passed, Forgotten
        <4> QED BY <1>i, <2>h, <3>1, <3>2, <3>3, <4>1
      <3>4. CASE StallFlag = 0
        <4>1. /\ memoryStruct'.op = executeStruct.op
              /\ StallFlag' = 1 => executeStruct.op \in Loads
          BY <2>6, <3>4 DEF Passed, Remembered
        <4> QED BY <1>i, <2>h, <3>1, <3>2, <3>4, <4>1
      <3> QED BY <1>i, <3>3, <3>4
    <2>7. CASE ExecuteStalled
      BY <1>i, <2>h, <2>7 DEF ExecuteStalled, statVars, latches, stallVars, controlVars
    <2>8. CASE Executed
      BY <1>i, <1>n, <2>h, <2>8 DEF Executed, Moves, Sent, statVars
    <2>9. CASE pipe_stage_decode
      BY <1>i, <2>h, <2>9 DEF pipe_stage_decode, statVars, stallVars, controlVars
    <2>10. CASE FetchNothing \/ FetchHit \/ FetchMiss
      <3>1. /\ UNCHANGED <<executeStruct, memoryStruct, StallFlag, fresh_data_stall,
                           stat_inst_retire>>
            /\ stage = "fetch" /\ stage' = "begin"
        BY <2>10 DEF FetchNothing, FetchHit, FetchMiss, Fetching, FetchTurn, EndCycle
      <3> QED BY <1>i, <2>h, <3>1
    <2>11. CASE Halted
      BY <1>i, <2>h, <2>11 DEF Halted, vars, statVars, latches, stallVars, controlVars
    <2>12. CASE MemoryStage
      BY <1>t, <2>5, <2>6, <2>12, MemoryEffect
    <2>13. CASE ExecuteStage
      BY <1>t, <2>7, <2>8, <2>13, ExecuteEffect
    <2> QED BY <2>h, <2>1, <2>2, <2>3, <2>4, <2>9, <2>10, <2>11, <2>12, <2>13
            DEF Next, FetchStage
  <1> QED BY <1>u, <1>s

(* stat_inst_retire counts each instruction that execute sends on exactly  *)
(* once, through load-use stalls, data misses and their retries, flushes   *)
(* and the halt, but for the corrections made by hand.                     *)
THEOREM EveryInstructionRetiresOnce == HSpec => []RetireOnce
  <1>1. HInit => ControlInv /\ RetireInv
    BY ControlInit, RetireInit DEF HInit
  <1>2. [HNext]_historyVars => [Next]_vars
    BY DEF HNext, historyVars
  <1>3. ControlInv /\ RetireInv /\ [HNext]_historyVars => (ControlInv /\ RetireInv)'
    BY <1>2, ControlStep, RetireStep
  <1>4. RetireInv => RetireOnce
    BY DEF RetireInv
  <1> QED BY <1>1, <1>3, <1>4, PTL DEF HSpec
-----------------------------------------------------------------------------
(* Predictions stay with their instructions.                               *)

\* A prediction of `not taken' leads to the instruction behind the one at a.
Foretells(prediction, a) ==
    prediction.pred_taken = 1 \/ prediction.pred_address = ToLong(a + 4)

TravelInv ==
    /\ ~Bubble(fetchStruct) =>
           /\ fetchStruct.word = InstructionAt(fetchStruct.PC)
           /\ Foretells(IFtoID_BP, fetchStruct.PC)
    /\ ~Bubble(decodeStruct) => Foretells(IDtoEX_BP, decodeStruct.PC)

(* pipe_init leaves nothing in the latches of the front end.               *)
LEMMA TravelInit == Init => TravelInv
  BY DEF Init, TravelInv, Bubble, EmptyFetch

(* Each stage that fills a latch of the front end sets its prediction, and *)
(* no other stage touches either.                                          *)
LEMMA TravelStep ==
  ASSUME ControlInv, TravelInv, [Next]_vars
  PROVE  TravelInv'
  <1> USE DEF TravelInv, Bubble
  <1>t. ControlTypeOK
    BY DEF ControlInv
  <1>a. \A x : InstructionAt(x)' = InstructionAt(x)
    BY TextStays
  <1>1. CASE UNCHANGED <<fetchStruct, decodeStruct, IFtoID_BP, IDtoEX_BP>>
    BY <1>1, <1>a DEF Foretells
  <1>2. CASE MemoryStage
    BY <1>1, <1>2 DEF MemoryStage, MemLoad, MemStore, MemStoreNarrow, MemPass, MemMiss,
                      predictVars
  <1>3. CASE ExecuteStage
    <2>1. CASE ExecuteStalled
      BY <1>1, <2>1 DEF ExecuteStalled, latches, predictVars
    <2>2. CASE Executed
      BY <1>a, <2>2 DEF Executed, Moves, FrontKept, FrontCleared, EmptyFetch, Foretells
    <2> QED BY <1>t, <1>3, <2>1, <2>2, ExecuteEffect
  <1>4. CASE pipe_stage_decode
    <2>1. CASE StallFlag = 1
      BY <1>1, <1>4, <2>1 DEF pipe_stage_decode
    <2>2. CASE StallFlag # 1
      <3>1. /\ decodeStruct'.PC = fetchStruct.PC /\ IDtoEX_BP' = IFtoID_BP
            /\ UNCHANGED <<fetchStruct, IFtoID_BP>>
        BY <1>4, <2>2 DEF pipe_stage_decode
      <3> QED BY <1>a, <3>1 DEF Foretells
    <2> QED BY <2>1, <2>2
  <1>5. CASE FetchHit
    <2>1. /\ fetchStruct' = [PC |-> PC, word |-> InstructionAt(PC)]
          /\ IFtoID_BP' = bp_predict(branch_predictor, PC)
          /\ UNCHANGED <<decodeStruct, IDtoEX_BP>>
      BY <1>5 DEF FetchHit, Fetching, FetchTurn
    <2>2. Foretells(bp_predict(branch_predictor, PC), PC)
      BY DEF Foretells, bp_predict
    <2> QED BY <1>a, <2>1, <2>2 DEF Foretells
  <1>6. CASE FetchStallCycle \/ FetchNothing \/ FetchMiss
    BY <1>1, <1>6 DEF FetchStallCycle, FetchNothing, FetchMiss, Fetching, FetchTurn, latches,
                      predictVars
  <1>7. CASE BeginCycle \/ StallCycle \/ pipe_stage_wb \/ SkipWriteBack \/ MissCycle
    BY <1>1, <1>7 DEF BeginCycle, StallCycle, pipe_stage_wb, SkipWriteBack, MissCycle, latches,
                      predictVars
  <1>8. CASE Halted \/ UNCHANGED vars
    BY <1>1, <1>8 DEF Halted, vars, latches, predictVars
  <1> QED BY <1>2, <1>3, <1>4, <1>5, <1>6, <1>7, <1>8 DEF Next, FetchStage

(* pipe_stage_fetch predicts for the instruction it fetches, and that      *)
(* prediction is the one execute compares with, whatever update_PC asks    *)
(* the predictor while a data access waits.                                *)
THEOREM PredictionsTravelAlong == Spec => []PredictionTravelsAlong
  <1>1. Init => ControlInv /\ TravelInv
    BY ControlInit, TravelInit
  <1>2. ControlInv /\ TravelInv /\ [Next]_vars => (ControlInv /\ TravelInv)'
    BY ControlStep, TravelStep
  <1>3. TravelInv => PredictionTravelsAlong
    BY DEF TravelInv, PredictionTravelsAlong, Foretells
  <1> QED BY <1>1, <1>2, <1>3, PTL DEF Spec
-----------------------------------------------------------------------------
(* The simulated memory.                                                   *)

(* Every byte of a value is a byte.                                        *)
LEMMA BytesOfValues ==
  ASSUME NEW v \in Nat, NEW i \in 0 .. 3
  PROVE  ByteOf(v, i) \in Byte
  <1> DEFINE m == 2^(ByteBits * i)
             q == v \div m
  <1>1. ByteBits * i \in Widths
    <2>1. ByteBits \in Nat /\ LongBits = 8 * ByteBits
      BY MachineWidths DEF LongBits
    <2>2. i = 0 \/ i = 1 \/ i = 2 \/ i = 3
      OBVIOUS
    <2> QED BY <2>1, <2>2 DEF Widths
  <1>2. m \in Nat \ {0}
    BY <1>1, PowersArePositive
  <1> HIDE DEF m
  <1>3. q \in Nat
    BY <1>2, Quotient
  <1>4. ByteOf(v, i) = LowByte(q)
    BY DEF ByteOf, LowByte, m
  <1> HIDE DEF q
  <1> QED BY <1>3, <1>4, Conversions

(* A word read is a word, at any address, and a word written leaves bytes. *)
LEMMA WordsInMemory ==
  ASSUME NEW m \in [Addresses -> Byte], NEW a
  PROVE  /\ mem_read_32(m, a) \in Word
         /\ \A v \in Nat : mem_write_32(m, a, v) \in [Addresses -> Byte]
  <1>1. \A x : ByteAt(m, x) \in Byte
    BY Inclusions DEF ByteAt, InRegion
  <1>2. mem_read_32(m, a) \in Word
    <2>1. ByteAt(m, a) + 2^ByteBits * (ByteAt(m, a + 1)
             + 2^ByteBits * (ByteAt(m, a + 2) + 2^ByteBits * ByteAt(m, a + 3))) \in Word
      BY <1>1, FourBytes
    <2>2. 0 \in Word
      BY Inclusions
    <2> QED BY <2>1, <2>2, Zenon DEF mem_read_32
  <1>3. ASSUME NEW v \in Nat
        PROVE  mem_write_32(m, a, v) \in [Addresses -> Byte]
    <2>1. /\ ByteOf(v, 0) \in Byte /\ ByteOf(v, 1) \in Byte
          /\ ByteOf(v, 2) \in Byte /\ ByteOf(v, 3) \in Byte
      BY BytesOfValues
    <2> QED BY <2>1 DEF mem_write_32
  <1> QED BY <1>2, <1>3

-----------------------------------------------------------------------------
(* The operands and the results of execute.                                *)

\* An immediate that is taken as a result is a register value.
MovesLong == decodeStruct.op = "MOVZ" => decodeStruct.imm \in Long

DataInv == DataTypeOK /\ MovesLong

(* Every operation of the arithmetic unit yields a register value.         *)
LEMMA AluYieldsLong ==
  ASSUME NEW op \in AluRegister \cup AluImmediate \cup Compares,
         NEW a \in Long, NEW b \in Int,
         op \in ReadsRm => b \in Long
  PROVE  Alu(op, a, b) \in Long
  <1>1. a \in Nat /\ a + b \in Int /\ a - b \in Int
    BY Inclusions
  <1>2. op \in ReadsRm => b \in Nat
    BY Inclusions
  <1>3. ToLong(a + b) \in Long /\ ToLong(a - b) \in Long
    BY <1>1, Conversions
  <1>4. op \in ReadsRm => Times(a, b) \in Long /\ And(a, b) \in Long /\ Or(a, b) \in Long
    BY <1>1, <1>2, Products, AndsAndOrs
  <1>5. op \in ReadsRm => Xor(a, b, LongBits) \in Long
    BY <1>1, <1>2, Xors, MachineWidths DEF Long
  <1>6. ShiftLeft(a, LongBits - 1 - (b % LongBits)) \in Long
        /\ ShiftRight(a, b % LongBits) \in Long
    <2>1. b % LongBits \in 0 .. LongBits - 1 /\ LongBits \in Nat
      BY MachineWidths, Remainder
    <2>2. LongBits - 1 - (b % LongBits) \in 0 .. LongBits - 1
      BY <2>1
    <2> QED BY <2>1, <2>2, Shifts
  <1>7. CASE op \in AluRegister \cup {"CMP"}
    <2>1. op \in ReadsRm
      BY <1>7 DEF ReadsRm
    <2> QED BY <1>3, <1>4, <1>5, <1>7, <2>1 DEF Alu, AluRegister
  <1>8. CASE op \in AluImmediate \cup {"CMPI"}
    BY <1>3, <1>6, <1>8 DEF Alu, AluImmediate
  <1> QED BY <1>7, <1>8 DEF Compares

(* An operand is forwarded or comes from a register, or from what lies     *)
(* behind the registers.                                                   *)
LEMMA OperandsAreLong ==
  ASSUME DataInv
  PROVE  \A f \in Fields : Operand(f) \in Long
  <1>1. ToLong(decodeStruct.opcode) \in Long
    BY Conversions DEF DataInv, DataTypeOK
  <1> QED BY <1>1 DEF DataInv, DataTypeOK, Operand, Register, Fields

(* What execute computes for Rd, or compares with 0, is a register value.  *)
LEMMA ResultsAreLong ==
  ASSUME DataInv, decodeStruct.op \in WritesRd \cup Compares
  PROVE  Result(decodeStruct) \in Long
  <1> DEFINE op == decodeStruct.op
  <1>1. CASE op = "MOVZ"
    BY <1>1 DEF DataInv, MovesLong, Result
  <1>2. CASE op # "MOVZ"
    <2>1. op \in AluRegister \cup AluImmediate \cup Compares
      BY <1>2 DEF WritesRd
    <2>3. Operand("Rn") \in Long /\ Operand("Rm") \in Long
      BY OperandsAreLong DEF Fields
    <2>4. decodeStruct.imm \in Int
      BY DEF DataInv, DataTypeOK
    <2>5. Long \subseteq Int
      BY Inclusions
    <2>6. CASE op \in ReadsRm
      BY <1>2, <2>1, <2>3, <2>5, <2>6, AluYieldsLong DEF Result
    <2>7. CASE op \notin ReadsRm
      BY <1>2, <2>1, <2>3, <2>4, <2>7, AluYieldsLong DEF Result
    <2> QED BY <2>6, <2>7
  <1> QED BY <1>1, <1>2

(* The addresses of both words of an access are register values.           *)
LEMMA AccessAddresses ==
  ASSUME DataInv
  PROVE  AccessAddress \in Long /\ HighAddress \in Long
  <1>1. AccessAddress \in Long
    BY Inclusions DEF AccessAddress, DataInv, DataTypeOK
  <1>2. AccessAddress + 4 \in Int
    BY <1>1, Inclusions
  <1> QED BY <1>1, <1>2, Conversions, Inclusions DEF HighAddress

(* The fills of a data access leave a cache ...                            *)
LEMMA DataCacheKept ==
  ASSUME DataInv
  PROVE  /\ IsCache(ProbedCache, DataSets, DataWays)
         /\ IsCache(AfterHit, DataSets, DataWays)
  <1>1. AccessAddress \in Nat /\ HighAddress \in Nat
    BY AccessAddresses, Inclusions
  <1>2. IsCache(data_cache, DataSets, DataWays)
    BY DEF DataInv, DataTypeOK
  <1>3. DataSets \in SupportedSetCounts /\ DataWays \in Nat \ {0}
    BY PipelineAssumption
  <1>4. \A c : IsCache(c, DataSets, DataWays) => IsCache(FillBoth(c), DataSets, DataWays)
    BY <1>1, <1>3, CacheKept DEF FillBoth
  <1>5. IsCache(ProbedCache, DataSets, DataWays)
    BY <1>2, <1>4 DEF ProbedCache
  <1> QED BY <1>1, <1>3, <1>4, <1>5, CacheKept DEF AfterHit

(* ... and so do the fill and the lookup of a fetch.                       *)
LEMMA InstructionCacheKept ==
  ASSUME DataInv
  PROVE  /\ IsCache(ProbedInstructionCache, InstructionSets, InstructionWays)
         /\ IsCache(check_cache_hit(ProbedInstructionCache, PC),
                    InstructionSets, InstructionWays)
  <1>1. PC \in Nat /\ IsCache(instruction_cache, InstructionSets, InstructionWays)
    BY Inclusions DEF DataInv, DataTypeOK
  <1>2. InstructionSets \in SupportedSetCounts /\ InstructionWays \in Nat \ {0}
    BY PipelineAssumption
  <1>3. IsCache(ProbedInstructionCache, InstructionSets, InstructionWays)
    BY <1>1, <1>2, CacheKept DEF ProbedInstructionCache
  <1> QED BY <1>1, <1>2, <1>3, CacheKept

-----------------------------------------------------------------------------
(* What the stages do to the data in the latches.                          *)

ExecuteData(s) ==
    /\ {s.RdVal, s.cmpResult, s.storeAddress} \subseteq Long
    /\ {s.storeValLow, s.storeValHigh, s.loadValLow} \subseteq Word

MemoryData(s) == {s.RdVal, s.RtVal, s.cmpResult} \subseteq Long

\* What execute attaches to the instruction that it sends on.
Computed ==
    LET d == decodeStruct
    IN  /\ executeStruct'.RdVal =
               IF d.op \in WritesRd THEN Result(d) ELSE executeStruct.RdVal
        /\ IF d.op \in Compares THEN executeStruct'.cmpResult = ToInt(Result(d))
                                ELSE executeStruct'.cmpResult \in {0, executeStruct.cmpResult}
        /\ executeStruct'.loadValLow =
               IF d.op \in Loads THEN ToWord(EffectiveAddress(d)) ELSE executeStruct.loadValLow
        /\ executeStruct'.storeAddress =
               IF d.op \in Stores THEN ToLong(EffectiveAddress(d))
                                  ELSE executeStruct.storeAddress
        /\ executeStruct'.storeValLow =
               IF d.op = "STUR" THEN ToWord(Operand("Rt"))
               ELSE IF d.op \in Stores THEN LowByte(Operand("Rt"))
               ELSE executeStruct.storeValLow
        /\ executeStruct'.storeValHigh =
               IF d.op = "STUR" THEN HighWord(Operand("Rt")) ELSE executeStruct.storeValHigh

\* The flags execute sets; only SUBS is free to set some of its own.
Compared ==
    /\ decodeStruct.op \in Compares =>
           /\ temp_FLAG_Z' = ZFlag(ToInt(Result(decodeStruct)))
           /\ temp_FLAG_N' = NFlag(ToInt(Result(decodeStruct)))
    /\ decodeStruct.op = "SUBS" =>
           {temp_FLAG_N', temp_FLAG_Z'} \subseteq Flag \cup {temp_FLAG_N, temp_FLAG_Z}
    /\ decodeStruct.op \notin Compares \cup {"SUBS"} => UNCHANGED <<temp_FLAG_N, temp_FLAG_Z>>

\* Where execute sends the front end.
Steered ==
    LET d       == decodeStruct
        taken   == IF BranchTaken(d.op) THEN 1 ELSE 0
        correct == CorrectAddress(d)
    IN  IF d.op \in Branches
        THEN /\ \E cond \in Flag :
                    branch_predictor' =
                        bp_update(branch_predictor, d.PC, correct, taken, cond)
             /\ IF must_flush(IDtoEX_BP, correct, taken)
                THEN PC' = correct /\ FrontCleared /\ flushed' = 1
                ELSE UNCHANGED <<PC, fetchStruct, decodeStruct, flushed>>
        ELSE /\ UNCHANGED <<PC, branch_predictor, flushed>>
             /\ d.op # "HLT" => UNCHANGED <<fetchStruct, decodeStruct>>

Acts == Computed /\ Compared /\ Steered

(* The cases of pipe_stage_execute do so.                                  *)
LEMMA ExecuteActs ==
  ASSUME ControlTypeOK, ExecuteStage, StallFlag = 0
  PROVE  Acts
  <1> DEFINE d == decodeStruct
  <1>c. /\ DOMAIN Carried = DOMAIN executeStruct
        /\ Carried.RdVal = executeStruct.RdVal
        /\ Carried.cmpResult = executeStruct.cmpResult
        /\ Carried.storeAddress = executeStruct.storeAddress
        /\ Carried.storeValLow = executeStruct.storeValLow
        /\ Carried.storeValHigh = executeStruct.storeValHigh
        /\ Carried.loadValLow = executeStruct.loadValLow
    BY DEF Carried, ControlTypeOK
  <1>d. PICK c : c = Carried
    OBVIOUS
  <1>t. DOMAIN executeStruct = {"op", "Rd", "Rt", "RdVal", "cmpResult", "storeAddress",
                                "storeValLow", "storeValHigh", "loadValLow"}
    BY DEF ControlTypeOK
  <1>1. CASE ExecuteNoOp \/ ExecuteHalt
    <2>1. /\ d.op \in {"NoOp", "HLT"} /\ executeStruct' = Carried
          /\ UNCHANGED <<PC, branch_predictor, flushed, temp_FLAG_N, temp_FLAG_Z>>
          /\ d.op = "NoOp" => UNCHANGED <<fetchStruct, decodeStruct>>
      BY <1>1, OperationClasses DEF ExecuteNoOp, ExecuteHalt, HaltUntouched
    <2>2. d.op \notin WritesRd \cup Loads \cup Stores \cup Compares \cup Branches
      BY <2>1, OperationClasses DEF Operations, WritesRd, Stores
    <2> QED BY <1>c, <2>1, <2>2, Apart DEF Acts, Computed, Compared, Steered
  <1>2. CASE ExecuteAlu
    <2>1. /\ d.op \in WritesRd
          /\ executeStruct' = [c EXCEPT !.RdVal = Result(d)]
          /\ UNCHANGED <<PC, branch_predictor, flushed, temp_FLAG_N, temp_FLAG_Z, fetchStruct,
                         decodeStruct>>
      BY <1>2, <1>d DEF ExecuteAlu
    <2>2. Computed
      BY <1>c, <1>d, <1>t, <2>1, Apart DEF Computed
    <2> QED BY <2>1, <2>2, Apart DEF Acts, Compared, Steered
  <1>3. CASE ExecuteCompare
    <2>1. /\ d.op \in Compares
          /\ executeStruct' = [c EXCEPT !.cmpResult = ToInt(Result(d))]
          /\ temp_FLAG_Z' = ZFlag(ToInt(Result(d)))
          /\ temp_FLAG_N' = NFlag(ToInt(Result(d)))
          /\ UNCHANGED <<PC, branch_predictor, flushed, fetchStruct, decodeStruct>>
      BY <1>3, <1>d DEF ExecuteCompare
    <2>2. Computed
      BY <1>c, <1>d, <1>t, <2>1, Apart DEF Computed
    <2> QED BY <2>1, <2>2, Apart DEF Acts, Compared, Steered
  <1>4. CASE ExecuteLoad
    <2>1. /\ d.op \in Loads
          /\ executeStruct' = [c EXCEPT !.loadValLow = ToWord(EffectiveAddress(d))]
          /\ UNCHANGED <<PC, branch_predictor, flushed, temp_FLAG_N, temp_FLAG_Z, fetchStruct,
                         decodeStruct>>
      BY <1>4, <1>d DEF ExecuteLoad
    <2>2. Computed
      BY <1>c, <1>d, <1>t, <2>1, Apart DEF Computed
    <2> QED BY <2>1, <2>2, Apart DEF Acts, Compared, Steered
  <1>5. CASE ExecuteStore
    <2> DEFINE addressed == [c EXCEPT !.storeAddress = ToLong(EffectiveAddress(d))]
    <2>1. /\ d.op \in Stores
          /\ executeStruct' =
                IF d.op = "STUR"
                THEN [addressed EXCEPT !.storeValLow  = ToWord(Operand("Rt")),
                                       !.storeValHigh = HighWord(Operand("Rt"))]
                ELSE [addressed EXCEPT !.storeValLow  = LowByte(Operand("Rt"))]
          /\ UNCHANGED <<PC, branch_predictor, flushed, temp_FLAG_N, temp_FLAG_Z, fetchStruct,
                         decodeStruct>>
      BY <1>5, <1>d DEF ExecuteStore
    <2>2. Computed
      BY <1>c, <1>d, <1>t, <2>1, Apart DEF Computed
    <2> QED BY <2>1, <2>2, Apart DEF Acts, Compared, Steered
  <1>6. CASE ExecuteBranch
    <2> DEFINE taken   == IF BranchTaken(d.op) THEN 1 ELSE 0
               cond    == IF d.op \in {"B", "BR"} THEN 0 ELSE 1
               correct == CorrectAddress(d)
               flush   == must_flush(IDtoEX_BP, correct, taken)
    <2>1. /\ d.op \in Branches /\ executeStruct' = Carried
          /\ UNCHANGED <<temp_FLAG_N, temp_FLAG_Z>>
          /\ branch_predictor' = bp_update(branch_predictor, d.PC, correct, taken, cond)
          /\ PC'           = IF flush THEN correct ELSE PC
          /\ decodeStruct' = IF flush THEN clearDecodeStruct(d) ELSE d
          /\ fetchStruct'  = IF flush THEN EmptyFetch ELSE fetchStruct
          /\ flushed'      = IF flush THEN 1 ELSE flushed
      BY <1>6 DEF ExecuteBranch
    <2>2. Computed /\ Compared
      BY <1>c, <2>1, Apart DEF Computed, Compared
    <2>3. cond \in Flag
      BY DEF Flag
    <2>4. flush => FrontCleared
      BY <2>1, ClearedFields DEF FrontCleared
    <2> HIDE DEF cond
    <2>5. IF flush THEN PC' = correct /\ FrontCleared /\ flushed' = 1
                   ELSE UNCHANGED <<PC, fetchStruct, decodeStruct, flushed>>
      BY <2>1, <2>4
    <2>6. Steered
      BY <2>1, <2>3, <2>5 DEF Steered
    <2> QED BY <2>2, <2>6 DEF Acts
  <1> QED BY <1>1, <1>2, <1>3, <1>4, <1>5, <1>6 DEF ExecuteStage, ExecuteStalled

(* What execute attaches has the right type.                               *)
LEMMA ComputedData ==
  ASSUME DataInv, Computed
  PROVE  ExecuteData(executeStruct')
  <1>1. ExecuteData(executeStruct) /\ 0 \in Long
    BY Inclusions DEF DataInv, DataTypeOK, ExecuteData
  <1>e. ASSUME decodeStruct.op \in Loads \cup Stores
        PROVE  EffectiveAddress(decodeStruct) \in Int
    <2>1. Operand("Rn") \in Long /\ decodeStruct.imm \in Int
      BY OperandsAreLong DEF Fields, DataInv, DataTypeOK
    <2>2. ToWord(decodeStruct.imm) \in Word
      BY <2>1, Conversions
    <2>3. \A x, y \in Nat : x + y \in Int
      OBVIOUS
    <2>4. Operand("Rn") \in Nat /\ ToWord(decodeStruct.imm) \in Nat
      BY <2>1, <2>2, Inclusions
    <2> QED BY <2>3, <2>4 DEF EffectiveAddress
  <1>2. decodeStruct.op \in WritesRd \cup Compares =>
            Result(decodeStruct) \in Long /\ ToInt(Result(decodeStruct)) \in Long
    <2>1. \A x \in Long : ToInt(x) \in Long
      BY Conversions, Inclusions
    <2> QED BY <2>1, ResultsAreLong
  <1>3. /\ decodeStruct.op \in Loads => ToWord(EffectiveAddress(decodeStruct)) \in Word
        /\ decodeStruct.op \in Stores => ToLong(EffectiveAddress(decodeStruct)) \in Long
    BY <1>e, Conversions
  <1>4. "STUR" \in Stores
    BY DEF Stores
  <1>5. decodeStruct.op \in Stores =>
            /\ ToWord(Operand("Rt")) \in Word /\ HighWord(Operand("Rt")) \in Word
            /\ LowByte(Operand("Rt")) \in Word
    BY OperandsAreLong, PartsOfLongs DEF Fields
  <1> QED BY <1>1, <1>2, <1>3, <1>4, <1>5 DEF Computed, ExecuteData

\* What an instruction that passes memory does there and hands on.
HandsOn ==
    /\ Passed
    /\ IF executeStruct.op \in Loads THEN check_stall([Latched EXCEPT !.RtVal = LoadedValue])
                                     ELSE memoryStruct' = Latched
    /\ CheckDependency
    /\ LET low == mem_write_32(mem, executeStruct.storeAddress, executeStruct.storeValLow)
       IN  mem' = IF executeStruct.op = "STUR"
                  THEN mem_write_32(low, HighAddress, executeStruct.storeValHigh)
                  ELSE IF executeStruct.op \in Stores THEN low
                  ELSE mem
    /\ UNCHANGED <<REGS, flagVars, predictVars>>

(* pipe_stage_mem does it unless the access waits.                         *)
LEMMA MemoryHandsOn ==
  ASSUME ControlTypeOK, MemoryStage
  PROVE  MemMiss \/ HandsOn
  <1>1. MemMiss \/ Passed
    BY MemoryEffect
  <1>2. "STUR" \in Stores /\ "STUR" \notin Loads /\ {"STURB", "STURH"} \subseteq Stores
    BY DEF Stores, Loads
  <1>3. CASE MemLoad
    <2>1. executeStruct.op \notin Stores /\ executeStruct.op # "STUR"
      BY <1>2, <1>3, Apart DEF MemLoad
    <2> QED BY <1>1, <1>3, <2>1 DEF HandsOn, MemLoad, MemMiss, flagVars
  <1>4. CASE MemStore
    <2>1. AccessAddress = executeStruct.storeAddress
      BY <1>4 DEF MemStore, AccessAddress
    <2> QED BY <1>1, <1>2, <1>4, <2>1 DEF HandsOn, MemStore, MemMiss, flagVars
  <1>5. CASE MemStoreNarrow
    <2>1. executeStruct.op \in Stores \ {"STUR"} /\ executeStruct.op \notin Loads
      BY <1>2, <1>5, Apart DEF MemStoreNarrow
    <2> QED BY <1>1, <1>5, <2>1 DEF HandsOn, MemStoreNarrow, MemMiss, flagVars
  <1>6. CASE MemPass
    BY <1>1, <1>2, <1>6 DEF HandsOn, MemPass, MemMiss, flagVars
  <1> QED BY <1>3, <1>4, <1>5, <1>6 DEF MemoryStage

(* What memory hands on to write-back is data of the right type.           *)
LEMMA HandsOnData ==
  ASSUME ControlTypeOK, DataInv, HandsOn
  PROVE  MemoryData(memoryStruct')
  <1>e. ExecuteData(executeStruct) /\ 0 \in Long
    BY Inclusions DEF DataInv, DataTypeOK, ExecuteData
  <1>1. MemoryData(Latched) /\ Latched.RdVal = executeStruct.RdVal
    BY <1>e DEF Latched, MemoryData, ExecuteData
  <1>2. CASE executeStruct.op \notin Loads
    BY <1>1, <1>2 DEF HandsOn
  <1>3. CASE executeStruct.op \in Loads
    <2> DEFINE low == mem_read_32(mem, AccessAddress)
               high == mem_read_32(mem, HighAddress)
    <2>1. low \in Word /\ high \in Word
      BY WordsInMemory DEF DataInv, DataTypeOK
    <2> HIDE DEF low, high
    <2>2. /\ low + 2^IntBits * high \in Long
          /\ LowByte(low) \in Long /\ LowHalfword(low) \in Long
      <3>1. low + 2^IntBits * high \in Long
        BY <2>1, TwoWords
      <3>2. low \in Long
        BY <2>1, Inclusions
      <3> QED BY <3>1, <3>2, PartsOfLongs
    <2> DEFINE v == LoadedValue
    <2>4. v \in Long
      <3>1. v = CASE executeStruct.op = "LDUR"  -> low + 2^IntBits * high
                  [] executeStruct.op = "LDURB" -> LowByte(low)
                  [] executeStruct.op = "LDURH" -> LowHalfword(low)
        BY DEF LoadedValue, low, high
      <3> HIDE DEF v
      <3> QED BY <1>3, <2>2, <3>1 DEF Loads
    <2> HIDE DEF v
    <2> DEFINE m == [Latched EXCEPT !.RtVal = v]
    <2>5. /\ DOMAIN m = {"op", "Rd", "Rt", "RdVal", "RtVal", "cmpResult"}
          /\ MemoryData(m)
      BY <1>1, <2>4 DEF Latched, MemoryData
    <2>6. check_stall(m)
      BY <1>3 DEF HandsOn, v
    <2> HIDE DEF m
    <2>7. MemoryData(clearMemoryStruct(m))
      BY <1>e, <2>5 DEF clearMemoryStruct, MemoryData
    <2> QED BY <2>5, <2>6, <2>7 DEF check_stall
  <1> QED BY <1>2, <1>3
-----------------------------------------------------------------------------
(* The predictions.                                                        *)

TablesOK(bp) ==
    /\ bp.GHR \in Indexes
    /\ bp.PHT \in [Indexes -> 0 .. 3]
    /\ bp.BTB \in
           [Indexes -> [pr_address : Long, br_address : Long, valid : Flag, cond : Flag]]

(* What is predicted is an address and a flag.                             *)
LEMMA PredictionsAreTyped ==
  ASSUME NEW bp, TablesOK(bp), NEW a \in Long
  PROVE  bp_predict(bp, a) \in Prediction
  <1> DEFINE entry == bp.BTB[address_bits(a)]
  <1>1. address_bits(a) \in Indexes
    BY TableIndexes
  <1>2. entry.br_address \in Long
    BY <1>1 DEF TablesOK
  <1>3. a + 4 \in Int
    BY Inclusions
  <1>4. ToLong(a + 4) \in Long
    BY <1>3, Conversions
  <1>5. PICK p : p = bp_predict(bp, a)
    OBVIOUS
  <1>6. \/ p = [pred_address |-> entry.br_address, pred_taken |-> 1]
        \/ p = [pred_address |-> ToLong(a + 4), pred_taken |-> 0]
    BY <1>5, Zenon DEF bp_predict
  <1> HIDE DEF entry
  <1>7. p \in Prediction
    BY <1>2, <1>4, <1>6 DEF Prediction, Flag
  <1> QED BY <1>5, <1>7

(* A branch that was executed leaves tables of the right type.             *)
LEMMA TablesKept ==
  ASSUME NEW bp, TablesOK(bp), NEW a \in Long, NEW to \in Long,
         NEW taken \in Flag, NEW cond \in Flag
  PROVE  TablesOK(bp_update(bp, a, to, taken, cond))
  <1>1. PICK new : new = bp_update(bp, a, to, taken, cond)
    OBVIOUS
  <1>2. Updated(bp, new, a, to, cond)
    BY <1>1, UpdatedTables DEF TablesOK, Flag
  <1>3. [pr_address |-> a, br_address |-> to, valid |-> 1, cond |-> cond]
           \in [pr_address : Long, br_address : Long, valid : Flag, cond : Flag]
    BY DEF Flag
  <1>4. /\ new.GHR \in Indexes /\ new.PHT \in [Indexes -> 0 .. 3]
        /\ new.BTB = [bp.BTB EXCEPT
                         ![address_bits(a)] = [pr_address |-> a, br_address |-> to,
                                               valid |-> 1, cond |-> cond]]
    BY <1>2 DEF Updated
  <1>5. TablesOK(new)
    BY <1>3, <1>4 DEF TablesOK
  <1> QED BY <1>1, <1>5

(* A branch continues at an address.                                       *)
LEMMA BranchesGoToAddresses ==
  ASSUME DataInv
  PROVE  CorrectAddress(decodeStruct) \in Long
  <1> DEFINE d == decodeStruct
  <1>1. d.PC \in Int /\ d.imm \in Int
    <2>1. decodeStruct.PC \in Long /\ decodeStruct.imm \in Int
      BY DEF DataInv, DataTypeOK
    <2>2. Long \subseteq Int
      BY Inclusions
    <2> QED BY <2>1, <2>2
  <1>2. d.op = "BR" => Operand("Rn") \in Long
    BY OperandsAreLong DEF Fields
  <1>3. /\ ToLong(d.PC + 4 * d.imm) \in Long
        /\ ToLong(d.PC + 4) \in Long /\ ToLong(d.PC + 8) \in Long
    <2>1. d.PC + 4 * d.imm \in Int /\ d.PC + 4 \in Int /\ d.PC + 8 \in Int
      BY <1>1
    <2> QED BY <2>1, Conversions
  <1>4. CASE d.op = "BR"
    BY <1>2, <1>4 DEF CorrectAddress
  <1>5. CASE d.op # "BR" /\ BranchTaken(d.op)
    BY <1>3, <1>5 DEF CorrectAddress
  <1>6. CASE d.op # "BR" /\ ~BranchTaken(d.op)
    <2>1. CorrectAddress(d) = ToLong(d.PC + (IF d.op = "BGT" THEN 4 ELSE 8))
      BY <1>6 DEF CorrectAddress
    <2>2. CASE d.op = "BGT"
      BY <1>3, <2>1, <2>2
    <2>3. CASE d.op # "BGT"
      BY <1>3, <2>1, <2>3
    <2> QED BY <2>2, <2>3
  <1> QED BY <1>4, <1>5, <1>6
-----------------------------------------------------------------------------
(* Every step of the pipeline keeps the types of the data.                 *)

\* The state DataInv is about, but for the latches.
dataVars == <<mem, REGS, PC, flagVars, forwarded, predictVars, caches>>

(* What pipe_init begins with has its type.                                *)
LEMMA DataInit == Init => DataInv
  <1> SUFFICES ASSUME Init PROVE DataInv
    OBVIOUS
  <1>0. 0 \in Long /\ 0 \in Word /\ 0 \in Byte /\ 0 \in Flag
    BY Inclusions DEF Flag
  <1>1. mem \in [Addresses -> Byte]
    BY <1>0 DEF Init, ZeroMemory
  <1>2. TablesOK(branch_predictor)
    <2>1. 0 \in Indexes
      BY Moduli DEF Indexes
    <2>2. InvalidEntry \in [pr_address : Long, br_address : Long, valid : Flag, cond : Flag]
      BY <1>0 DEF InvalidEntry
    <2> QED BY <2>1, <2>2 DEF Init, EmptyPredictor, TablesOK
  <1>3. /\ IsCache(data_cache, DataSets, DataWays)
        /\ IsCache(instruction_cache, InstructionSets, InstructionWays)
    BY PipelineAssumption DEF Init, cache_new, IsCache, SetIndexes, Ways, Blocks, EmptyBlock,
                              SupportedSetCounts
  <1>4. /\ REGS \in [Regs -> Long] /\ PC \in Long
        /\ IFtoID_BP \in Prediction /\ IDtoEX_BP \in Prediction
        /\ forwarded \in [Fields -> Long]
    BY <1>0, PipelineAssumption DEF Init, Prediction
  <1>5. MovesLong
    BY DEF Init, MovesLong
  <1> QED BY <1>0, <1>1, <1>2, <1>3, <1>4, <1>5
          DEF Init, DataInv, DataTypeOK, EmptyFetch, TablesOK

(* What no stage touches keeps its type.                                   *)
LEMMA DataKept ==
  ASSUME DataInv, UNCHANGED dataVars, UNCHANGED latches
  PROVE  DataInv'
  BY DEF dataVars, latches, DataInv, DataTypeOK, MovesLong, flagVars, predictVars, caches

(* The word forward_regs_flags may store is made of bytes.                 *)
LEMMA DataBegin ==
  ASSUME DataInv, BeginCycle
  PROVE  DataInv'
  <1>1. mem' \in [Addresses -> Byte]
    <2>1. mem \in [Addresses -> Byte]
      BY DEF DataInv, DataTypeOK
    <2>2. mem_write_32(mem, DataStart + 40, 4) \in [Addresses -> Byte]
      BY <2>1, WordsInMemory
    <2> QED BY <2>1, <2>2 DEF BeginCycle
  <1> QED BY <1>1 DEF BeginCycle, DataInv, DataTypeOK, MovesLong, flagVars, latches,
                      forwardVars, predictVars, caches

(* Write-back stores and forwards results cut to int.                      *)
LEMMA DataWriteBack ==
  ASSUME ControlTypeOK, DataInv, pipe_stage_wb
  PROVE  DataInv'
  <1>m. /\ memoryStruct.RdVal \in Long /\ memoryStruct.RtVal \in Long
        /\ REGS \in [Regs -> Long] /\ forwarded \in [Fields -> Long]
    BY DEF DataInv, DataTypeOK
  <1>i. ToInt(memoryStruct.RdVal) \in Long
    <2>1. Long \subseteq Int
      BY Inclusions
    <2> QED BY <1>m, <2>1, Conversions
  <1>1. REGS' \in [Regs -> Long]
    BY <1>m, <1>i DEF pipe_stage_wb, NextRegister
  <1>2. forwarded' \in [Fields -> Long]
    BY <1>m DEF pipe_stage_wb, Forward
  <1>3. {FLAG_N', FLAG_Z'} \subseteq Word /\ {temp_FLAG_N', temp_FLAG_Z'} \subseteq Flag
    <2>1. CASE memoryStruct.op \in SetsFlags
      <3>1. Flag \subseteq Word
        BY Inclusions DEF Flag
      <3>2. {FLAG_N', FLAG_Z', temp_FLAG_N', temp_FLAG_Z'} \subseteq Flag
        BY <2>1 DEF pipe_stage_wb, set_flags, ZFlag, NFlag, Flag
      <3> QED BY <3>1, <3>2
    <2>2. CASE memoryStruct.op \notin SetsFlags
      BY <2>2 DEF pipe_stage_wb, flagVars, DataInv, DataTypeOK
    <2> QED BY <2>1, <2>2
  <1>4. ExecuteData(executeStruct')
    <2>1. ToWord(ToInt(memoryStruct.RdVal)) \in Word /\ HighWord(ToInt(memoryStruct.RdVal)) \in Word
      BY <1>i, PartsOfLongs
    <2>2. executeStruct' = WrittenBehind(memoryStruct)
      BY DEF pipe_stage_wb
    <2> QED BY <2>1, <2>2, WrittenFields DEF ExecuteData, DataInv, DataTypeOK
  <1> QED BY <1>1, <1>2, <1>3, <1>4
          DEF pipe_stage_wb, DataInv, DataTypeOK, ExecuteData, MovesLong, predictVars, caches

(* An instruction that passes memory, if the caches keep their shape.      *)
LEMMA DataHandsOn ==
  ASSUME ControlTypeOK, DataInv, HandsOn, UNCHANGED instruction_cache,
         IsCache(data_cache', DataSets, DataWays)
  PROVE  DataInv'
  <1>1. MemoryData(memoryStruct')
    BY HandsOnData
  <1>2. mem' \in [Addresses -> Byte]
    <2>1. mem \in [Addresses -> Byte]
      BY DEF DataInv, DataTypeOK
    <2>2. executeStruct.storeValLow \in Nat /\ executeStruct.storeValHigh \in Nat
      BY Inclusions DEF DataInv, DataTypeOK
    <2> DEFINE low == mem_write_32(mem, executeStruct.storeAddress, executeStruct.storeValLow)
    <2>3. low \in [Addresses -> Byte]
      BY <2>1, <2>2, WordsInMemory
    <2>4. mem' \in {mem, low, mem_write_32(low, HighAddress, executeStruct.storeValHigh)}
      BY DEF HandsOn
    <2> HIDE DEF low
    <2> QED BY <2>1, <2>2, <2>3, <2>4, WordsInMemory
  <1>3. forwarded' \in [Fields -> Long]
    <2>1. forwarded \in [Fields -> Long] /\ executeStruct.RdVal \in Long
      BY DEF DataInv, DataTypeOK
    <2> QED BY <2>1 DEF HandsOn, CheckDependency, Forward
  <1>4. UNCHANGED <<REGS, PC, flagVars, fetchStruct, decodeStruct, executeStruct, predictVars>>
    BY DEF HandsOn, Passed, MemoryKept
  <1> QED BY <1>1, <1>2, <1>3, <1>4
          DEF DataInv, DataTypeOK, MovesLong, MemoryData, flagVars, predictVars

(* Here it may also be the data cache that changes, or update_PC is called *)
(* because the access waits.                                               *)
LEMMA DataMemory ==
  ASSUME ControlTypeOK, DataInv, MemoryStage
  PROVE  DataInv'
  <1>c. /\ IsCache(ProbedCache, DataSets, DataWays)
        /\ IsCache(AfterHit, DataSets, DataWays)
        /\ IsCache(data_cache, DataSets, DataWays)
    BY DataCacheKept DEF DataInv, DataTypeOK
  <1>1. CASE MemMiss
    <2>0. PC \in Long /\ IsCache(instruction_cache, InstructionSets, InstructionWays)
      BY DEF DataInv, DataTypeOK
    <2>1. PC' \in Long /\ IsCache(instruction_cache', InstructionSets, InstructionWays)
      <3>1. bp_predict(branch_predictor, PC) \in Prediction
        BY <2>0, PredictionsAreTyped DEF TablesOK, DataInv, DataTypeOK
      <3>2. bp_predict(branch_predictor, PC).pred_address \in Long
        BY <3>1 DEF Prediction
      <3>3. IsCache(check_cache_hit(ProbedInstructionCache, PC),
                    InstructionSets, InstructionWays)
        BY InstructionCacheKept
      <3> QED BY <1>1, <2>0, <3>2, <3>3 DEF MemMiss, update_PC, MovePC
    <2>2. MemoryData(memoryStruct')
      <3>1. ExecuteData(executeStruct) /\ 0 \in Long
        BY Inclusions DEF DataInv, DataTypeOK, ExecuteData
      <3>2. MemoryData(Latched)
        BY <3>1 DEF Latched, MemoryData, ExecuteData
      <3> QED BY <1>1, <3>2 DEF MemMiss
    <2>3. /\ UNCHANGED <<mem, REGS, flagVars, fetchStruct, decodeStruct, executeStruct, forwarded,
                         predictVars>>
          /\ data_cache' = ProbedCache
      BY <1>1 DEF MemMiss, forwardVars
    <2> QED BY <1>c, <2>1, <2>2, <2>3
            DEF DataInv, DataTypeOK, MovesLong, MemoryData, flagVars, predictVars
  <1>2. CASE ~MemMiss
    <2>1. HandsOn
      BY <1>2, MemoryHandsOn
    <2>2. UNCHANGED instruction_cache /\ data_cache' \in {data_cache, AfterHit}
      BY <1>2 DEF MemoryStage, MemLoad, MemStore, MemStoreNarrow, MemPass, caches
    <2> QED BY <1>c, <2>1, <2>2, DataHandsOn
  <1> QED BY <1>1, <1>2

(* An instruction that execute sends on, and what a branch does to the     *)
(* front end and the predictor.                                            *)
LEMMA DataActs ==
  ASSUME DataInv, Executed, Acts
  PROVE  DataInv'
  <1>1. ExecuteData(executeStruct')
    BY ComputedData DEF Acts
  <1>2. UNCHANGED <<mem, REGS, FLAG_N, FLAG_Z, memoryStruct, forwarded, IFtoID_BP, IDtoEX_BP,
                    caches>>
    BY DEF Executed, Moves
  <1>3. /\ fetchStruct'.PC \in Long /\ decodeStruct'.PC \in Long
        /\ {decodeStruct'.imm, decodeStruct'.opcode} \subseteq Int
        /\ MovesLong'
    <2>1. CASE FrontKept
      BY <2>1 DEF FrontKept, DataInv, DataTypeOK, MovesLong
    <2>2. CASE FrontCleared
      <3>1. 0 \in Long
        BY Inclusions
      <3> QED BY <2>2, <3>1 DEF FrontCleared, EmptyFetch, DataInv, DataTypeOK, MovesLong
    <2> QED BY <2>1, <2>2 DEF Executed
  <1>4. PC' \in Long /\ TablesOK(branch_predictor')
    <2>0. PC \in Long /\ decodeStruct.PC \in Long /\ TablesOK(branch_predictor)
      BY DEF DataInv, DataTypeOK, TablesOK
    <2>1. CASE decodeStruct.op \in Branches
      <3> DEFINE d     == decodeStruct
                 taken == IF BranchTaken(d.op) THEN 1 ELSE 0
      <3>1. taken \in Flag
        BY DEF Flag
      <3>2. CorrectAddress(d) \in Long
        BY BranchesGoToAddresses
      <3>3. PICK cond \in Flag :
                branch_predictor' =
                    bp_update(branch_predictor, d.PC, CorrectAddress(d), taken, cond)
        BY <2>1 DEF Acts, Steered
      <3>4. PC' \in {PC, CorrectAddress(d)}
        BY <2>1 DEF Acts, Steered
      <3> HIDE DEF taken
      <3> QED BY <2>0, <3>1, <3>2, <3>3, <3>4, TablesKept
    <2>2. CASE decodeStruct.op \notin Branches
      BY <2>0, <2>2 DEF Acts, Steered
    <2> QED BY <2>1, <2>2
  <1>5. {temp_FLAG_N', temp_FLAG_Z'} \subseteq Flag
    <2>1. {temp_FLAG_N, temp_FLAG_Z} \subseteq Flag
      BY DEF DataInv, DataTypeOK
    <2> QED BY <2>1 DEF Acts, Compared, ZFlag, NFlag, Flag
  <1> QED BY <1>1, <1>2, <1>3, <1>4, <1>5
          DEF DataInv, DataTypeOK, ExecuteData, TablesOK, caches

(* pipe_stage_execute.                                                     *)
LEMMA DataExecute ==
  ASSUME ControlTypeOK, DataInv, ExecuteStage
  PROVE  DataInv'
  <1>1. CASE ExecuteStalled
    BY <1>1, DataKept DEF ExecuteStalled, dataVars, forwardVars
  <1>2. CASE ~ExecuteStalled
    <2>1. Executed
      BY <1>2, ExecuteEffect
    <2>2. Acts
      BY <2>1, ExecuteActs DEF Executed, Moves
    <2> QED BY <2>1, <2>2, DataActs
  <1> QED BY <1>1, <1>2

(* The opcode field is a number.                                           *)
LEMMA OpcodeFields ==
  ASSUME NEW w, IsInstruction(w)
  PROVE  OpcodeField(w) \in Int
  <1>1. CASE w.op = "COND"
    <2>1. "BEQ" \in OperationNames
      BY DEF OperationNames, Operations, Branches, FlagBranches
    <2>2. w.imms["BEQ"] \in Int
      BY <1>1, <2>1 DEF IsInstruction, Immediate, Keepers
    <2>3. (w.imms["BEQ"] \div \h10000) % 8 \in Int
      BY <2>2
    <2> QED BY <1>1, <2>3 DEF OpcodeField
  <1>2. CASE w.op # "COND"
    BY <1>2 DEF OpcodeField
  <1> QED BY <1>1, <1>2

(* Decode leaves fields of the word, or those of the word before it.       *)
LEMMA DataDecode ==
  ASSUME ControlTypeOK, DataInv, pipe_stage_decode
  PROVE  DataInv'
  <1>1. CASE StallFlag = 1
    BY <1>1 DEF pipe_stage_decode, DataInv, DataTypeOK, MovesLong, flagVars, forwardVars, caches
  <1>2. CASE StallFlag # 1
    <2> DEFINE w  == fetchStruct.word
               op == IF w.op \in Keepers THEN decodeStruct.op ELSE OperationOf(w)
    <2>1. /\ decodeStruct'.op = op /\ decodeStruct'.opcode = OpcodeField(w)
          /\ decodeStruct'.PC = fetchStruct.PC /\ decodeStruct'.imm = Immediate(w, op)
          /\ IDtoEX_BP' = IFtoID_BP
      BY <1>2 DEF pipe_stage_decode
    <2>2. IsInstruction(w) /\ decodeStruct.op \in OperationNames
      BY DEF ControlTypeOK
    <2> HIDE DEF w
    <2>3. op \in OperationNames
      BY <2>2, DecodedFields
    <2>4. op = "MOVZ" => Immediate(w, op) \in Long
      <3>1. OperationOf(w) = "MOVZ" => w.op = "MOVZ"
        BY DEF OperationOf
      <3> QED BY <2>2, <3>1 DEF IsInstruction
    <2>5. Immediate(w, op) \in Int
      BY <2>2, <2>3 DEF IsInstruction
    <2>6. OpcodeField(w) \in Int
      BY <2>2, OpcodeFields
    <2> HIDE DEF op
    <2>7. /\ decodeStruct'.PC \in Long /\ IDtoEX_BP' \in Prediction
          /\ {decodeStruct'.imm, decodeStruct'.opcode} \subseteq Int
      BY <2>1, <2>5, <2>6 DEF DataInv, DataTypeOK
    <2>8. MovesLong'
      BY <2>1, <2>4 DEF MovesLong
    <2> QED BY <2>7, <2>8
            DEF pipe_stage_decode, DataInv, DataTypeOK, flagVars, forwardVars, caches
  <1> QED BY <1>1, <1>2

(* Fetch takes an instruction, a prediction and the address it names.      *)
LEMMA DataFetch ==
  ASSUME DataInv, FetchStage
  PROVE  DataInv'
  <1>0. PC \in Long /\ TablesOK(branch_predictor)
        /\ IsCache(instruction_cache, InstructionSets, InstructionWays)
    BY DEF DataInv, DataTypeOK, TablesOK
  <1>1. CASE FetchStallCycle \/ FetchNothing
    BY <1>1, DataKept DEF FetchStallCycle, FetchNothing, FetchTurn, dataVars, latches, forwardVars,
                          predictVars, caches
  <1>2. CASE FetchHit \/ FetchMiss
    <2>1. IsCache(instruction_cache', InstructionSets, InstructionWays)
      BY <1>2, InstructionCacheKept DEF FetchHit, FetchMiss, Fetching
    <2>2. fetchStruct'.PC \in Long /\ IFtoID_BP' \in Prediction /\ PC' \in Long
      <3>1. bp_predict(branch_predictor, PC) \in Prediction
        BY <1>0, PredictionsAreTyped
      <3>2. CASE FetchHit
        BY <1>0, <3>1, <3>2 DEF FetchHit, Prediction
      <3>3. CASE FetchMiss
        BY <3>3 DEF FetchMiss, DataInv, DataTypeOK
      <3> QED BY <1>2, <3>2, <3>3
    <2>3. UNCHANGED <<mem, REGS, flagVars, decodeStruct, executeStruct, memoryStruct, forwardVars,
                      IDtoEX_BP, branch_predictor, data_cache>>
      BY <1>2 DEF FetchHit, FetchMiss, Fetching, FetchTurn
    <2> QED BY <2>1, <2>2, <2>3 DEF DataInv, DataTypeOK, MovesLong, flagVars, forwardVars
  <1> QED BY <1>1, <1>2 DEF FetchStage

(* Every step keeps the types of the data.                                 *)
LEMMA DataStep ==
  ASSUME ControlInv, DataInv, [Next]_vars
  PROVE  DataInv'
  <1>t. ControlTypeOK
    BY DEF ControlInv
  <1>1. CASE StallCycle \/ SkipWriteBack \/ MissCycle \/ Halted \/ UNCHANGED vars
    BY <1>1, DataKept DEF StallCycle, SkipWriteBack, MissCycle, Halted, vars, dataVars, forwardVars
  <1> QED
    BY <1>t, <1>1, DataBegin, DataWriteBack, DataMemory, DataExecute, DataDecode, DataFetch
       DEF Next

\* The invariants of the control, the register fields and the data.
StateInv == ControlInv /\ RegisterInv /\ DataInv

(* They hold together in every reachable state.                            *)
LEMMA StateInvariant == Spec => []StateInv
  <1>1. Init => StateInv
    BY ControlInit, RegisterInit, DataInit DEF StateInv
  <1>2. StateInv /\ [Next]_vars => StateInv'
    BY ControlStep, RegisterStep, DataStep DEF StateInv
  <1> QED BY <1>1, <1>2, PTL DEF Spec

(* pipe.c: every variable of the pipeline keeps its type: no register,     *)
(* latch, address or prediction leaves the width it has in C, no index of  *)
(* the predictor its table, and no cache loses its shape.                  *)
THEOREM TypesHold == Spec => []TypeOK
  <1>1. StateInv => TypeOK
    BY DEF StateInv, ControlInv, DataInv, TypeOK
  <1> QED BY <1>1, StateInvariant, PTL

-----------------------------------------------------------------------------
(* A retry hits.                                                           *)

(* Once both words of an access have been filled its address is in the     *)
(* cache: the second fill cannot evict the first.                          *)
LEMMA BothFillsStay ==
  ASSUME DataInv, NEW c, IsCache(c, DataSets, DataWays)
  PROVE  IsHit(FillBoth(c), AccessAddress)
  <1> DEFINE d == cache_update(c, AccessAddress)
  <1>s. DataSets \in SupportedSetCounts /\ DataWays \in Nat \ {0}
    BY PipelineAssumption
  <1>a. AccessAddress \in Nat /\ HighAddress \in Nat
    BY AccessAddresses, Inclusions
  <1>1. IsCache(d, DataSets, DataWays) /\ IsHit(d, AccessAddress)
    BY <1>a, <1>s, CacheKept, FilledIsFound
  <1> HIDE DEF d
  <1>2. d.num_sets = DataSets
    BY <1>1 DEF IsCache
  <1>3. \/ AccessAddress \div BlockBytes = HighAddress \div BlockBytes
        \/ find_set(d, AccessAddress) # find_set(d, HighAddress)
    <2>1. CASE executeStruct.op = "STUR"
      <3>1. AccessAddress \in 0 .. 2^LongBits - 1
            /\ HighAddress = (AccessAddress + 4) % 2^LongBits
        BY <2>1, AccessAddresses DEF HighAddress, ToLong, Long
      <3> QED BY <1>s, <1>2, <3>1, SecondWord DEF find_set
    <2>2. CASE executeStruct.op # "STUR"
      <3>1. AccessAddress \in 0 .. 2^IntBits - 1
            /\ HighAddress = (AccessAddress + 4) % 2^IntBits
        BY <2>2 DEF AccessAddress, HighAddress, ToWord, Word, DataInv, DataTypeOK
      <3> QED BY <1>s, <1>2, <3>1, SecondWord DEF find_set
    <2> QED BY <2>1, <2>2
  <1>4. \/ find_set(d, AccessAddress) # find_set(d, HighAddress)
        \/ /\ find_set(d, AccessAddress) = find_set(d, HighAddress)
           /\ find_tag(d, AccessAddress) = find_tag(d, HighAddress)
    BY <1>3 DEF find_set, find_tag
  <1>5. IsHit(cache_update(d, HighAddress), AccessAddress)
    BY <1>1, <1>4, <1>a, <1>s, FillKeepsFound
  <1> QED BY <1>5 DEF FillBoth, d

\* The wait for the instruction cache is over when its mark is set.
FetchWaitOver == update_instruction_cache = 1 => instruction_stall <= 0

(* No stage sets the mark while a wait lasts, or begins a wait under it.   *)
LEMMA FetchWaitStep ==
  ASSUME ControlInv, FetchWaitOver, [Next]_vars
  PROVE  FetchWaitOver'
  <1> USE DEF FetchWaitOver
  <1>t. ControlTypeOK /\ instruction_stall \in Int
    BY DEF ControlInv, ControlTypeOK
  <1>1. CASE StallCycle \/ MissCycle \/ FetchStallCycle
    BY <1>1, <1>t DEF StallCycle, MissCycle, FetchStallCycle, CountInstructionStall
  <1>2. CASE MemMiss
    BY <1>2, <1>t DEF MemMiss, update_PC, MovePC
  <1>3. CASE ExecuteBranch
    BY <1>3 DEF ExecuteBranch
  <1>4. CASE FetchHit \/ FetchMiss
    BY <1>4 DEF FetchHit, FetchMiss, Fetching
  <1>5. CASE UNCHANGED <<instruction_stall, update_instruction_cache>>
    BY <1>5
  <1>6. ASSUME ~StallCycle, ~MissCycle, ~FetchStallCycle, ~MemMiss, ~ExecuteBranch, ~FetchHit,
               ~FetchMiss
        PROVE  UNCHANGED <<instruction_stall, update_instruction_cache>>
    BY <1>6 DEF Next, BeginCycle, pipe_stage_wb, SkipWriteBack, MemoryStage, MemLoad,
                MemStore, MemStoreNarrow, MemPass, ExecuteStage,
                ExecuteStalled, ExecuteNoOp, ExecuteAlu, ExecuteCompare, ExecuteLoad,
                ExecuteStore, ExecuteHalt, HaltUntouched, pipe_stage_decode,
                FetchStage, FetchNothing, Halted, vars, stallVars
  <1> QED BY <1>1, <1>2, <1>3, <1>4, <1>5, <1>6

(* What is filled in for a retry is what the retry asks for.               *)
LEMMA FilledBlocksHit ==
  ASSUME DataInv, FetchWaitOver
  PROVE  RetryHits
  <1>1. update_data_cache = 1 => DataHit
    <2>1. IsCache(data_cache, DataSets, DataWays)
      BY DEF DataInv, DataTypeOK
    <2> QED BY <2>1, BothFillsStay DEF DataHit, ProbedCache
  <1>2. update_instruction_cache = 1 => IsHit(ProbedInstructionCache, PC)
    <2>1. PC \in Nat /\ IsCache(instruction_cache, InstructionSets, InstructionWays)
      BY Inclusions DEF DataInv, DataTypeOK
    <2>2. InstructionSets \in SupportedSetCounts /\ InstructionWays \in Nat \ {0}
      BY PipelineAssumption
    <2> QED BY <2>1, <2>2, FilledIsFound DEF ProbedInstructionCache
  <1> QED BY <1>1, <1>2 DEF RetryHits, FetchWaitOver

(* pipe_stage_mem, pipe_stage_fetch: the access that was waited for finds  *)
(* its block, whatever the size of the cache, and no new wait has begun.   *)
THEOREM RetriesHit == Spec => []RetryHits
  <1>1. Init => StateInv /\ FetchWaitOver
    BY ControlInit, RegisterInit, DataInit DEF StateInv, FetchWaitOver, Init
  <1>2. StateInv /\ FetchWaitOver /\ [Next]_vars => (StateInv /\ FetchWaitOver)'
    BY ControlStep, RegisterStep, DataStep, FetchWaitStep DEF StateInv
  <1>3. StateInv /\ FetchWaitOver => RetryHits
    BY FilledBlocksHit DEF StateInv
  <1> QED BY <1>1, <1>2, <1>3, PTL DEF Spec

-----------------------------------------------------------------------------
(* A load-use stall.                                                       *)

\* A load is held in executeStruct for an instruction that names its register,
\* and no data access is being waited for.
HeldInv ==
    StallFlag = 1 =>
        /\ executeStruct.op \in Loads
        /\ Matching(executeStruct.Rt) # {}
        /\ fresh_data_stall = 0 /\ data_stall = 0 /\ update_data_cache = 0

\* The load keeps its block in the cache.
StallInv ==
    /\ HeldInv
    /\ StallFlag = 1 /\ executeStruct.op = "LDUR" => IsHit(data_cache, AccessAddress)

(* The held load does not miss: it passed memory once.                     *)
LEMMA HeldLoadHits ==
  ASSUME StallInv, StallFlag = 1
  PROVE  ~DataMiss
  BY DEF StallInv, HeldInv, DataMiss, DataHit, ProbedCache, Loads

(* Every stage keeps it so; only check_stall begins or ends a stall.       *)
LEMMA StallStep ==
  ASSUME StateInv, StallInv, [Next]_vars
  PROVE  StallInv'
  <1>t. ControlTypeOK /\ WaitStages /\ MissIsReplayed /\ DataInv
    BY DEF StateInv, ControlInv
  <1>i. data_stall \in Nat /\ {fresh_data_stall, update_data_cache, StallFlag} \subseteq {0, 1}
    BY <1>t, PipelineAssumption DEF ControlTypeOK, Flag
  <1>1. CASE UNCHANGED <<StallFlag, executeStruct, decodeStruct, fresh_data_stall, data_stall,
                         update_data_cache, data_cache>>
    BY <1>1 DEF StallInv, HeldInv, Matching, AccessAddress
  <1>2. CASE StallFlag' = 0
    BY <1>2 DEF StallInv, HeldInv
  <1>3. CASE StallCycle
    BY <1>3, <1>t, <1>i DEF StallCycle, StallInv, HeldInv, WaitStages, controlVars
  <1>4. CASE SkipWriteBack
    BY <1>4, <1>i DEF SkipWriteBack, StallInv, HeldInv, controlVars
  <1>5. CASE MemLoad
    <2>1. SUFFICES ASSUME StallFlag' = 1 PROVE StallInv'
      BY <1>2, <1>5, <1>i DEF MemLoad, check_stall
    <2> DEFINE m == [Latched EXCEPT !.RtVal = LoadedValue]
    <2>2. m.Rt = executeStruct.Rt
      BY LatchedFields
    <2>3. check_stall(m)
      BY <1>5 DEF MemLoad
    <2> HIDE DEF m
    <2>4. StallFlag = 0 /\ Matching(executeStruct.Rt) # {}
      BY <1>i, <2>1, <2>2, <2>3 DEF check_stall
    <2>5. /\ UNCHANGED <<executeStruct, decodeStruct, fresh_data_stall, data_stall>>
          /\ executeStruct.op \in Loads /\ stage = "mem"
          /\ IF executeStruct.op = "LDUR"
             THEN data_cache' = AfterHit /\ update_data_cache' = 0
             ELSE UNCHANGED <<data_cache, update_data_cache>>
      BY <1>5 DEF MemLoad
    <2>6. fresh_data_stall = 0 /\ data_stall = 0
      BY <1>i, <1>t, <2>5 DEF WaitStages, MissIsReplayed
    <2>7. update_data_cache' = 0
      <3>1. CASE executeStruct.op = "LDUR"
        BY <2>5, <3>1
      <3>2. CASE executeStruct.op # "LDUR"
        <4>1. executeStruct.op \notin {"STUR", "LDUR"}
          BY <2>5, <3>2 DEF Loads
        <4> QED BY <1>i, <1>t, <2>5, <3>2, <4>1 DEF MissIsReplayed
      <3> QED BY <3>1, <3>2
    <2>8. executeStruct.op = "LDUR" => IsHit(data_cache', AccessAddress)
      <3> DEFINE c == check_cache_hit(ProbedCache, AccessAddress)
      <3>1. IsCache(c, DataSets, DataWays)
        <4>1. IsCache(ProbedCache, DataSets, DataWays) /\ AccessAddress \in Nat
          BY <1>t, DataCacheKept, AccessAddresses, Inclusions
        <4>2. DataSets \in SupportedSetCounts /\ DataWays \in Nat \ {0}
          BY PipelineAssumption
        <4> QED BY <4>1, <4>2, CacheKept
      <3>2. AfterHit = FillBoth(c)
        BY DEF AfterHit
      <3> HIDE DEF c
      <3>3. IsHit(AfterHit, AccessAddress)
        BY <1>t, <3>1, <3>2, BothFillsStay
      <3> QED BY <2>5, <3>3
    <2>9. Matching(executeStruct.Rt)' = Matching(executeStruct.Rt)
          /\ AccessAddress' = AccessAddress
      BY <2>5 DEF Matching, AccessAddress
    <2> QED BY <2>4, <2>5, <2>6, <2>7, <2>8, <2>9 DEF StallInv, HeldInv
  <1>6. CASE MemStore
    <2>1. StallFlag = 0
      BY <1>6, <1>i DEF MemStore, StallInv, HeldInv, Loads
    <2> QED BY <1>2, <1>6, <2>1 DEF MemStore, controlVars
  <1>7. CASE MemMiss
    <2>1. StallFlag = 0
      BY <1>7, <1>i, HeldLoadHits DEF MemMiss
    <2> QED BY <1>2, <1>7, <2>1 DEF MemMiss, controlVars
  <1>8. CASE Executed
    BY <1>2, <1>8 DEF Executed, Moves
  <1>9. CASE pipe_stage_decode
    <2>1. CASE StallFlag = 1
      BY <1>1, <1>9, <2>1 DEF pipe_stage_decode, caches, stallVars, controlVars
    <2>2. CASE StallFlag # 1
      BY <1>2, <1>9, <1>i, <2>2 DEF pipe_stage_decode, controlVars
    <2> QED BY <2>1, <2>2
  <1>10. CASE MemStoreNarrow \/ MemPass
    BY <1>1, <1>10 DEF MemStoreNarrow, MemPass, caches, stallVars, controlVars
  <1>11. CASE ExecuteStage
    BY <1>1, <1>8, <1>11, <1>t, ExecuteEffect
       DEF ExecuteStalled, latches, caches, stallVars, controlVars
  <1>12. CASE FetchStage
    BY <1>1, <1>12 DEF FetchStage, FetchStallCycle, FetchNothing, FetchHit, FetchMiss, Fetching,
                       FetchTurn, latches, caches, controlVars
  <1>13. CASE BeginCycle \/ MissCycle \/ Halted \/ UNCHANGED vars
    BY <1>1, <1>13 DEF BeginCycle, MissCycle, Halted, vars, latches, caches, stallVars,
                       controlVars
  <1>14. CASE pipe_stage_wb
    <2>1. /\ LatchesStay
          /\ UNCHANGED <<StallFlag, fresh_data_stall, data_stall, update_data_cache, data_cache>>
      BY <1>14, <1>t, WriteBackMovesNothing DEF pipe_stage_wb, caches, stallVars, controlVars
    <2>2. Matching(executeStruct.Rt)' = Matching(executeStruct.Rt)
          /\ AccessAddress' = AccessAddress
      BY <2>1 DEF LatchesStay, Matching, AccessAddress
    <2> QED BY <2>1, <2>2 DEF StallInv, HeldInv, LatchesStay
  <1> QED BY <1>3, <1>4, <1>5, <1>6, <1>7, <1>9, <1>10, <1>11, <1>12, <1>13, <1>14
          DEF Next, MemoryStage

(* check_stall: a load-use stall stands for a load whose register the      *)
(* instruction in decodeStruct names, and the load passes memory again     *)
(* without waiting for the cache.                                          *)
THEOREM StallsAreForLoads == Spec => []StallIsForALoad
  <1>1. Init => StateInv /\ StallInv
    BY ControlInit, RegisterInit, DataInit DEF StateInv, StallInv, HeldInv, Init
  <1>2. StateInv /\ StallInv /\ [Next]_vars => (StateInv /\ StallInv)'
    BY ControlStep, RegisterStep, DataStep, StallStep DEF StateInv
  <1>3. StallInv => StallIsForALoad
    BY HeldLoadHits DEF StallInv, HeldInv, StallIsForALoad
  <1> QED BY <1>1, <1>2, <1>3, PTL DEF Spec

-----------------------------------------------------------------------------
(* Bubbles.                                                                *)

\* In front of an empty fetchStruct decode has nothing either, so that the
\* word without an operation it finds there repeats a bubble.
BubbleInv ==
    /\ Bubble(fetchStruct) => fetchStruct.word = ZeroWord /\ decodeStruct.op = "NoOp"
    /\ Bubble(decodeStruct) => decodeStruct.op = "NoOp"
    /\ flushed = 1 => Bubble(fetchStruct) /\ decodeStruct.op = "NoOp"

(* execute keeps or clears the two latches behind it together.             *)
LEMMA ExecutedKeepsBubbles ==
  ASSUME BubbleInv, Executed
  PROVE  BubbleInv'
  <1> USE DEF BubbleInv, Bubble
  <1>1. CASE FrontKept /\ UNCHANGED flushed
    BY <1>1 DEF FrontKept
  <1>2. CASE FrontCleared
    BY <1>2 DEF FrontCleared, EmptyFetch
  <1> QED BY <1>1, <1>2 DEF Executed

(* Every stage keeps it, unless it fetches from address 0.                 *)
LEMMA BubbleStep ==
  ASSUME ControlTypeOK, BubbleInv, [Next]_vars, PC # 0
  PROVE  BubbleInv'
  <1> USE DEF BubbleInv, Bubble
  <1>1. CASE UNCHANGED <<fetchStruct, decodeStruct>> /\ flushed' \in {0, flushed}
    BY <1>1
  <1>2. CASE Executed
    BY <1>2, ExecutedKeepsBubbles
  <1>3. CASE ExecuteStage
    BY <1>1, <1>2, <1>3, ExecuteEffect DEF ExecuteStalled, latches, controlVars
  <1>4. CASE pipe_stage_decode
    <2>1. CASE StallFlag = 1
      BY <1>1, <1>4, <2>1 DEF pipe_stage_decode, controlVars
    <2>2. CASE StallFlag # 1
      <3>1. /\ UNCHANGED <<fetchStruct, flushed>>
            /\ decodeStruct'.PC = fetchStruct.PC
            /\ fetchStruct.word.op = "NONE" => decodeStruct'.op = decodeStruct.op
        BY <1>4, <2>2 DEF pipe_stage_decode, controlVars, Keepers
      <3>2. Bubble(fetchStruct) => decodeStruct'.op = "NoOp"
        BY <3>1 DEF ZeroWord
      <3> QED BY <3>1, <3>2
    <2> QED BY <2>1, <2>2
  <1>5. CASE FetchHit
    BY <1>5 DEF FetchHit, Fetching, FetchTurn, FetchHeld
  <1>6. CASE FetchStallCycle \/ FetchNothing \/ FetchMiss
    BY <1>1, <1>6 DEF FetchStallCycle, FetchNothing, FetchMiss, Fetching, FetchTurn, latches,
                      controlVars
  <1>7. CASE MemoryStage
    BY <1>1, <1>7 DEF MemoryStage, MemLoad, MemStore, MemStoreNarrow, MemPass, MemMiss,
                      controlVars
  <1>8. CASE BeginCycle \/ StallCycle \/ pipe_stage_wb \/ SkipWriteBack \/ MissCycle
             \/ Halted \/ UNCHANGED vars
    BY <1>1, <1>8 DEF BeginCycle, StallCycle, pipe_stage_wb, SkipWriteBack, MissCycle, Halted,
                      vars, latches, controlVars
  <1> QED BY <1>3, <1>4, <1>5, <1>6, <1>7, <1>8 DEF Next, FetchStage

(* Flushes and HLT: a slot of the front end without an address is a bubble *)
(* and stays one, in a run that does not reach address 0.  (A program that *)
(* branches to 0 fetches the empty word there, which decodes to the        *)
(* operation before it: that one would have the address of a bubble.)      *)
THEOREM FlushesLeaveBubbles == Spec /\ [](PC # 0) => []FlushLeavesBubbles
  <1>1. Init => ControlInv /\ BubbleInv
    BY ControlInit DEF Init, BubbleInv, EmptyFetch
  <1>2. ControlInv /\ BubbleInv /\ PC # 0 /\ [Next]_vars => (ControlInv /\ BubbleInv)'
    BY ControlStep, BubbleStep DEF ControlInv
  <1>3. BubbleInv => FlushLeavesBubbles
    BY DEF BubbleInv, FlushLeavesBubbles
  <1> QED BY <1>1, <1>2, <1>3, PTL DEF Spec

-----------------------------------------------------------------------------
(* Only branches are predicted taken.                                      *)

\* An address that holds a branch, or a word that may repeat one.
BranchAt(a) == InstructionAt(a).op \in Branches \cup Keepers

BranchInv ==
    /\ \A i \in Indexes : branch_predictor.BTB[i].valid = 1 =>
           BranchAt(branch_predictor.BTB[i].pr_address)
    /\ decodeStruct.op \in Branches => BranchAt(decodeStruct.PC)
    /\ OnlyBranchesPredictedTaken

(* The simulator starts with an empty table.                               *)
LEMMA BranchInit == Init => BranchInv
  BY DEF Init, BranchInv, EmptyPredictor, InvalidEntry, OnlyBranchesPredictedTaken, Bubble,
         EmptyFetch, Branches, FlagBranches, ZeroTests

(* Every stage keeps it: execute enters the address of the branch it       *)
(* executes in the table, and fetch takes a prediction from a row only if  *)
(* the row has the very address it fetches from.                           *)
LEMMA BranchStep ==
  ASSUME StateInv, TravelInv, BranchInv, [Next]_vars
  PROVE  BranchInv'
  <1>t. ControlTypeOK /\ DataInv
    BY DEF StateInv, ControlInv
  <1>a. \A x : BranchAt(x)' <=> BranchAt(x)
    <2>1. \A x : InstructionAt(x)' = InstructionAt(x)
      BY TextStays
    <2> QED BY <2>1 DEF BranchAt
  <1>n. "NoOp" \notin Branches
    BY DEF Branches, FlagBranches, ZeroTests
  <1>1. CASE UNCHANGED <<branch_predictor, fetchStruct, decodeStruct, IFtoID_BP>>
    BY <1>1, <1>a DEF BranchInv, OnlyBranchesPredictedTaken, Bubble
  <1>2. CASE Executed
    <2>1. decodeStruct'.op \in Branches => BranchAt(decodeStruct'.PC)
      BY <1>2, <1>n DEF Executed, FrontKept, FrontCleared, BranchInv
    <2>2. OnlyBranchesPredictedTaken'
      <3>1. IFtoID_BP' = IFtoID_BP
        BY <1>2 DEF Executed, Moves
      <3>2. fetchStruct' = fetchStruct \/ fetchStruct' = EmptyFetch
        BY <1>2 DEF Executed, FrontKept, FrontCleared
      <3> QED BY <3>1, <3>2 DEF BranchInv, OnlyBranchesPredictedTaken, Bubble, EmptyFetch
    <2>3. ASSUME NEW i \in Indexes, branch_predictor'.BTB[i].valid = 1
          PROVE  BranchAt(branch_predictor'.BTB[i].pr_address)
      <3>1. CASE UNCHANGED branch_predictor
        BY <2>3, <3>1 DEF BranchInv
      <3>2. CASE ExecuteBranch
        <4> DEFINE taken == IF BranchTaken(decodeStruct.op) THEN 1 ELSE 0
                   cond  == IF decodeStruct.op \in {"B", "BR"} THEN 0 ELSE 1
                   to    == CorrectAddress(decodeStruct)
        <4>1. /\ branch_predictor' =
                     bp_update(branch_predictor, decodeStruct.PC, to, taken, cond)
              /\ decodeStruct.op \in Branches
              /\ taken \in {0, 1}
          BY <3>2 DEF ExecuteBranch
        <4>2. TablesOK(branch_predictor)
          BY <1>t DEF DataInv, DataTypeOK, TablesOK
        <4> HIDE DEF taken, cond, to
        <4>3. Updated(branch_predictor, branch_predictor', decodeStruct.PC, to, cond)
          BY <4>1, <4>2, UpdatedTables DEF TablesOK
        <4>4. branch_predictor'.BTB =
                 [branch_predictor.BTB EXCEPT
                     ![address_bits(decodeStruct.PC)] =
                         [pr_address |-> decodeStruct.PC, br_address |-> to,
                          valid |-> 1, cond |-> cond]]
          BY <4>3 DEF Updated
        <4>5. BranchAt(decodeStruct.PC)
          BY <4>1 DEF BranchInv
        <4>6. CASE i = address_bits(decodeStruct.PC)
          BY <4>2, <4>4, <4>5, <4>6 DEF TablesOK
        <4>7. CASE i # address_bits(decodeStruct.PC)
          BY <2>3, <4>2, <4>4, <4>7 DEF TablesOK, BranchInv
        <4> QED BY <4>6, <4>7
      <3>3. UNCHANGED branch_predictor \/ ExecuteBranch
        BY <1>2 DEF Executed, Moves, Next, vars, BeginCycle, StallCycle, pipe_stage_wb,
                    SkipWriteBack, MemoryStage, MemLoad, MemStore, MemStoreNarrow, MemPass,
                    MemMiss, MissCycle, ExecuteStage, ExecuteStalled, ExecuteNoOp, ExecuteAlu,
                    ExecuteCompare, ExecuteLoad, ExecuteStore, ExecuteHalt, HaltUntouched,
                    pipe_stage_decode, FetchStage, FetchStallCycle, FetchNothing, FetchHit,
                    FetchMiss, Fetching, FetchTurn, Halted, predictVars
      <3> QED BY <3>1, <3>2, <3>3
    <2> QED BY <1>a, <2>1, <2>2, <2>3 DEF BranchInv
  <1>3. CASE ExecuteStage
    BY <1>1, <1>2, <1>3, <1>t, ExecuteEffect DEF ExecuteStalled, latches, predictVars
  <1>4. CASE pipe_stage_decode
    <2>1. CASE StallFlag = 1
      BY <1>1, <1>4, <2>1 DEF pipe_stage_decode
    <2>2. CASE StallFlag # 1
      <3> DEFINE w == fetchStruct.word
      <3>1. /\ decodeStruct'.PC = fetchStruct.PC
            /\ decodeStruct'.op = IF w.op \in Keepers THEN decodeStruct.op ELSE OperationOf(w)
            /\ UNCHANGED <<branch_predictor, fetchStruct, IFtoID_BP>>
        BY <1>4, <2>2 DEF pipe_stage_decode
      <3>2. BranchInv /\ UNCHANGED <<branch_predictor, fetchStruct, IFtoID_BP>> =>
               /\ OnlyBranchesPredictedTaken'
               /\ \A i \in Indexes : branch_predictor'.BTB[i].valid = 1 =>
                     BranchAt(branch_predictor'.BTB[i].pr_address)
        BY DEF BranchInv, OnlyBranchesPredictedTaken, Bubble
      <3>3. ASSUME decodeStruct'.op \in Branches
            PROVE  BranchAt(fetchStruct.PC)
        <4>1. CASE Bubble(fetchStruct)
          <5>1. program \in Programs
            BY <1>t DEF ControlTypeOK
          <5> QED BY <4>1, <5>1, NoWordAtZero DEF Bubble, BranchAt, ZeroWord, Keepers
        <4>2. CASE ~Bubble(fetchStruct)
          <5>1. w = InstructionAt(fetchStruct.PC)
            BY <4>2 DEF TravelInv
          <5> HIDE DEF w
          <5>2. w.op \in Keepers \/ w.op \in Branches
            <6>1. w.op \notin Keepers => OperationOf(w) \in Branches
              BY <3>1, <3>3
            <6>2. OperationOf(w) \in Branches => w.op \in Branches
              BY DEF OperationOf, Branches, FlagBranches, ZeroTests
            <6> QED BY <6>1, <6>2
          <5> QED BY <5>1, <5>2 DEF BranchAt
        <4> QED BY <4>1, <4>2
      <3> QED BY <1>a, <3>1, <3>2, <3>3 DEF BranchInv
    <2> QED BY <2>1, <2>2
  <1>5. CASE FetchHit
    <2>1. /\ UNCHANGED <<branch_predictor, decodeStruct>>
          /\ fetchStruct' = [PC |-> PC, word |-> InstructionAt(PC)]
          /\ IFtoID_BP' = bp_predict(branch_predictor, PC)
      BY <1>5 DEF FetchHit, Fetching, FetchTurn
    <2>2. ASSUME bp_predict(branch_predictor, PC).pred_taken = 1
          PROVE  BranchAt(PC)
      <3> DEFINE i == address_bits(PC)
      <3>1. i \in Indexes
        BY <1>t, TableIndexes DEF DataInv, DataTypeOK
      <3>2. branch_predictor.BTB[i].valid = 1 /\ branch_predictor.BTB[i].pr_address = PC
        BY <2>2 DEF bp_predict
      <3> HIDE DEF i
      <3> QED BY <3>1, <3>2 DEF BranchInv
    <2>3. OnlyBranchesPredictedTaken'
      BY <2>1, <2>2 DEF OnlyBranchesPredictedTaken, BranchAt
    <2> QED BY <1>a, <2>1, <2>3 DEF BranchInv
  <1>6. CASE FetchStallCycle \/ FetchNothing \/ FetchMiss
    BY <1>1, <1>6 DEF FetchStallCycle, FetchNothing, FetchMiss, Fetching, FetchTurn, latches,
                      predictVars
  <1>7. CASE MemoryStage
    BY <1>1, <1>7 DEF MemoryStage, MemLoad, MemStore, MemStoreNarrow, MemPass, MemMiss,
                      predictVars
  <1>8. CASE BeginCycle \/ StallCycle \/ pipe_stage_wb \/ SkipWriteBack \/ MissCycle
             \/ Halted \/ UNCHANGED vars
    BY <1>1, <1>8 DEF BeginCycle, StallCycle, pipe_stage_wb, SkipWriteBack, MissCycle, Halted,
                      vars, latches, predictVars
  <1> QED BY <1>3, <1>4, <1>5, <1>6, <1>7, <1>8 DEF Next, FetchStage

(* bp_predict, as pipe_stage_fetch uses it: what is fetched with a         *)
(* prediction of `taken' is a branch, or a word that may repeat one.       *)
THEOREM NothingElseIsSentAstray == Spec => []OnlyBranchesPredictedTaken
  <1>1. Init => StateInv /\ TravelInv /\ BranchInv
    BY ControlInit, RegisterInit, DataInit, TravelInit, BranchInit DEF StateInv
  <1>2. StateInv /\ TravelInv /\ BranchInv /\ [Next]_vars
           => (StateInv /\ TravelInv /\ BranchInv)'
    BY ControlStep, RegisterStep, DataStep, TravelStep, BranchStep DEF StateInv
  <1>3. BranchInv => OnlyBranchesPredictedTaken
    BY DEF BranchInv
  <1> QED BY <1>1, <1>2, <1>3, PTL DEF Spec

-----------------------------------------------------------------------------
(* All the invariants together, for those who drive the machine.           *)

MachineInv ==
    StateInv /\ HaltInv /\ FetchWaitOver /\ StallInv /\ TravelInv /\ BranchInv

(* pipe_init establishes them ...                                          *)
LEMMA MachineInit == Init => MachineInv
  BY ControlInit, RegisterInit, DataInit, HaltInit, TravelInit, BranchInit
     DEF MachineInv, StateInv, FetchWaitOver, StallInv, HeldInv, Init

(* ... and every step keeps them.                                          *)
LEMMA MachineStep ==
  ASSUME MachineInv, [Next]_vars
  PROVE  MachineInv'
  BY ControlStep, RegisterStep, DataStep, HaltStep, FetchWaitStep, StallStep, TravelStep,
     BranchStep
     DEF MachineInv, StateInv

(* What they promise.                                                      *)
LEMMA MachinePromises ==
  ASSUME MachineInv
  PROVE  /\ TypeOK
         /\ MissIsReplayed /\ RetryHits /\ StallIsForALoad
         /\ HaltDrains /\ StopsOnlyByHalt
         /\ OutOfBoundsOnlyByBCond
         /\ PredictionTravelsAlong /\ OnlyBranchesPredictedTaken
  <1>1. TypeOK /\ MissIsReplayed
    BY DEF MachineInv, StateInv, ControlInv, DataInv, TypeOK
  <1>2. RetryHits
    BY FilledBlocksHit DEF MachineInv, StateInv
  <1>3. StallIsForALoad
    BY HeldLoadHits DEF MachineInv, StallInv, HeldInv, StallIsForALoad
  <1>4. HaltDrains /\ StopsOnlyByHalt
    BY DEF MachineInv, HaltInv
  <1>5. OutOfBoundsOnlyByBCond
    BY IndexesNamed DEF MachineInv, StateInv
  <1>6. PredictionTravelsAlong
    BY DEF MachineInv, TravelInv, PredictionTravelsAlong, Foretells
  <1>7. OnlyBranchesPredictedTaken
    BY DEF MachineInv, BranchInv
  <1> QED BY <1>1, <1>2, <1>3, <1>4, <1>5, <1>6, <1>7

-----------------------------------------------------------------------------
\* What of this does not depend on the caches, nor on what is forwarded when
\* and dropped behind a HLT: the part that the first version of the pipeline
\* has in common with this one, until it executes its HLT.
CommonInv ==
    StateInv /\ HaltInv /\ HeldInv /\ TravelInv /\ OnlyBranchesPredictedTaken

(* It is a part of the invariant.                                          *)
LEMMA MachineIsCommon ==
  ASSUME MachineInv
  PROVE  CommonInv
  BY DEF MachineInv, CommonInv, StallInv, BranchInv
=============================================================================
