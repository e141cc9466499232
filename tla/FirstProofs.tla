----------------------------- MODULE FirstProofs -----------------------------
(***************************************************************************)
(* The first version of the pipeline implements the instruction set too.   *)
(*                                                                         *)
(* Its steps are those of pipe.c that never wait for memory (FirstSteps),  *)
(* so the lemmas about pipe.c carry over as long as no HLT has been        *)
(* executed: BeforeHalt collects their invariants.  From then on the two   *)
(* differ, for the first version goes on with what is behind the HLT.      *)
(* Nothing is known of those instructions but their types; what saves the  *)
(* program is that none of them is ahead of the HLT: it is the next one to *)
(* leave memory, and behind it write-back is not reached a second time.    *)
(* The stores among them do reach memory: the departure `behind_halt'.     *)
(***************************************************************************)
EXTENDS FirstPipeline, RefinementProofs

-----------------------------------------------------------------------------
(* What a step of this version is.                                         *)

\* No cycle waits for memory.
Still ==
    /\ fresh_data_stall = 0 /\ data_stall = 0 /\ update_data_cache = 0
    /\ instruction_stall = 0 /\ update_instruction_cache = 0

\* The calls that are the same in both versions.
SharedStep == pipe_stage_wb \/ ExecuteStalled \/ pipe_stage_decode \/ FetchNothing

(* An access that is done at once is one that passes memory.               *)
LEMMA FirstMemory ==
  ASSUME ControlTypeOK, Still, FirstLoad \/ FirstStore \/ FirstPass
  PROVE  HandsOn
  <1>f. /\ DOMAIN Latched = {"op", "Rd", "Rt", "RdVal", "RtVal", "cmpResult"}
        /\ Latched.op = executeStruct.op
        /\ Latched.Rd = executeStruct.Rd
        /\ Latched.Rt = executeStruct.Rt
    BY LatchedFields
  <1>g. CheckDependency => forward' \subseteq forward \cup Matching(executeStruct.Rd)
    BY DEF CheckDependency, Forward
  <1>m. /\ stage = "mem" /\ stage' = "execute" /\ MemoryKept
        /\ UNCHANGED <<REGS, flagVars, predictVars>>
        /\ update_data_cache' = 0 /\ update_data_cache = 0
    BY DEF FirstLoad, FirstStore, FirstPass, FirstAccess, noCaches, stallVars, MemoryKept,
           Still, statVars
  <1>1. CASE FirstLoad
    <2> DEFINE m == [Latched EXCEPT !.RtVal = LoadedValue]
    <2>1. /\ DOMAIN m = {"op", "Rd", "Rt", "RdVal", "RtVal", "cmpResult"}
          /\ m.op = executeStruct.op
          /\ m.Rd = executeStruct.Rd
          /\ m.Rt = executeStruct.Rt
      BY LatchedFields
    <2>2. /\ DOMAIN clearMemoryStruct(m) = DOMAIN m
          /\ clearMemoryStruct(m).op = "NoOp"
          /\ clearMemoryStruct(m).Rd = 0 /\ clearMemoryStruct(m).Rt = 0
      BY <2>1, ClearedMemory
    <2>3. check_stall(m) /\ executeStruct.op \in Loads /\ CheckDependency /\ UNCHANGED mem
      BY <1>1 DEF FirstLoad
    <2>4. /\ DOMAIN memoryStruct' = {"op", "Rd", "Rt", "RdVal", "RtVal", "cmpResult"}
          /\ IF StallFlag = 1 THEN Forgotten ELSE Remembered
          /\ IF StallFlag = 1 THEN StallFlag' = 0 ELSE StallFlag' \in Flag
      <3> HIDE DEF m
      <3> QED BY <2>1, <2>2, <2>3 DEF check_stall, Forgotten, Remembered, Flag
    <2>5. executeStruct.op \notin Stores /\ executeStruct.op # "STUR"
      BY <2>3, Apart
    <2>6. Passed
      BY <1>g, <1>m, <2>3, <2>4 DEF Passed
    <2> QED BY <1>m, <2>3, <2>5, <2>6 DEF HandsOn
  <1>2. CASE FirstStore
    <2>1. /\ executeStruct.op \in Stores /\ executeStruct.op \notin Loads
          /\ memoryStruct' = Latched /\ CheckDependency /\ UNCHANGED StallFlag
      BY <1>2, Apart DEF FirstStore
    <2>2. Passed
      BY <1>f, <1>g, <1>m, <2>1 DEF Passed, Remembered
    <2>3. mem' = LET low == mem_write_32(mem, executeStruct.storeAddress,
                                         executeStruct.storeValLow)
                 IN  IF executeStruct.op = "STUR"
                     THEN mem_write_32(low, HighAddress, executeStruct.storeValHigh)
                     ELSE low
      BY <1>2 DEF FirstStore
    <2> QED BY <1>m, <2>1, <2>2, <2>3 DEF HandsOn
  <1>3. CASE FirstPass
    <2>1. /\ executeStruct.op \notin Stores /\ executeStruct.op \notin Loads
          /\ memoryStruct' = Latched /\ CheckDependency /\ UNCHANGED <<mem, StallFlag>>
      BY <1>3 DEF FirstPass
    <2>2. Passed
      BY <1>f, <1>g, <1>m, <2>1 DEF Passed, Remembered
    <2> QED BY <1>m, <2>1, <2>2, Apart DEF HandsOn
  <1> QED BY <1>1, <1>2, <1>3

\* The operations execute handles here, each with what it does.
FirstExecution ==
    \/ FirstSum \/ FirstLogic \/ FirstShift \/ FirstDifference \/ FirstProduct
    \/ FirstMove \/ FirstSubs \/ FirstCompare \/ FirstLoadAddress \/ FirstStoreAddress
    \/ FirstJump \/ FirstJumpTo \/ FirstZeroTest \/ FirstConditional
    \/ FirstHalt \/ FirstNoOp

(* The operations with a result are those of the first version.            *)
LEMMA FirstResults ==
  /\ {"ADD", "ADDI", "ADDS", "ADDSI"} \cup {"AND", "ANDS", "EOR", "ORR"}
         \cup {"LSLI", "LSRI"} \cup {"SUB", "SUBI", "SUBSI"} \cup {"MUL"} \cup {"MOVZ"}
         \cup {"SUBS"} = WritesRd
  /\ {"B"} \subseteq Branches /\ {"BR"} \subseteq Branches
  /\ {"CBZ", "CBNZ"} \subseteq Branches /\ FlagBranches \subseteq Branches
  /\ "SUBS" \notin {"ADD", "ADDI", "ADDS", "ADDSI"} \cup {"AND", "ANDS", "EOR", "ORR"}
         \cup {"LSLI", "LSRI"} \cup {"SUB", "SUBI", "SUBSI"} \cup {"MUL"} \cup {"MOVZ"}
  BY DEF WritesRd, AluRegister, AluImmediate, Branches, FlagBranches, ZeroTests

(* The cases of execute are those of pipe.c, with their results, flags and *)
(* branches; what is forwarded stays so, and a HLT drops nothing.          *)
LEMMA FirstExecute ==
  ASSUME ControlTypeOK, FirstExecution
  PROVE  Executed /\ Acts
  <1> DEFINE d == decodeStruct
  <1>c. /\ DOMAIN Carried = DOMAIN executeStruct
        /\ Carried.op = d.op /\ Carried.Rd = d.Rd /\ Carried.Rt = d.Rt
        /\ Carried.RdVal = executeStruct.RdVal
        /\ Carried.cmpResult = executeStruct.cmpResult
        /\ Carried.storeAddress = executeStruct.storeAddress
        /\ Carried.storeValLow = executeStruct.storeValLow
        /\ Carried.storeValHigh = executeStruct.storeValHigh
        /\ Carried.loadValLow = executeStruct.loadValLow
    BY CarriedFields DEF Carried, ControlTypeOK
  <1>d. PICK c : c = Carried
    OBVIOUS
  <1>t. DOMAIN executeStruct = {"op", "Rd", "Rt", "RdVal", "cmpResult", "storeAddress",
                                "storeValLow", "storeValHigh", "loadValLow"}
    BY DEF ControlTypeOK
  <1>m. FirstExecuting => Moves /\ UNCHANGED <<instruction_stall, update_instruction_cache>>
    BY DEF FirstExecuting, noCaches, stallVars, forwardVars, Moves
  <1>n. NoFlush => FrontKept /\ UNCHANGED <<PC, branch_predictor, flushed>>
    BY DEF NoFlush, FrontKept
  <1>o. "HLT" \notin WritesRd \cup Loads \cup Stores \cup Compares \cup Branches
        /\ "NoOp" \notin WritesRd \cup Loads \cup Stores \cup Compares \cup Branches
    BY OperationClasses DEF Operations, WritesRd, Stores
  <1>1. ASSUME FirstSum \/ FirstLogic \/ FirstShift \/ FirstDifference \/ FirstProduct
                   \/ FirstMove
        PROVE  Executed /\ Acts
    <2>1. /\ FirstExecuting /\ NoFlush
          /\ d.op \in WritesRd \ {"SUBS"}
          /\ executeStruct' = [c EXCEPT !.RdVal = Result(d)]
          /\ UNCHANGED <<temp_FLAG_N, temp_FLAG_Z, HaltFlag>>
      BY <1>1, <1>d, FirstResults
         DEF FirstSum, FirstLogic, FirstShift, FirstDifference, FirstProduct, FirstMove, Computes
    <2>2. Computed /\ Sent
      BY <1>c, <1>d, <1>t, <2>1, Apart DEF Computed, Sent
    <2> QED BY <1>m, <1>n, <1>o, <2>1, <2>2, Apart
            DEF Executed, Acts, Compared, Steered, FrontKept
  <1>2. ASSUME FirstSubs
        PROVE  Executed /\ Acts
    <2>1. /\ FirstExecuting /\ NoFlush
          /\ d.op = "SUBS" /\ d.op \in WritesRd
          /\ executeStruct' = [c EXCEPT !.RdVal = Result(d), !.cmpResult = 0]
          /\ temp_FLAG_Z' = 1 /\ temp_FLAG_N' = 0
          /\ UNCHANGED HaltFlag
      BY <1>2, <1>d, Apart DEF FirstSubs
    <2>2. Computed /\ Sent
      BY <1>c, <1>d, <1>t, <2>1, Apart DEF Computed, Sent
    <2> QED BY <1>m, <1>n, <1>o, <2>1, <2>2, Apart
            DEF Executed, Acts, Compared, Steered, FrontKept, Flag
  <1>3. ASSUME FirstCompare
        PROVE  Executed /\ Acts
    <2>1. /\ FirstExecuting /\ NoFlush
          /\ d.op \in Compares
          /\ executeStruct' = [c EXCEPT !.cmpResult = ToInt(Result(d))]
          /\ temp_FLAG_Z' = ZFlag(ToInt(Result(d)))
          /\ temp_FLAG_N' = NFlag(ToInt(Result(d)))
          /\ UNCHANGED HaltFlag
      BY <1>3, <1>d DEF FirstCompare
    <2>2. Computed /\ Sent
      BY <1>c, <1>d, <1>t, <2>1, Apart DEF Computed, Sent
    <2> QED BY <1>m, <1>n, <1>o, <2>1, <2>2, Apart
            DEF Executed, Acts, Compared, Steered, FrontKept
  <1>4. ASSUME FirstLoadAddress
        PROVE  Executed /\ Acts
    <2>1. /\ FirstExecuting /\ NoFlush
          /\ d.op \in Loads
          /\ executeStruct' = [c EXCEPT !.loadValLow = ToWord(EffectiveAddress(d))]
          /\ UNCHANGED <<temp_FLAG_N, temp_FLAG_Z, HaltFlag>>
      BY <1>4, <1>d DEF FirstLoadAddress
    <2>2. Computed /\ Sent
      BY <1>c, <1>d, <1>t, <2>1, Apart DEF Computed, Sent
    <2> QED BY <1>m, <1>n, <1>o, <2>1, <2>2, Apart
            DEF Executed, Acts, Compared, Steered, FrontKept
  <1>5. ASSUME FirstStoreAddress
        PROVE  Executed /\ Acts
    <2> DEFINE wide == d.op = "STUR"
               low  == IF wide THEN ToWord(Operand("Rt")) ELSE LowByte(Operand("Rt"))
               high == IF wide THEN HighWord(Operand("Rt")) ELSE Carried.storeValHigh
    <2>1. /\ FirstExecuting /\ NoFlush
          /\ d.op \in Stores
          /\ executeStruct' = [c EXCEPT !.storeAddress = ToLong(EffectiveAddress(d)),
                                        !.storeValLow  = low,
                                        !.storeValHigh = high]
          /\ UNCHANGED <<temp_FLAG_N, temp_FLAG_Z, HaltFlag>>
      BY <1>5, <1>d DEF FirstStoreAddress
    <2>2. /\ DOMAIN executeStruct' = DOMAIN c
          /\ executeStruct'.op = c.op /\ executeStruct'.Rd = c.Rd /\ executeStruct'.Rt = c.Rt
          /\ executeStruct'.RdVal = c.RdVal /\ executeStruct'.cmpResult = c.cmpResult
          /\ executeStruct'.loadValLow = c.loadValLow
          /\ executeStruct'.storeAddress = ToLong(EffectiveAddress(d))
          /\ executeStruct'.storeValLow = low
          /\ executeStruct'.storeValHigh = high
      <3> HIDE DEF low, high
      <3> QED BY <1>c, <1>d, <1>t, <2>1
    <2>3. Computed /\ Sent
      BY <1>c, <1>d, <2>1, <2>2, Apart DEF Computed, Sent
    <2> QED BY <1>m, <1>n, <1>o, <2>1, <2>3, Apart
            DEF Executed, Acts, Compared, Steered, FrontKept
  <1>6. ASSUME FirstHalt \/ FirstNoOp
        PROVE  Executed /\ Acts
    <2>1. /\ FirstExecuting /\ NoFlush
          /\ d.op \in {"HLT", "NoOp"} /\ executeStruct' = Carried
          /\ HaltFlag' = IF d.op = "HLT" THEN 1 ELSE HaltFlag
          /\ UNCHANGED <<temp_FLAG_N, temp_FLAG_Z>>
      BY <1>6 DEF FirstHalt, FirstNoOp
    <2>2. Computed /\ Sent
      BY <1>c, <1>o, <2>1 DEF Computed, Sent
    <2> QED BY <1>m, <1>n, <1>o, <2>1, <2>2, Apart
            DEF Executed, Acts, Compared, Steered, FrontKept
  <1>7. ASSUME FirstJump \/ FirstJumpTo \/ FirstZeroTest \/ FirstConditional
        PROVE  Executed /\ Acts
    <2> DEFINE taken   == IF BranchTaken(d.op) THEN 1 ELSE 0
               correct == CorrectAddress(d)
               flush   == must_flush(IDtoEX_BP, correct, taken)
    <2>0. PICK ops, cond : Resolves(ops, cond) /\ ops \subseteq Branches /\ cond \in Flag
      <3>1. ASSUME NEW group, NEW bit,
                   Resolves(group, bit), group \subseteq Branches, bit \in Flag
            PROVE  \E x, y : Resolves(x, y) /\ x \subseteq Branches /\ y \in Flag
        BY <3>1, Zenon
      <3>2. 0 \in Flag /\ 1 \in Flag
        BY DEF Flag
      <3>3. /\ {"B"} \subseteq Branches /\ {"BR"} \subseteq Branches
            /\ {"CBZ", "CBNZ"} \subseteq Branches /\ FlagBranches \subseteq Branches
        BY FirstResults
      <3>4. \/ Resolves({"B"}, 0) \/ Resolves({"BR"}, 0)
            \/ Resolves({"CBZ", "CBNZ"}, 1) \/ Resolves(FlagBranches, 1)
        BY <1>7 DEF FirstJump, FirstJumpTo, FirstZeroTest, FirstConditional
      <3> QED BY <3>1, <3>2, <3>3, <3>4, Zenon
    <2>1. /\ FirstExecuting
          /\ d.op \in Branches /\ executeStruct' = Carried
          /\ UNCHANGED <<temp_FLAG_N, temp_FLAG_Z, HaltFlag>>
          /\ branch_predictor' = bp_update(branch_predictor, d.PC, correct, taken, cond)
          /\ PC'           = IF flush THEN correct ELSE PC
          /\ decodeStruct' = IF flush THEN clearDecodeStruct(d) ELSE d
          /\ fetchStruct'  = IF flush THEN EmptyFetch ELSE fetchStruct
          /\ flushed'      = IF flush THEN 1 ELSE flushed
      BY <2>0 DEF Resolves
    <2>2. Computed /\ Sent
      BY <1>c, <2>1, Apart DEF Computed, Sent
    <2>3. IF flush THEN FrontCleared /\ flushed' = 1 /\ PC' = correct
                   ELSE FrontKept /\ UNCHANGED <<PC, flushed>>
      BY <2>1, ClearedFields DEF FrontCleared, FrontKept
    <2>4. Steered
      BY <2>0, <2>1, <2>3 DEF Steered, FrontKept
    <2> HIDE DEF taken, correct, flush
    <2> QED BY <1>m, <1>o, <2>1, <2>2, <2>3, <2>4, Apart DEF Executed, Acts, Compared
  <1> QED BY <1>1, <1>2, <1>3, <1>4, <1>5, <1>6, <1>7 DEF FirstExecution

(* An instruction is fetched as in pipe.c, but for the prediction.         *)
LEMMA FirstFetches ==
  ASSUME Still, FirstFetch
  PROVE  Fetched
  BY DEF FirstFetch, FirstFetchTurn, EndCycle, Fetched, Still, noCaches, stallVars

(* What a step of the first version is, in the terms of pipe.c.            *)
LEMMA FirstSteps ==
  ASSUME ControlTypeOK, Still, FirstNext
  PROVE  /\ \/ FirstBegin
            \/ SharedStep /\ Next
            \/ HandsOn
            \/ Executed /\ Acts
            \/ FirstFetch /\ Fetched
         /\ UNCHANGED <<caches, stallVars>>
  <1> USE DEF Still
  <1>1. CASE FirstBegin
    BY <1>1 DEF FirstBegin, noCaches
  <1>2. CASE FirstWriteBack
    BY <1>2 DEF FirstWriteBack, SharedStep, Next, pipe_stage_wb
  <1>3. CASE FirstLoad \/ FirstStore \/ FirstPass
    BY <1>3, FirstMemory DEF FirstLoad, FirstStore, FirstPass, FirstAccess, noCaches
  <1>4. CASE FirstExecution
    <2>1. UNCHANGED noCaches
      BY <1>4 DEF FirstExecution, FirstSum, FirstLogic, FirstShift, FirstDifference,
                  FirstProduct, FirstMove, FirstSubs, FirstCompare, FirstLoadAddress,
                  FirstStoreAddress, FirstJump, FirstJumpTo, FirstZeroTest, FirstConditional,
                  FirstHalt, FirstNoOp, Computes, Resolves, FirstExecuting
    <2> QED BY <1>4, <2>1, FirstExecute DEF noCaches
  <1>5. CASE FirstStalled
    BY <1>5 DEF FirstStalled, SharedStep, Next, ExecuteStage, ExecuteStalled
  <1>6. CASE FirstDecode
    BY <1>6 DEF FirstDecode, SharedStep, Next, pipe_stage_decode
  <1>7. CASE FirstFetchNothing
    <2>1. FetchNothing
      BY <1>7 DEF FirstFetchNothing, FirstFetchTurn, FetchNothing, FetchTurn, noCaches,
                  caches, stallVars
    <2> QED BY <1>7, <2>1 DEF FirstFetchNothing, FirstFetchTurn, SharedStep, Next, FetchStage,
                              noCaches
  <1>8. CASE FirstFetch
    BY <1>8, FirstFetches DEF FirstFetch, FirstFetchTurn, noCaches
  <1> QED BY <1>1, <1>2, <1>3, <1>4, <1>5, <1>6, <1>7, <1>8 DEF FirstNext, FirstExecution

-----------------------------------------------------------------------------
(* What holds before and after the HLT.                                    *)

\* The types, a load-use stall, and the calls of pipe_cycle that are made.
KeptInv ==
    /\ StateInv /\ HeldInv /\ Still
    /\ stage \notin {"stall", "miss"}
    /\ stage = "wb" => RUN_BIT = 1

(* The simulator starts without a wait.                                    *)
LEMMA KeptInit == Init => KeptInv
  <1> SUFFICES ASSUME Init PROVE KeptInv
    OBVIOUS
  <1>1. StateInv /\ HeldInv
    BY MachineInit, MachineIsCommon DEF CommonInv
  <1> QED BY <1>1 DEF Init, KeptInv, Still

(* Every step keeps the types.                                             *)
LEMMA KeptStep ==
  ASSUME KeptInv, FirstNext
  PROVE  KeptInv'
  <1>t. /\ StateInv /\ HeldInv /\ Still /\ stage \notin {"stall", "miss"}
        /\ ControlInv /\ RegisterInv /\ DataInv /\ ControlTypeOK /\ WaitStages
        /\ stage = "wb" => RUN_BIT = 1
    BY DEF KeptInv, StateInv, ControlInv
  <1>s. /\ Still' /\ UNCHANGED caches /\ MissIsReplayed'
    BY <1>t, FirstSteps DEF Still, stallVars, MissIsReplayed
  <1>i. IsCache(data_cache', DataSets, DataWays)
    BY <1>t, <1>s DEF DataInv, DataTypeOK, caches
  <1>1. CASE FirstBegin
    <2>1. ControlInv'
      BY <1>1, <1>s, <1>t DEF FirstBegin, noCaches, caches, stallVars, statVars, latches,
                forwardVars, controlVars, Stages, ControlInv, ControlTypeOK, WaitStages, Still
    <2>2. RegisterInv'
      BY <1>1, <1>t DEF FirstBegin, noCaches, latches, RegisterInv, Names, MayRead,
                HasUnlistedCondition, InstructionAt
    <2>3. DataInv'
      BY <1>1, <1>t, DataKept DEF FirstBegin, dataVars, noCaches, forwardVars
    <2>4. HeldInv'
      BY <1>1, <1>s, <1>t DEF FirstBegin, latches, controlVars, HeldInv, Matching, Still
    <2> QED BY <1>1, <1>s, <2>1, <2>2, <2>3, <2>4 DEF FirstBegin, KeptInv, StateInv, statVars
  <1>2. CASE SharedStep /\ Next
    <2>1. StateInv'
      BY <1>2, <1>t, ControlStep, RegisterStep, DataStep DEF StateInv
    <2>2. HeldInv'
      <3>1. CASE pipe_stage_wb
        BY <1>s, <1>t, <3>1, WriteBackMovesNothing
           DEF pipe_stage_wb, LatchesStay, controlVars, HeldInv, Matching, Still
      <3>2. CASE ExecuteStalled \/ pipe_stage_decode \/ FetchNothing
        BY <1>s, <1>t, <3>2 DEF ExecuteStalled, pipe_stage_decode, FetchNothing, FetchTurn,
                  latches, controlVars, HeldInv, Matching, Still
      <3> QED BY <1>2, <3>1, <3>2 DEF SharedStep
    <2>3. stage' \in {"mem", "decode", "fetch", "begin"}
      BY <1>2 DEF SharedStep, pipe_stage_wb, ExecuteStalled, pipe_stage_decode,
                FetchNothing, FetchTurn, EndCycle
    <2> QED BY <1>s, <2>1, <2>2, <2>3 DEF KeptInv
  <1>3. CASE HandsOn
    <2>p. Passed /\ stage' = "execute" /\ UNCHANGED <<executeStruct, decodeStruct>>
      BY <1>3 DEF HandsOn, Passed, MemoryKept
    <2>1. StateInv'
      BY <1>3, <1>i, <1>s, <1>t, <2>p, PassedKeepsControl, LatchesKeepNames, DataHandsOn
         DEF StateInv, caches
    <2>2. HeldInv'
      <3>1. StallFlag' = 1 => executeStruct.op \in Loads /\ Matching(executeStruct.Rt) # {}
        BY <1>3, <1>t, <2>p, HandedOn DEF Passed, HeldInv, ControlTypeOK, Flag
      <3> QED BY <1>s, <2>p, <3>1 DEF HeldInv, Matching, Still
    <2> QED BY <1>s, <2>p, <2>1, <2>2 DEF KeptInv
  <1>4. CASE Executed /\ Acts
    <2>p. stage' = "decode" /\ StallFlag' = 0
      BY <1>4 DEF Executed, Moves
    <2>1. StateInv'
      BY <1>4, <1>t, ExecutedKeepsControl, LatchesKeepNames, DataActs DEF StateInv
    <2> QED BY <1>s, <2>p, <2>1 DEF KeptInv, HeldInv
  <1>5. CASE FirstFetch /\ Fetched
    <2>f. /\ stage = "fetch" /\ stage' = "begin" /\ stat_cycles' = stat_cycles + 1
          /\ fetchStruct' = [PC |-> PC, word |-> InstructionAt(PC)]
          /\ IFtoID_BP' = [pred_address |-> ToLong(PC + 4), pred_taken |-> 0]
          /\ PC' = ToLong(PC + 4)
          /\ UNCHANGED <<noCaches, mem, REGS, flagVars, RUN_BIT, stat_inst_retire,
                   decodeStruct, executeStruct, memoryStruct, forwardVars, IDtoEX_BP,
                   branch_predictor, HaltFlag, StallFlag, flushed>>
      BY <1>5 DEF FirstFetch, FirstFetchTurn, EndCycle
    <2>1. ControlInv'
      <3>1. IsInstruction(InstructionAt(PC))
        BY <1>t, InstructionsAreWords DEF ControlTypeOK
      <3>2. stat_cycles + 1 \in 0 .. MaxCycles
        BY <1>t, <2>f, PipelineAssumption DEF WaitStages, ControlTypeOK
      <3> QED BY <1>s, <1>t, <2>f, <3>1, <3>2 DEF noCaches, stallVars, forwardVars, Stages,
                ControlInv, ControlTypeOK, WaitStages, Still
    <2>2. RegisterInv'
      BY <1>t, <2>f DEF RegisterInv, Names, MayRead, HasUnlistedCondition, InstructionAt,
                noCaches
    <2>3. DataInv'
      <3>1. PC \in Long /\ ToLong(PC + 4) \in Long
        BY <1>t, Conversions, Inclusions DEF DataInv, DataTypeOK
      <3>2. IFtoID_BP' \in Prediction
        BY <2>f, <3>1 DEF Prediction, Flag
      <3> QED BY <1>t, <2>f, <3>1, <3>2 DEF DataInv, DataTypeOK, MovesLong, noCaches, caches,
                flagVars, forwardVars
    <2>4. HeldInv'
      BY <1>s, <1>t, <2>f DEF HeldInv, Matching, Still
    <2> QED BY <1>s, <2>f, <2>1, <2>2, <2>3, <2>4 DEF KeptInv, StateInv
  <1> QED BY <1>t, <1>1, <1>2, <1>3, <1>4, <1>5, FirstSteps

-----------------------------------------------------------------------------
(* Until a HLT is executed.                                                *)

\* The two versions have this in common, ...
FrontHolds == TravelInv /\ BubbleInv /\ OrderInv /\ OperandInv /\ FlagInv /\ DecodedInv

\* ... and of this one: nothing is predicted taken, and the mark of a flush
\* does not outlive its cycle.
BeforeHalt ==
    HaltFlag = 0 =>
        /\ RUN_BIT = 1 /\ "HLT" \notin {executeStruct.op, memoryStruct.op}
        /\ IFtoID_BP.pred_taken = 0 /\ IDtoEX_BP.pred_taken = 0
        /\ flushed = 1 => stage \in {"decode", "fetch"} /\ StallFlag = 0
        /\ FrontHolds

(* What the lemmas about pipe.c rest on.                                   *)
LEMMA FirstIsCommon ==
  ASSUME KeptInv, BeforeHalt, HaltFlag = 0
  PROVE  CommonInv
  <1>1. HaltInv
    BY DEF BeforeHalt, HaltInv, HaltDrains, StopsOnlyByHalt
  <1> QED BY <1>1 DEF KeptInv, BeforeHalt, FrontHolds, CommonInv, OnlyBranchesPredictedTaken

(* The simulator starts before the HLT.                                    *)
LEMMA BeforeInit ==
  ASSUME Init, HistoryInit
  PROVE  BeforeHalt
  <1>1. FrontHolds
    BY RefinementInit, MachineIsCommon DEF AllInv, RefinementInv, CommonInv, FrontHolds
  <1> QED BY <1>1 DEF Init, BeforeHalt

(* The start of a cycle leaves the latches of the front end alone, ...     *)
LEMMA BeginKeepsFront ==
  ASSUME KeptInv, BeforeHalt, HaltFlag = 0, FirstBegin, NEW found, Record(found)
  PROVE  FrontHolds'
  <1>c. CommonInv /\ FrontHolds /\ ControlTypeOK
    BY FirstIsCommon DEF BeforeHalt, CommonInv, StateInv, ControlInv
  <1>b. /\ UNCHANGED <<program, mem, REGS, PC, FLAG_N, FLAG_Z, temp_FLAG_N, temp_FLAG_Z,
                       RUN_BIT, fetchStruct, decodeStruct, executeStruct, memoryStruct,
                       forward, forwarded, IFtoID_BP, IDtoEX_BP, HaltFlag, StallFlag,
                       flushed, fresh_data_stall>>
        /\ stage = "begin" /\ stage' = "wb" /\ flushed # 1
    BY DEF FirstBegin, noCaches, stallVars, flagVars, statVars, latches, forwardVars,
           predictVars, controlVars, BeforeHalt
  <1>h. UNCHANGED <<flags, suspect>> /\ (overwritten' <=> overwritten)
    <2>1. ~Commits /\ ~Executes
      BY <1>b DEF Commits, Passes, Executes
    <2> QED BY <1>b, <2>1, FlagHistory, SuspectHistory
  <1>1. TravelInv' /\ BubbleInv'
    BY <1>b, <1>c DEF FrontHolds, TravelInv, BubbleInv, Bubble, Foretells, InstructionAt
  <1>2. OrderInv'
    <2>1. FrontRests /\ departures \subseteq departures'
      BY <1>b, <1>c, QuietHistory DEF FrontHolds, OrderInv, FrontRests
    <2> QED BY <1>c, <2>1, RestKeepsOrder DEF FrontHolds
  <1>3. OperandInv'
    BY <1>b, <1>c, <1>h, NothingMoves DEF FrontHolds
  <1>4. FlagInv'
    <2>1. (InMemory' <=> InMemory) /\ (InExecute' <=> InExecute)
      BY <1>b DEF InMemory, InExecute
    <2> QED BY <1>b, <1>c, <1>h, <2>1
            DEF FrontHolds, FlagInv, Late, Subtracts, TempFlags, WrittenFlags, Flags
  <1>5. DecodedInv'
    BY <1>b, <1>c, DecodedStays DEF FrontHolds
  <1> QED BY <1>1, <1>2, <1>3, <1>4, <1>5 DEF FrontHolds

(* ... and a fetch fills the first of them.                                *)
LEMMA FetchKeepsFront ==
  ASSUME KeptInv, BeforeHalt, HaltFlag = 0, FirstFetch, Fetched, PC # 0,
         NEW found, Record(found)
  PROVE  FrontHolds'
  <1>c. CommonInv /\ FrontHolds /\ ControlTypeOK
    BY FirstIsCommon DEF BeforeHalt, CommonInv, StateInv, ControlInv
  <1>b. /\ UNCHANGED <<program, mem, REGS, FLAG_N, FLAG_Z, temp_FLAG_N, temp_FLAG_Z,
                       RUN_BIT, decodeStruct, executeStruct, memoryStruct,
                       forward, forwarded, IDtoEX_BP, HaltFlag, StallFlag,
                       flushed, fresh_data_stall>>
        /\ stage = "fetch" /\ stage' = "begin" /\ flushed # 1 /\ StallFlag # 1
        /\ fetchStruct' = [PC |-> PC, word |-> InstructionAt(PC)]
        /\ IFtoID_BP'.pred_address = ToLong(PC + 4)
    BY DEF FirstFetch, FirstFetchTurn, FetchHeld, EndCycle, noCaches, stallVars, flagVars,
           forwardVars
  <1>h. UNCHANGED <<flags, suspect>> /\ (overwritten' <=> overwritten)
    <2>1. ~Commits /\ ~Executes
      BY <1>b DEF Commits, Passes, Executes
    <2> QED BY <1>b, <2>1, FlagHistory, SuspectHistory
  <1>1. TravelInv' /\ BubbleInv'
    <2>1. ~Bubble(fetchStruct')
      BY <1>b DEF Bubble
    <2>2. (fetchStruct.word = InstructionAt(fetchStruct.PC))'
      BY <1>b DEF InstructionAt
    <2> QED BY <1>b, <1>c, <2>1, <2>2 DEF FrontHolds, TravelInv, BubbleInv, Bubble, Foretells
  <1>2. OrderInv'
    BY <1>c, FetchedKeepsOrder DEF FrontHolds
  <1>3. OperandInv'
    BY <1>b, <1>c, <1>h, NothingMoves DEF FrontHolds
  <1>4. FlagInv'
    <2>1. (InMemory' <=> InMemory) /\ (InExecute' <=> InExecute)
      BY <1>b DEF InMemory, InExecute
    <2> QED BY <1>b, <1>c, <1>h, <2>1
            DEF FrontHolds, FlagInv, Late, Subtracts, TempFlags, WrittenFlags, Flags
  <1>5. DecodedInv'
    BY <1>b, <1>c, DecodedStays DEF FrontHolds
  <1> QED BY <1>1, <1>2, <1>3, <1>4, <1>5 DEF FrontHolds

(* An instruction passes memory, ...                                       *)
LEMMA MemoryKeepsFront ==
  ASSUME KeptInv, BeforeHalt, HaltFlag = 0, HandsOn, NEW found, Record(found)
  PROVE  FrontHolds'
  <1>c. /\ CommonInv /\ StateInv /\ HeldInv /\ HaltInv
        /\ FrontHolds /\ ControlTypeOK /\ WaitStages
    BY FirstIsCommon DEF BeforeHalt, CommonInv, StateInv, ControlInv
  <1>r. FrontRests /\ departures \subseteq departures'
    BY <1>c, HandsOnRests DEF FrontHolds, OrderInv
  <1>p. /\ UNCHANGED <<program, fetchStruct, decodeStruct, IFtoID_BP, IDtoEX_BP, flushed>>
        /\ stage = "mem"
    BY DEF HandsOn, Passed, MemoryKept, predictVars
  <1>1. TravelInv' /\ BubbleInv'
    BY <1>p, <1>c DEF FrontHolds, TravelInv, BubbleInv, Bubble, Foretells, InstructionAt
  <1>2. OrderInv'
    BY <1>c, <1>r, RestKeepsOrder DEF FrontHolds
  <1>3. OperandInv' /\ FlagInv'
    BY <1>c, MemoryKeepsOperands, MemoryKeepsFlags DEF FrontHolds
  <1>4. DecodedInv'
    BY <1>p, <1>c, DecodedStays DEF FrontHolds
  <1> QED BY <1>1, <1>2, <1>3, <1>4 DEF FrontHolds

(* ... or is executed.                                                     *)
LEMMA ExecuteKeepsFront ==
  ASSUME KeptInv, BeforeHalt, HaltFlag = 0, Executed, Acts, NEW found, Record(found)
  PROVE  FrontHolds'
  <1>c. CommonInv /\ FrontHolds /\ ControlTypeOK
    BY FirstIsCommon DEF BeforeHalt, CommonInv, StateInv, ControlInv
  <1>1. BubbleInv'
    BY <1>c, ExecutedKeepsBubbles DEF FrontHolds
  <1>2. OrderInv'
    BY <1>c, ExecuteKeepsOrder DEF FrontHolds
  <1>3. FlagInv'
    BY <1>c, ExecuteKeepsFlags DEF FrontHolds
  <1>4. DecodedInv'
    BY DEF Executed, Moves, DecodedInv, ToExecute
  <1>5. TravelInv'
    BY <1>c DEF FrontHolds, Executed, Moves, FrontKept, FrontCleared, TravelInv, Bubble,
           EmptyFetch, Foretells, InstructionAt
  <1>6. OperandInv'
    <2>1. suspect' = forward'
      <3>1. stage = "execute" /\ StallFlag = 0
        BY DEF Executed, Moves
      <3> QED BY <3>1 DEF Record, RecordForwarding, Passes
    <2>2. stage' = "decode" /\ StallFlag' = 0
      BY DEF Executed, Moves
    <2> QED BY <2>1, <2>2 DEF OperandInv
  <1> QED BY <1>1, <1>2, <1>3, <1>4, <1>5, <1>6 DEF FrontHolds

(* Every step up to the HLT keeps it so.                                   *)
LEMMA BeforeStep ==
  ASSUME KeptInv, BeforeHalt, FirstNext, PC # 0, NEW found, Record(found)
  PROVE  BeforeHalt'
  <1>t. /\ KeptInv /\ StateInv /\ HeldInv /\ Still /\ ControlInv /\ ControlTypeOK
        /\ HaltFlag \in {0, 1}
    BY DEF KeptInv, StateInv, ControlInv, ControlTypeOK, Flag
  <1>s. /\ \/ FirstBegin
           \/ SharedStep /\ Next
           \/ HandsOn
           \/ Executed /\ Acts
           \/ FirstFetch /\ Fetched
    BY <1>t, FirstSteps
  <1>0. HaltFlag' = 0 => HaltFlag = 0
    BY <1>t, <1>s DEF FirstBegin, controlVars, SharedStep, pipe_stage_wb, ExecuteStalled,
           pipe_stage_decode, FetchNothing, FetchTurn, HandsOn, Passed, MemoryKept, Executed,
           Fetched
  <1> SUFFICES ASSUME HaltFlag' = 0
               PROVE  BeforeHalt'
    BY DEF BeforeHalt
  <1>b. /\ HaltFlag = 0 /\ RUN_BIT = 1 /\ "HLT" \notin {executeStruct.op, memoryStruct.op}
        /\ IFtoID_BP.pred_taken = 0 /\ IDtoEX_BP.pred_taken = 0
        /\ flushed = 1 => stage \in {"decode", "fetch"} /\ StallFlag = 0
        /\ FrontHolds
    BY <1>0 DEF BeforeHalt
  <1>1. CASE FirstBegin
    <2>1. FrontHolds'
      BY <1>1, <1>b, BeginKeepsFront
    <2> QED BY <1>1, <1>b, <2>1
            DEF BeforeHalt, FirstBegin, statVars, latches, predictVars, controlVars
  <1>2. CASE SharedStep /\ Next
    <2>1. FrontHolds'
      <3>1. CommonInv
        BY <1>b, FirstIsCommon
      <3>2. [Next]_vars /\ [Next /\ Record(found)]_<<vars, archHistory>>
        BY <1>2
      <3> QED BY <1>t, <1>b, <3>1, <3>2, TravelStep, BubbleStep, OrderStep, OperandStep,
                 FlagStep, DecodedStep DEF FrontHolds
    <2>2. /\ RUN_BIT' = 1 /\ UNCHANGED <<memoryStruct, StallFlag>>
          /\ executeStruct'.op = executeStruct.op
          /\ IFtoID_BP' = IFtoID_BP /\ IDtoEX_BP' \in {IDtoEX_BP, IFtoID_BP}
      <3>1. CASE pipe_stage_wb
        BY <1>b, <1>t, <3>1, WriteBackMovesNothing
           DEF pipe_stage_wb, LatchesStay, predictVars, controlVars
      <3>2. CASE ExecuteStalled \/ pipe_stage_decode \/ FetchNothing
        BY <1>b, <3>2 DEF ExecuteStalled, pipe_stage_decode, FetchNothing, FetchTurn, latches,
                  statVars, predictVars, controlVars
      <3> QED BY <1>2, <3>1, <3>2 DEF SharedStep
    <2>3. flushed' = 1 => flushed = 1 /\ stage' \in {"decode", "fetch"}
      BY <1>2, <1>b DEF SharedStep, pipe_stage_wb, ExecuteStalled, pipe_stage_decode,
                FetchNothing, FetchTurn, controlVars
    <2> QED BY <1>b, <2>1, <2>2, <2>3 DEF BeforeHalt
  <1>3. CASE HandsOn
    <2>1. FrontHolds'
      BY <1>3, <1>b, MemoryKeepsFront
    <2>2. /\ stage = "mem" /\ memoryStruct'.op \in {executeStruct.op, "NoOp"}
          /\ UNCHANGED <<executeStruct, RUN_BIT, IFtoID_BP, IDtoEX_BP, flushed>>
      BY <1>3 DEF HandsOn, Passed, MemoryKept, Remembered, Forgotten, statVars, predictVars
    <2> QED BY <1>b, <2>1, <2>2 DEF BeforeHalt
  <1>4. CASE Executed /\ Acts
    <2>1. FrontHolds'
      BY <1>4, <1>b, ExecuteKeepsFront
    <2>2. /\ executeStruct'.op # "HLT" /\ stage' = "decode" /\ StallFlag' = 0
          /\ UNCHANGED <<memoryStruct, RUN_BIT, IFtoID_BP, IDtoEX_BP>>
      BY <1>4 DEF Executed, Moves, Sent, statVars
    <2> QED BY <1>b, <2>1, <2>2 DEF BeforeHalt
  <1>5. CASE FirstFetch /\ Fetched
    <2>1. FrontHolds'
      BY <1>5, <1>b, FetchKeepsFront
    <2>2. /\ UNCHANGED <<executeStruct, memoryStruct, RUN_BIT, IDtoEX_BP, flushed>>
          /\ IFtoID_BP'.pred_taken = 0 /\ flushed # 1
      BY <1>5 DEF FirstFetch, FirstFetchTurn, FetchHeld
    <2> QED BY <1>b, <2>1, <2>2 DEF BeforeHalt
  <1> QED BY <1>s, <1>1, <1>2, <1>3, <1>4, <1>5

-----------------------------------------------------------------------------
(* From then on.                                                           *)

\* Until it leaves memory, the HLT is what is in executeStruct.
AfterHalt == HaltFlag = 1 /\ Running => InExecute /\ executeStruct.op = "HLT"

(* The machine runs until a HLT has left memory, and not again.            *)
LEMMA StoppedForGood ==
  ASSUME KeptInv, FirstNext, ~Running
  PROVE  ~Running'
  <1>t. /\ ControlTypeOK /\ Still /\ UNCHANGED fresh_data_stall
        /\ \/ FirstBegin \/ SharedStep \/ HandsOn \/ Executed \/ FirstFetch
    BY FirstSteps DEF KeptInv, StateInv, ControlInv, stallVars
  <1>1. CASE pipe_stage_wb
    BY <1>1 DEF pipe_stage_wb, Running, InMemory
  <1>2. CASE HandsOn
    BY <1>2 DEF HandsOn, Passed, MemoryKept, statVars, Running, InMemory
  <1>3. CASE FirstBegin \/ ExecuteStalled \/ pipe_stage_decode \/ FetchNothing \/ Executed
             \/ FirstFetch
    <2>1. /\ UNCHANGED <<RUN_BIT, memoryStruct>>
          /\ stage # "mem" /\ stage' # "mem"
      BY <1>3 DEF FirstBegin, ExecuteStalled, pipe_stage_decode, FetchNothing, FetchTurn,
             EndCycle, Executed, Moves, FirstFetch, FirstFetchTurn, latches, statVars
    <2> QED BY <1>t, <2>1 DEF Running, InMemory
  <1> QED BY <1>t, <1>1, <1>2, <1>3 DEF SharedStep

(* The HLT stays where it is until memory hands it on.                     *)
LEMMA AfterStep ==
  ASSUME KeptInv, BeforeHalt, AfterHalt, FirstNext
  PROVE  AfterHalt'
  <1>t. /\ ControlTypeOK /\ Still /\ UNCHANGED fresh_data_stall
        /\ HaltFlag \in {0, 1} /\ fresh_data_stall = 0
        /\ \/ FirstBegin \/ SharedStep \/ HandsOn \/ Executed \/ FirstFetch
    BY FirstSteps DEF KeptInv, StateInv, ControlInv, ControlTypeOK, Flag, stallVars, Still
  <1>r. Running' => Running
    BY StoppedForGood
  <1>1. CASE Executed
    BY <1>1, <1>r, <1>t DEF Executed, Moves, Sent, AfterHalt, InExecute
  <1>2. CASE HandsOn
    <2>1. /\ stage = "mem" /\ stage' = "execute" /\ UNCHANGED HaltFlag
          /\ executeStruct.op \notin Loads =>
                 memoryStruct'.op = executeStruct.op
      BY <1>2 DEF HandsOn, Passed, MemoryKept, Remembered
    <2>2. "HLT" \notin Loads
      BY OperationClasses
    <2> QED BY <1>r, <1>t, <2>1, <2>2 DEF AfterHalt, Running, InMemory
  <1>3. CASE FirstBegin \/ SharedStep \/ FirstFetch
    <2>1. /\ UNCHANGED <<StallFlag, HaltFlag>> /\ executeStruct'.op = executeStruct.op
          /\ stage' # "execute"
      <3>1. CASE pipe_stage_wb
        BY <1>t, <3>1, WriteBackMovesNothing DEF pipe_stage_wb, LatchesStay, controlVars
      <3>2. CASE FirstBegin \/ ExecuteStalled \/ pipe_stage_decode \/ FetchNothing
                 \/ FirstFetch
        BY <3>2 DEF FirstBegin, ExecuteStalled, pipe_stage_decode, FetchNothing, FetchTurn,
               EndCycle, FirstFetch, FirstFetchTurn, latches, controlVars
      <3> QED BY <1>3, <3>1, <3>2 DEF SharedStep
    <2> QED BY <1>r, <2>1 DEF AfterHalt, InExecute
  <1> QED BY <1>t, <1>1, <1>2, <1>3

(* When the machine has stopped, what is behind the HLT changes nothing,   *)
(* unless it is a store.                                                   *)
LEMMA StoppedStays ==
  ASSUME KeptInv, FirstNext, ~Running, ~StoresBehindHalt, NEW found, Record(found)
  PROVE  UNCHANGED <<program, mem, Registers, flags, pc, Running>>
  <1>t. /\ ControlTypeOK /\ Still /\ HeldInv /\ UNCHANGED fresh_data_stall
        /\ fresh_data_stall = 0 /\ RUN_BIT \in {0, 1} /\ StallFlag \in {0, 1}
        /\ stage = "wb" => RUN_BIT = 1
        /\ \/ FirstBegin \/ SharedStep \/ HandsOn \/ Executed \/ FirstFetch
    BY FirstSteps DEF KeptInv, StateInv, ControlInv, ControlTypeOK, Flag, stallVars, Still
  <1>r. UNCHANGED Running
    BY StoppedForGood DEF Running
  <1>h. UNCHANGED <<pc, flags>>
    BY DEF Record, RecordInstruction
  <1>o. NextRegister(memoryStruct) = REGS \/ memoryStruct.op # "HLT"
    BY OperationClasses DEF NextRegister
  <1>1. CASE pipe_stage_wb
    <2>1. /\ UNCHANGED <<program, mem, memoryStruct>>
          /\ stage = "wb" /\ stage' = "mem" /\ REGS' = NextRegister(memoryStruct)
      BY <1>1 DEF pipe_stage_wb, latches
    <2>2. memoryStruct.op = "HLT" /\ InMemory
      BY <1>t, <2>1 DEF Running
    <2>3. Registers = REGS /\ Registers' = REGS
      BY <1>o, <2>1, <2>2 DEF Registers, InMemory
    <2> QED BY <1>h, <1>r, <2>1, <2>3
  <1>2. CASE HandsOn
    <2>1. /\ UNCHANGED <<program, REGS, RUN_BIT>> /\ stage = "mem" /\ stage' = "execute"
      BY <1>2 DEF HandsOn, Passed, MemoryKept, statVars
    <2>2. RUN_BIT # 1
      BY <2>1 DEF Running, InMemory
    <2>3. executeStruct.op \notin Stores
      <3>1. SUFFICES ASSUME executeStruct.op \in Stores PROVE FALSE
        OBVIOUS
      <3>2. executeStruct.op # "NoOp" /\ executeStruct.op \notin Loads
        BY <3>1, Apart DEF Stores
      <3>3. StallFlag = 0
        BY <1>t, <3>2 DEF HeldInv
      <3> QED BY <2>1, <3>1, <3>2, <3>3 DEF StoresBehindHalt, Commits, Passes
    <2>4. UNCHANGED mem
      BY <1>2, <2>3, Apart DEF HandsOn
    <2>5. Registers = REGS /\ Registers' = REGS
      BY <2>1, <2>2 DEF Registers
    <2> QED BY <1>h, <1>r, <2>1, <2>4, <2>5
  <1>3. CASE FirstBegin \/ ExecuteStalled \/ pipe_stage_decode \/ FetchNothing \/ Executed
             \/ FirstFetch
    <2>1. /\ UNCHANGED <<program, mem, REGS, RUN_BIT, memoryStruct>>
          /\ stage # "mem" /\ stage' # "mem"
      BY <1>3 DEF FirstBegin, ExecuteStalled, pipe_stage_decode, FetchNothing, FetchTurn,
             EndCycle, Executed, Moves, FirstFetch, FirstFetchTurn, noCaches, latches, statVars
    <2>2. UNCHANGED Registers
      BY <1>t, <2>1 DEF Registers, InMemory, NextRegister
    <2> QED BY <1>h, <1>r, <2>1, <2>2
  <1> QED BY <1>t, <1>1, <1>2, <1>3 DEF SharedStep

-----------------------------------------------------------------------------
(* The refinement.                                                         *)

FirstInv ==
    /\ KeptInv /\ BeforeHalt /\ AfterHalt
    /\ departures = {} /\ Running => IntsInv /\ StandInv

(* The first version starts as pipe.c does.                                *)
LEMMA FirstInit ==
  ASSUME Init, HistoryInit
  PROVE  FirstInv /\ Arch!Init
  <1>1. AllInv /\ Arch!Init
    BY RefinementInit
  <1>2. IntsInv /\ StandInv
    BY <1>1 DEF AllInv, RefinementInv, HistoryInit
  <1>3. AfterHalt
    BY DEF Init, AfterHalt
  <1> QED BY <1>1, <1>2, <1>3, KeptInit, BeforeInit DEF FirstInv

(* The start of a cycle and a fetch leave the program where it is.         *)
LEMMA BeginAndFetchAreQuiet ==
  ASSUME IntsInv, FirstBegin \/ FirstFetch, Still, UNCHANGED stallVars,
         NEW found, Record(found)
  PROVE  Quiet /\ IntsInv'
  <1>1. /\ UNCHANGED <<program, mem, REGS, executeStruct, memoryStruct, RUN_BIT, forward,
                       forwarded, StallFlag, HaltFlag, fresh_data_stall>>
        /\ stage \in {"begin", "fetch"} /\ stage' \in {"wb", "begin"}
    BY DEF FirstBegin, FirstFetch, FirstFetchTurn, EndCycle, noCaches, statVars, latches,
           forwardVars, stallVars, controlVars
  <1>2. (InExecute' <=> InExecute) /\ (InMemory' <=> InMemory)
    BY <1>1 DEF InExecute, InMemory
  <1>3. UNCHANGED <<pc, flags, current, successor, suspect>>
    <2>1. ~Executes /\ ~Commits
      BY <1>1 DEF Executes, Commits, Passes
    <2> QED BY <1>1, <2>1, QuietProgram, SuspectHistory
  <1>4. UNCHANGED <<Registers, Running>>
    BY <1>1, <1>2 DEF Registers, Running, NextRegister
  <1> QED BY <1>1, <1>2, <1>3, <1>4 DEF Quiet, IntsInv

(* A step of the running program: it goes on in execute, it is one step of *)
(* Architecture in memory, and nothing anywhere else.                      *)
LEMMA RunningStep ==
  ASSUME KeptInv, BeforeHalt, AfterHalt, IntsInv, StandInv, Running,
         FirstNext, NEW found, Record(found), departures' = {}
  PROVE  /\ IntsInv' /\ StandInv'
         /\ \/ Arch!Step
            \/ UNCHANGED <<program, mem, Registers, flags, pc, Running>>
  <1>t. /\ KeptInv /\ StateInv /\ HeldInv /\ Still /\ ControlTypeOK
        /\ stage = "wb" => RUN_BIT = 1
        /\ HaltFlag \in {0, 1}
    BY DEF KeptInv, StateInv, ControlInv, ControlTypeOK, Flag
  <1>s. /\ \/ FirstBegin
           \/ SharedStep /\ Next
           \/ HandsOn
           \/ Executed /\ Acts
           \/ FirstFetch /\ Fetched
        /\ UNCHANGED stallVars
    BY <1>t, FirstSteps
  <1>q. Quiet => StandInv' /\ UNCHANGED <<program, mem, Registers, flags, pc, Running>>
    BY QuietStands DEF Quiet
  <1>1. CASE FirstBegin \/ FirstFetch
    BY <1>1, <1>q, <1>s, <1>t, BeginAndFetchAreQuiet
  <1>2. CASE SharedStep /\ Next
    <2>1. ~Executes /\ ~Commits
      BY <1>2 DEF SharedStep, pipe_stage_wb, ExecuteStalled, pipe_stage_decode, FetchNothing,
             FetchTurn, Executes, Commits, Passes
    <2> QED BY <1>2, <1>q, <1>t, <2>1, OthersAreQuiet, IntsStep DEF IntsInv
  <1>3. CASE HandsOn
    <2>1. IntsInv'
      BY <1>3, <1>t, MemoryKeepsInts
    <2>2. CASE Commits
      BY <1>3, <1>t, <2>1, <2>2, CommitStands, CommitIsStep
    <2>3. CASE ~Commits
      BY <1>3, <1>q, <1>t, <2>1, <2>3, PassingIsQuiet
    <2> QED BY <2>2, <2>3
  <1>4. CASE Executed /\ Acts
    <2>e. ASSUME Executes
          PROVE  CommonInv /\ FrontHolds
      <3>1. HaltFlag = 0
        BY <1>t, <2>e DEF AfterHalt, InExecute, Executes
      <3> QED BY <1>t, <3>1, FirstIsCommon DEF BeforeHalt
    <2>1. IntsInv'
      BY <1>4, <2>e, ExecuteKeepsInts DEF FrontHolds
    <2>2. CASE Executes
      BY <1>4, <2>1, <2>2, <2>e, ExecuteStands DEF FrontHolds
    <2>3. CASE ~Executes
      BY <1>4, <1>q, <2>1, <2>3, BubbleIsQuiet
    <2> QED BY <2>2, <2>3
  <1> QED BY <1>s, <1>1, <1>2, <1>3, <1>4

(* Every step of the first version keeps the invariant, and is an          *)
(* instruction of Architecture, a departure from it, or invisible to it.   *)
LEMMA FirstRefinementStep ==
  ASSUME FirstInv, PC # 0, [FirstHistoryNext]_<<vars, archHistory>>
  PROVE  FirstInv' /\ [Arch!Next]_(Arch!archVars)
  <1>a. /\ KeptInv /\ BeforeHalt /\ AfterHalt
        /\ departures = {} /\ Running => IntsInv /\ StandInv
    BY DEF FirstInv
  <1>1. CASE FirstHistoryNext
    <2> DEFINE found == IF StoresBehindHalt THEN {"behind_halt"} ELSE {}
    <2>n. FirstNext /\ Record(found)
      BY <1>1 DEF FirstHistoryNext
    <2>d. departures' = {} => departures = {} /\ ~StoresBehindHalt
      BY <2>n, NothingDeparts
    <2> HIDE DEF found
    <2>1. KeptInv' /\ BeforeHalt' /\ AfterHalt'
      BY <1>a, <2>n, KeptStep, BeforeStep, AfterStep
    <2>2. CASE departures' # {}
      BY <2>1, <2>2 DEF FirstInv, Arch!Next, Arch!Depart
    <2>3. CASE departures' = {} /\ Running
      <3>1. /\ IntsInv' /\ StandInv'
            /\ \/ Arch!Step
               \/ UNCHANGED <<program, mem, Registers, flags, pc, Running>>
        BY <1>a, <2>d, <2>n, <2>3, RunningStep
      <3> QED BY <2>1, <2>d, <2>3, <3>1 DEF FirstInv, Arch!Next, Arch!archVars
    <2>4. CASE departures' = {} /\ ~Running
      <3>1. UNCHANGED <<program, mem, Registers, flags, pc, Running>>
        BY <1>a, <2>d, <2>n, <2>4, StoppedStays
      <3>2. ~Running'
        BY <1>a, <2>n, <2>4, StoppedForGood
      <3> QED BY <2>1, <2>d, <2>4, <3>1, <3>2 DEF FirstInv, Arch!archVars
    <2> QED BY <2>2, <2>3, <2>4
  <1>2. CASE UNCHANGED <<vars, archHistory>>
    <2>1. /\ UNCHANGED <<program, mem, REGS, RUN_BIT, executeStruct, memoryStruct,
                         decodeStruct, forward, forwarded, StallFlag, HaltFlag, flushed,
                         IFtoID_BP, IDtoEX_BP, fresh_data_stall, data_stall,
                         update_data_cache, instruction_stall, update_instruction_cache, stage>>
          /\ UNCHANGED archHistory
      BY <1>2 DEF vars, statVars, latches, forwardVars, stallVars, controlVars, predictVars
    <2>2. UNCHANGED <<pc, flags, current, successor, suspect, departures>>
      BY <2>1 DEF archHistory
    <2>3. (InMemory' <=> InMemory) /\ (InExecute' <=> InExecute)
      BY <2>1 DEF InMemory, InExecute
    <2>4. UNCHANGED <<Registers, Running>>
      BY <2>1, <2>3 DEF Registers, Running, NextRegister
    <2>n. [Next]_vars /\ [Next /\ Record({})]_<<vars, archHistory>>
      BY <1>2
    <2>5. KeptInv'
      <3>1. StateInv'
        BY <1>a, <2>n, ControlStep, RegisterStep, DataStep DEF KeptInv, StateInv
      <3> QED BY <1>a, <2>1, <3>1 DEF KeptInv, HeldInv, Still, Matching
    <2>6. BeforeHalt'
      <3>1. SUFFICES ASSUME HaltFlag = 0 PROVE BeforeHalt'
        BY <2>1 DEF BeforeHalt
      <3>2. CommonInv /\ StateInv /\ ControlInv /\ ControlTypeOK /\ HeldInv
        BY <1>a, <3>1, FirstIsCommon DEF CommonInv, StateInv, ControlInv
      <3>3. FrontHolds
        BY <1>a, <3>1 DEF BeforeHalt
      <3>4. FrontHolds'
        BY <2>n, <3>2, <3>3, TravelStep, BubbleStep, OrderStep, OperandStep, FlagStep,
           DecodedStep DEF FrontHolds
      <3> QED BY <1>a, <2>1, <3>4 DEF BeforeHalt
    <2>7. AfterHalt'
      BY <1>a, <2>1, <2>3, <2>4 DEF AfterHalt
    <2>8. departures = {} /\ Running => (IntsInv /\ StandInv)'
      <3>1. Quiet
        BY <2>1, <2>2, <2>3, <2>4 DEF Quiet
      <3> QED BY <1>a, <2>1, <2>2, <3>1, QuietStands DEF IntsInv, Proper
    <2> QED BY <2>1, <2>2, <2>4, <2>5, <2>6, <2>7, <2>8 DEF FirstInv, Arch!archVars
  <1> QED BY <1>1, <1>2

(* pipe_old.c implements the same instruction set: until one of the        *)
(* departures is reached, every instruction that leaves memory is the next *)
(* one of the program and has its effect, up to the first HLT, and what is *)
(* executed behind the HLT changes nothing but what it stores, which is    *)
(* the departure of this version.  For every program that does not run to  *)
(* address 0.                                                              *)
THEOREM FirstVersionImplementsArchitecture ==
  FirstHistorySpec /\ [](PC # 0) => ImplementsArchitecture
  <1>1. Init /\ HistoryInit => FirstInv /\ Arch!Init
    BY FirstInit
  <1>2. FirstInv /\ PC # 0 /\ [FirstHistoryNext]_<<vars, archHistory>>
           => FirstInv' /\ [Arch!Next]_(Arch!archVars)
    BY FirstRefinementStep
  <1> QED BY <1>1, <1>2, PTL DEF FirstHistorySpec, ImplementsArchitecture, Arch!Spec

(* pipe_old.c: up to its HLT execute takes the instructions in program     *)
(* order, and gives each the register values and flags that the ones       *)
(* before it leave, although the forwarding flags are never reset.         *)
THEOREM FirstVersionIsInOrder ==
  FirstHistorySpec /\ [](PC # 0) =>
      [](HaltFlag = 0 => InProgramOrder /\ OperandsAreCurrent /\ BranchesSeeTheFlags)
  <1>1. Init /\ HistoryInit => FirstInv
    BY FirstInit
  <1>2. FirstInv /\ PC # 0 /\ [FirstHistoryNext]_<<vars, archHistory>> => FirstInv'
    BY FirstRefinementStep
  <1>3. FirstInv =>
            (HaltFlag = 0 => InProgramOrder /\ OperandsAreCurrent /\ BranchesSeeTheFlags)
    BY FirstIsCommon, OrderFollows, OperandsFollow, FlagsFollow
       DEF FirstInv, BeforeHalt, FrontHolds
  <1> QED BY <1>1, <1>2, <1>3, PTL DEF FirstHistorySpec

(* pipe_old.c: every variable keeps its type, and only a B.cond without    *)
(* one of the six conditions makes an index leave REGS, also behind the    *)
(* HLT, where decode and execute go on with whatever was fetched.          *)
THEOREM FirstTypesHold == FirstSpec => [](TypeOK /\ OutOfBoundsOnlyByBCond)
  <1>1. Init => KeptInv
    BY KeptInit
  <1>2. KeptInv /\ [FirstNext]_vars => KeptInv'
    <2>1. ASSUME KeptInv, UNCHANGED vars
          PROVE  KeptInv'
      <3>1. StateInv'
        BY <2>1, ControlStep, RegisterStep, DataStep DEF KeptInv, StateInv
      <3> QED BY <2>1, <3>1 DEF KeptInv, HeldInv, Still, Matching, vars, statVars, latches,
                 stallVars, controlVars
    <2> QED BY <2>1, KeptStep
  <1>3. KeptInv => TypeOK /\ OutOfBoundsOnlyByBCond
    BY IndexesNamed DEF KeptInv, StateInv, ControlInv, DataInv, TypeOK
  <1> QED BY <1>1, <1>2, <1>3, PTL DEF FirstSpec
=============================================================================
