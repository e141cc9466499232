---------------------------- MODULE FirstPipeline ---------------------------
(***************************************************************************)
(* pipe_old.c: the pipeline before it had caches.  It is kept beside       *)
(* pipe.c and has the same interface, latches and predictor; the Makefile  *)
(* builds pipe.c.  No cycle waits for memory, so the variables of the two  *)
(* caches stand still, and what nothing reads (cycleCounter, BFlag and     *)
(* CBFlag) is left out.  What else is different:                           *)
(*   - the forwarding flags are never reset: the three assignments stand   *)
(*     behind the last `break' of the switch in pipe_stage_execute;        *)
(*   - SUBS sets the flags of a zero result in execute;                    *)
(*   - HLT drops nothing of what is behind it;                             *)
(*   - fetch asks bp_predict about the instruction word, not its address.  *)
(***************************************************************************)
EXTENDS PipelineArchitecture

\* What no stage of this version touches.
noCaches == <<program, caches, stallVars>>

-----------------------------------------------------------------------------
\* The shell calls cycle() only while RUN_BIT is set.
FirstBegin ==
    /\ stage = "begin" /\ RUN_BIT = 1
    /\ stat_cycles < MaxCycles
    /\ stage' = "wb"
    /\ UNCHANGED <<noCaches, mem, REGS, PC, flagVars, statVars, latches, forwardVars,
                   predictVars, controlVars>>

\* Write-back and decode have not changed since.
FirstWriteBack == pipe_stage_wb

\* Every memory access is done at once.
FirstAccess ==
    /\ stage = "mem"
    /\ stage' = "execute"
    /\ UNCHANGED <<noCaches, REGS, PC, flagVars, statVars, fetchStruct, decodeStruct,
                   executeStruct, predictVars, HaltFlag, flushed>>

FirstLoad ==
    /\ FirstAccess
    /\ executeStruct.op \in Loads
    /\ check_stall([Latched EXCEPT !.RtVal = LoadedValue])
    /\ CheckDependency
    /\ UNCHANGED mem

\* Mutant: the high word of a STUR is forgotten.
FirstStoreLow ==
    /\ FirstAccess
    /\ executeStruct.op \in Stores
    /\ mem' = mem_write_32(mem, executeStruct.storeAddress, executeStruct.storeValLow)
    /\ memoryStruct' = Latched
    /\ CheckDependency
    /\ UNCHANGED StallFlag

FirstStore ==
    /\ FirstAccess
    /\ executeStruct.op \in Stores
    /\ LET low == mem_write_32(mem, executeStruct.storeAddress, executeStruct.storeValLow)
       IN  mem' = IF executeStruct.op = "STUR"
                  THEN mem_write_32(low, HighAddress, executeStruct.storeValHigh)
                  ELSE low
    /\ memoryStruct' = Latched
    /\ CheckDependency
    /\ UNCHANGED StallFlag

FirstPass ==
    /\ FirstAccess
    /\ executeStruct.op \notin Loads \cup Stores
    /\ memoryStruct' = Latched
    /\ CheckDependency
    /\ UNCHANGED <<mem, StallFlag>>

-----------------------------------------------------------------------------
(* Execute.                                                                *)

FirstExecuting ==
    /\ stage = "execute"
    /\ StallFlag = 0
    /\ stage' = "decode"
    /\ UNCHANGED <<noCaches, mem, REGS, FLAG_N, FLAG_Z, statVars, memoryStruct,
                   forwardVars, IFtoID_BP, IDtoEX_BP, StallFlag>>

\* What every operation that is no branch leaves alone.
NoFlush == UNCHANGED <<PC, fetchStruct, decodeStruct, branch_predictor, flushed>>

\* An operation with a result for Rd.
Computes(ops) ==
    /\ FirstExecuting /\ NoFlush
    /\ decodeStruct.op \in ops
    /\ executeStruct' = [Carried EXCEPT !.RdVal = Result(decodeStruct)]
    /\ UNCHANGED <<temp_FLAG_N, temp_FLAG_Z, HaltFlag>>

FirstSum        == Computes({"ADD", "ADDI", "ADDS", "ADDSI"})
FirstLogic      == Computes({"AND", "ANDS", "EOR", "ORR"})
FirstShift      == Computes({"LSLI", "LSRI"})
FirstDifference == Computes({"SUB", "SUBI", "SUBSI"})
FirstProduct    == Computes({"MUL"})
FirstMove       == Computes({"MOVZ"})

\* The comparison result is 0 whatever the operands are.
FirstSubs ==
    /\ FirstExecuting /\ NoFlush
    /\ decodeStruct.op = "SUBS"
    /\ executeStruct' = [Carried EXCEPT !.RdVal = Result(decodeStruct), !.cmpResult = 0]
    /\ temp_FLAG_Z' = 1 /\ temp_FLAG_N' = 0
    /\ UNCHANGED HaltFlag

FirstCompare ==
    /\ FirstExecuting /\ NoFlush
    /\ decodeStruct.op \in Compares
    /\ LET sumSubs == ToInt(Result(decodeStruct))
       IN  /\ executeStruct' = [Carried EXCEPT !.cmpResult = sumSubs]
           /\ temp_FLAG_Z' = ZFlag(sumSubs)
           /\ temp_FLAG_N' = NFlag(sumSubs)
    /\ UNCHANGED HaltFlag

FirstLoadAddress ==
    /\ FirstExecuting /\ NoFlush
    /\ decodeStruct.op \in Loads
    /\ executeStruct' =
           [Carried EXCEPT !.loadValLow = ToWord(EffectiveAddress(decodeStruct))]
    /\ UNCHANGED <<temp_FLAG_N, temp_FLAG_Z, HaltFlag>>

\* Only STUR stores more than a byte.
FirstStoreAddress ==
    /\ FirstExecuting /\ NoFlush
    /\ decodeStruct.op \in Stores
    /\ LET wide == decodeStruct.op = "STUR"
       IN  executeStruct' = [Carried EXCEPT
              !.storeAddress = ToLong(EffectiveAddress(decodeStruct)),
              !.storeValLow  = IF wide THEN ToWord(Operand("Rt")) ELSE LowByte(Operand("Rt")),
              !.storeValHigh = IF wide THEN HighWord(Operand("Rt")) ELSE @]
    /\ UNCHANGED <<temp_FLAG_N, temp_FLAG_Z, HaltFlag>>

\* Decode and fetch go on until the HLT is written back; nothing is cleared.
FirstHalt ==
    /\ FirstExecuting /\ NoFlush
    /\ decodeStruct.op = "HLT"
    /\ executeStruct' = Carried
    /\ HaltFlag' = 1
    /\ UNCHANGED <<temp_FLAG_N, temp_FLAG_Z>>

FirstNoOp ==
    /\ FirstExecuting /\ NoFlush
    /\ decodeStruct.op = "NoOp"
    /\ executeStruct' = Carried
    /\ UNCHANGED <<temp_FLAG_N, temp_FLAG_Z, HaltFlag>>

\* A branch tells the predictor where it went, and flushes if that was not
\* foretold.
Resolves(ops, cond) ==
    /\ FirstExecuting
    /\ decodeStruct.op \in ops
    /\ LET d       == decodeStruct
           taken   == IF BranchTaken(d.op) THEN 1 ELSE 0
           correct == CorrectAddress(d)
           flush   == must_flush(IDtoEX_BP, correct, taken)
       IN  /\ branch_predictor' =
                  bp_update(branch_predictor, d.PC, correct, taken, cond)
           /\ PC'           = IF flush THEN correct ELSE PC
           /\ decodeStruct' = IF flush THEN clearDecodeStruct(d) ELSE d
           /\ fetchStruct'  = IF flush THEN EmptyFetch ELSE fetchStruct
           /\ flushed'      = IF flush THEN 1 ELSE flushed
    /\ executeStruct' = Carried
    /\ UNCHANGED <<temp_FLAG_N, temp_FLAG_Z, HaltFlag>>

FirstJump        == Resolves({"B"}, 0)
FirstJumpTo      == Resolves({"BR"}, 0)
FirstZeroTest    == Resolves({"CBZ", "CBNZ"}, 1)
FirstConditional == Resolves(FlagBranches, 1)

FirstStalled == ExecuteStalled

-----------------------------------------------------------------------------
(* Decode and fetch.                                                       *)

FirstDecode == pipe_stage_decode

FirstFetchTurn ==
    /\ stage = "fetch"
    /\ EndCycle
    /\ UNCHANGED <<noCaches, mem, REGS, flagVars, RUN_BIT, stat_inst_retire,
                   decodeStruct, executeStruct, memoryStruct, forwardVars, IDtoEX_BP,
                   branch_predictor, HaltFlag, StallFlag>>

FirstFetchNothing ==
    /\ FirstFetchTurn
    /\ FetchHeld
    /\ flushed' = IF StallFlag = 1 \/ HaltFlag = 1 THEN flushed ELSE 0
    /\ UNCHANGED <<PC, fetchStruct, IFtoID_BP>>

\* bp_predict looks for the word among the addresses of branches.  No word of
\* an operation is one; a word without an operation could be, and is taken not
\* to be: the prediction is always `not taken'.
FirstFetch ==
    /\ FirstFetchTurn
    /\ ~FetchHeld
    /\ fetchStruct' = [PC |-> PC, word |-> InstructionAt(PC)]
    /\ IFtoID_BP' = [pred_address |-> ToLong(PC + 4), pred_taken |-> 0]
    /\ PC' = IFtoID_BP'.pred_address
    /\ UNCHANGED flushed

-----------------------------------------------------------------------------
FirstNext ==
    \/ FirstBegin \/ FirstWriteBack
    \/ FirstLoad \/ FirstStore \/ FirstPass
    \/ FirstSum \/ FirstLogic \/ FirstShift \/ FirstDifference \/ FirstProduct
    \/ FirstMove \/ FirstSubs \/ FirstCompare \/ FirstLoadAddress \/ FirstStoreAddress
    \/ FirstJump \/ FirstJumpTo \/ FirstZeroTest \/ FirstConditional
    \/ FirstHalt \/ FirstNoOp
    \/ FirstStalled
    \/ FirstDecode
    \/ FirstFetchNothing \/ FirstFetch

FirstSpec == Init /\ [][FirstNext]_vars

-----------------------------------------------------------------------------
(* The comparison with the instruction set, as for pipe.c.  One departure  *)
(* is this version's own: a store behind a HLT reaches memory in the cycle *)
(* in which the HLT is written back.                                       *)
StoresBehindHalt == Commits /\ ~Running /\ executeStruct.op \in Stores

FirstHistoryNext ==
    FirstNext /\ Record(IF StoresBehindHalt THEN {"behind_halt"} ELSE {})

FirstHistorySpec ==
    Init /\ HistoryInit /\ [][FirstHistoryNext]_<<vars, archHistory>>
=============================================================================
