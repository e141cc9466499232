------------------------- MODULE ArchitectureProofs --------------------------
(***************************************************************************)
(* Proofs of what the refinement of the architecture rests on, whatever    *)
(* the program is: the instructions come to execute in program order, they *)
(* compute with the registers and branch on the flags that the ones before *)
(* them leave, except for the departures PipelineHistory names.            *)
(*                                                                         *)
(* Three invariants beside MachineInv.  OrderInv follows the chain of      *)
(* addresses from execute to PC: where each instruction leads, or is       *)
(* predicted to lead, the one behind it is, unless update_PC has stepped   *)
(* over that address.  OperandInv says through which of the latches the    *)
(* next instruction gets each value that no register holds yet.  FlagInv   *)
(* says which latch holds the flags that are not in place yet.             *)
(***************************************************************************)
EXTENDS PipelineArchitecture, PipelineProofs

\* What decode has not taken yet, and what execute has not.
ToDecode  == ~Bubble(fetchStruct) /\ ~decoded
ToExecute == (stage # "decode" \/ StallFlag = 1) /\ ~Bubble(decodeStruct)

\* The address decode takes its next instruction from.
FrontHead == IF ToDecode THEN fetchStruct.PC ELSE PC

Reaches(x, y) == x = y \/ x \in skipped

\* The latches of the front end hold what the program says.
FrontInv ==
    /\ decoded \in BOOLEAN /\ repeated \in BOOLEAN
    /\ flushed = 1 => stage \in {"decode", "fetch", "begin"}
    /\ stage = "fetch" /\ StallFlag = 0 => ~ToDecode
    /\ ToExecute =>
           /\ InstructionAt(decodeStruct.PC).op \notin Keepers =>
                  decodeStruct.op = OperationOf(InstructionAt(decodeStruct.PC))
           /\ IDtoEX_BP.pred_taken = 1 => BranchAt(decodeStruct.PC)

\* One leads to the next, from execute to PC.
ChainInv ==
    /\ ~Bubble(fetchStruct) => Reaches(IFtoID_BP.pred_address, PC)
    /\ ~Bubble(fetchStruct) /\ decoded =>
           fetchStruct.PC = IF ToExecute THEN decodeStruct.PC ELSE current
    /\ ToExecute =>
           /\ IF repeated THEN decodeStruct.PC = current
                          ELSE Reaches(successor, decodeStruct.PC)
           /\ Reaches(IDtoEX_BP.pred_address, FrontHead)
    /\ ~ToExecute => Reaches(successor, FrontHead)

OrderInv ==
    FrontInv /\ (HaltFlag = 0 /\ "unknown" \notin departures => ChainInv)

(* The front end is empty when the simulator starts.                       *)
LEMMA OrderInit ==
  ASSUME Init, HistoryInit
  PROVE  OrderInv
  <1>1. decoded \in BOOLEAN /\ repeated \in BOOLEAN
    BY Zenon DEF HistoryInit
  <1>2. Bubble(fetchStruct) /\ Bubble(decodeStruct)
    BY DEF Init, Bubble, EmptyFetch
  <1>3. stage = "begin" /\ flushed = 0 /\ successor = PC
    BY DEF Init, HistoryInit
  <1> QED BY <1>1, <1>2, <1>3
          DEF OrderInv, FrontInv, ChainInv, ToDecode, ToExecute, FrontHead, Reaches

(* An unknown word is noted when it is executed.                           *)
LEMMA UnknownIsNoted ==
  ASSUME NEW found, Record(found), "unknown" \notin departures'
  PROVE  "unknown" \notin departures /\ ~ExecutesUnknownWord
  <1>1. departures' = departures \cup {d \in DOMAIN Departures : Departures[d]} \cup found
    BY DEF Record
  <1>2. "unknown" \in DOMAIN Departures /\ (Departures["unknown"] <=> ExecutesUnknownWord)
    BY Zenon DEF Departures
  <1> QED BY <1>1, <1>2

\* A step that leaves the front end and its history alone.
FrontRests ==
    /\ UNCHANGED <<program, PC, fetchStruct, decodeStruct, IFtoID_BP, IDtoEX_BP, HaltFlag>>
    /\ UNCHANGED <<current, successor, decoded, repeated, skipped>>
    /\ stage # "decode" \/ StallFlag = 1
    /\ stage' # "decode" \/ StallFlag' = 1
    /\ stage' # "fetch" \/ StallFlag' = 1
    /\ flushed' = 1 => stage' \in {"decode", "fetch", "begin"}

(* Such a step keeps the invariant.                                        *)
LEMMA RestKeepsOrder ==
  ASSUME OrderInv, FrontRests, departures \subseteq departures'
  PROVE  OrderInv'
  <1>1. (ToDecode' <=> ToDecode) /\ (ToExecute' <=> ToExecute) /\ FrontHead' = FrontHead
    BY DEF FrontRests, ToDecode, ToExecute, FrontHead, Bubble
  <1>2. \A x, y : Reaches(x, y)' <=> Reaches(x, y)
    BY DEF FrontRests, Reaches
  <1>3. \A x : InstructionAt(x)' = InstructionAt(x)
    BY DEF FrontRests, InstructionAt
  <1>4. FrontInv'
    BY <1>1, <1>3 DEF FrontRests, OrderInv, FrontInv, BranchAt
  <1>5. ChainInv => ChainInv'
    BY <1>1, <1>2 DEF FrontRests, ChainInv, Bubble
  <1> QED BY <1>4, <1>5 DEF OrderInv, FrontRests

(* What the history records of a step outside execute, decode and fetch.   *)
LEMMA QuietHistory ==
  ASSUME FrontInv, NEW found, Record(found), stage \notin {"execute", "decode", "fetch"},
         stage = "mem" => UNCHANGED PC
  PROVE  /\ UNCHANGED <<current, successor, decoded, repeated, skipped>>
         /\ departures \subseteq departures'
  BY DEF Record, RecordInstruction, RecordFrontEnd, Executes, Fetches, Decodes, FrontInv

(* What the history records of a step of decode or fetch.                  *)
LEMMA FrontHistory ==
  ASSUME FrontInv, NEW found, Record(found), stage \in {"decode", "fetch"}
  PROVE  /\ UNCHANGED <<current, successor, skipped>>
         /\ departures \subseteq departures'
         /\ decoded' = IF Fetches THEN FALSE ELSE Decodes \/ decoded
         /\ repeated' = IF Decodes THEN decoded ELSE repeated
  BY DEF Record, RecordInstruction, RecordFrontEnd, Executes

(* ... and of a step of execute.                                           *)
LEMMA ExecuteHistory ==
  ASSUME FrontInv, NEW found, Record(found), stage = "execute"
  PROVE  /\ current' = IF Executes THEN decodeStruct.PC ELSE current
         /\ successor' = IF Executes THEN Follows(decodeStruct) ELSE successor
         /\ skipped' = IF flushed' = 1 THEN {} ELSE skipped
         /\ UNCHANGED <<decoded, repeated>>
         /\ departures \subseteq departures'
  BY DEF Record, RecordInstruction, RecordFrontEnd, Fetches, Decodes, FrontInv

(* Whatever memory hands on, it leaves the front end alone.                *)
LEMMA HandsOnRests ==
  ASSUME FrontInv, HandsOn, NEW found, Record(found)
  PROVE  FrontRests /\ departures \subseteq departures'
  <1>1. /\ UNCHANGED <<program, PC, fetchStruct, decodeStruct, IFtoID_BP, IDtoEX_BP,
                       HaltFlag, flushed>>
        /\ stage = "mem" /\ stage' = "execute"
    BY DEF HandsOn, Passed, MemoryKept, predictVars
  <1> QED BY <1>1, QuietHistory DEF FrontRests, FrontInv

(* The calls between write-back and memory, and the ends of a cycle, leave *)
(* the front end alone.                                                    *)
LEMMA OtherStepsRest ==
  ASSUME ControlTypeOK, FrontInv, NEW found, Record(found),
         \/ BeginCycle \/ StallCycle \/ pipe_stage_wb \/ SkipWriteBack \/ MissCycle
         \/ MemLoad \/ MemStore \/ MemStoreNarrow \/ MemPass \/ Halted
  PROVE  FrontRests /\ departures \subseteq departures'
  <1>1. CASE BeginCycle \/ StallCycle \/ pipe_stage_wb \/ SkipWriteBack \/ MissCycle
    <2>1. /\ UNCHANGED <<program, PC, fetchStruct, decodeStruct, IFtoID_BP, IDtoEX_BP,
                         HaltFlag>>
          /\ stage \notin {"execute", "decode", "fetch"}
          /\ stage' \notin {"execute", "decode", "fetch"}
          /\ flushed' \in {0, flushed}
      BY <1>1 DEF BeginCycle, StallCycle, pipe_stage_wb, SkipWriteBack, MissCycle, EndCycle,
                  latches, predictVars, controlVars
    <2>2. flushed' = 1 => stage' \in {"decode", "fetch", "begin"}
      BY <1>1, <2>1 DEF BeginCycle, StallCycle, pipe_stage_wb, SkipWriteBack, MissCycle,
                        EndCycle, controlVars, FrontInv
    <2> QED BY <2>1, <2>2, QuietHistory DEF FrontRests
  <1>2. CASE MemLoad \/ MemStore \/ MemStoreNarrow \/ MemPass
    <2>1. HandsOn
      BY <1>2, MemoryHandsOn DEF MemoryStage, MemLoad, MemStore, MemStoreNarrow, MemPass, MemMiss
    <2> QED BY <2>1, HandsOnRests
  <1>3. CASE Halted
    <2>1. UNCHANGED vars /\ stage = "begin"
      BY <1>3 DEF Halted
    <2> QED BY <2>1, QuietHistory DEF FrontRests, vars, latches, predictVars, controlVars
  <1> QED BY <1>1, <1>2, <1>3

(* update_PC moves PC to where the instruction there is predicted to lead, *)
(* and the address it leaves is skipped.                                   *)
LEMMA MissSkips ==
  ASSUME OrderInv, MemMiss, NEW found, Record(found)
  PROVE  OrderInv'
  <1>1. /\ UNCHANGED <<program, fetchStruct, decodeStruct, IFtoID_BP, IDtoEX_BP, HaltFlag,
                       flushed>>
        /\ stage = "mem" /\ stage' = "miss"
    BY DEF MemMiss, predictVars, controlVars
  <1>2. /\ UNCHANGED <<current, successor, decoded, repeated>>
        /\ skipped' = IF PC' # PC THEN skipped \cup {PC} ELSE skipped
        /\ departures \subseteq departures'
    BY <1>1 DEF Record, RecordInstruction, RecordFrontEnd, Executes, Fetches, Decodes, OrderInv,
                FrontInv
  <1>3. /\ ToDecode' <=> ToDecode
        /\ ToExecute' <=> ToExecute
        /\ \A x : InstructionAt(x)' = InstructionAt(x)
    BY <1>1, <1>2 DEF ToDecode, ToExecute, Bubble, InstructionAt
  <1>4. FrontInv'
    BY <1>1, <1>2, <1>3 DEF OrderInv, FrontInv, BranchAt
  <1>5. \A x, y : Reaches(x, y) => Reaches(x, y)'
    BY <1>2 DEF Reaches
  <1>6. \A x : Reaches(x, PC) => Reaches(x, PC)'
    BY <1>2 DEF Reaches
  <1>7. \A x : Reaches(x, FrontHead) => Reaches(x, FrontHead)'
    BY <1>1, <1>3, <1>5, <1>6 DEF FrontHead
  <1>8. ChainInv => ChainInv'
    BY <1>1, <1>2, <1>3, <1>5, <1>6, <1>7 DEF ChainInv, Bubble
  <1> QED BY <1>1, <1>2, <1>4, <1>8 DEF OrderInv

(* decode takes what is in fetchStruct: the next instruction, or the one   *)
(* it has taken before.                                                    *)
LEMMA DecodeKeepsOrder ==
  ASSUME CommonInv, BubbleInv, OrderInv, pipe_stage_decode, StallFlag = 0,
         NEW found, Record(found)
  PROVE  OrderInv'
  <1> DEFINE w == fetchStruct.word
  <1>1. /\ UNCHANGED <<program, PC, fetchStruct, IFtoID_BP, HaltFlag, StallFlag, flushed>>
        /\ decodeStruct'.PC = fetchStruct.PC
        /\ w.op \notin Keepers => decodeStruct'.op = OperationOf(w)
        /\ IDtoEX_BP' = IFtoID_BP
        /\ stage = "decode" /\ stage' = "fetch"
    BY DEF pipe_stage_decode, controlVars
  <1>2. /\ UNCHANGED <<current, successor, skipped>>
        /\ departures \subseteq departures'
        /\ decoded' = TRUE /\ repeated' = decoded
    BY <1>1, FrontHistory DEF OrderInv, Fetches, Decodes
  <1>3. /\ ~ToDecode' /\ FrontHead' = PC
        /\ ~ToExecute
        /\ ToExecute' <=> ~Bubble(fetchStruct)
    BY <1>1, <1>2 DEF ToDecode, ToExecute, FrontHead, Bubble
  <1>4. \A x : InstructionAt(x)' = InstructionAt(x)
    BY <1>1 DEF InstructionAt
  <1>5. ~Bubble(fetchStruct) =>
           /\ w = InstructionAt(fetchStruct.PC)
           /\ IFtoID_BP.pred_taken = 1 => BranchAt(fetchStruct.PC)
    BY DEF CommonInv, TravelInv, OnlyBranchesPredictedTaken, BranchAt
  <1>6. FrontInv'
    BY <1>1, <1>2, <1>3, <1>4, <1>5 DEF OrderInv, FrontInv, BranchAt
  <1>7. \A x, y : Reaches(x, y)' <=> Reaches(x, y)
    BY <1>2 DEF Reaches
  <1>8. ASSUME ChainInv
        PROVE  ChainInv'
    <2>1. ~Bubble(fetchStruct) => Reaches(IFtoID_BP.pred_address, PC)
      BY <1>8 DEF ChainInv
    <2>2. Reaches(successor, FrontHead)
      BY <1>3, <1>8 DEF ChainInv
    <2>3. ~Bubble(fetchStruct) /\ ~decoded => FrontHead = fetchStruct.PC
      BY DEF FrontHead, ToDecode
    <2>4. ~Bubble(fetchStruct) /\ decoded => fetchStruct.PC = current
      BY <1>3, <1>8 DEF ChainInv
    <2>5. Bubble(fetchStruct) => FrontHead = PC
      BY DEF FrontHead, ToDecode
    <2> QED BY <1>1, <1>2, <1>3, <1>7, <2>1, <2>2, <2>3, <2>4, <2>5 DEF ChainInv, Bubble
  <1> QED BY <1>1, <1>2, <1>6, <1>8 DEF OrderInv

\* An instruction comes into fetchStruct.
Fetched ==
    /\ stage = "fetch" /\ stage' = "begin"
    /\ instruction_stall < 1 /\ ~FetchHeld
    /\ fetchStruct' = [PC |-> PC, word |-> InstructionAt(PC)]
    /\ PC' = IFtoID_BP'.pred_address
    /\ UNCHANGED <<program, decodeStruct, IDtoEX_BP, HaltFlag, StallFlag, flushed,
                   instruction_stall>>

(* fetch reads the instruction at PC once decode has taken the one before, *)
(* and moves PC to where it is predicted to lead, ...                      *)
LEMMA FetchedKeepsOrder ==
  ASSUME ControlTypeOK, OrderInv, Fetched, NEW found, Record(found), PC # 0
  PROVE  OrderInv'
  <1>h. /\ UNCHANGED <<current, successor, skipped>>
        /\ departures \subseteq departures'
        /\ decoded' = IF Fetches THEN FALSE ELSE decoded
        /\ UNCHANGED repeated
    BY FrontHistory DEF Fetched, Decodes, OrderInv, FrontInv
  <1>1. Fetches /\ decoded' = FALSE
    BY <1>h DEF Fetched, Fetches
  <1>2. StallFlag = 0
    BY DEF Fetched, ControlTypeOK, Flag, FetchHeld
  <1>3. /\ FrontHead' = PC
        /\ ToExecute' <=> ~Bubble(decodeStruct)
        /\ ToExecute <=> ~Bubble(decodeStruct)
        /\ ~Bubble(fetchStruct)'
    BY <1>1 DEF Fetched, FrontHead, ToDecode, ToExecute, Bubble
  <1>4. ~ToDecode /\ FrontHead = PC
    BY <1>2 DEF Fetched, OrderInv, FrontInv, FrontHead
  <1>5. \A x : InstructionAt(x)' = InstructionAt(x)
    BY DEF Fetched, InstructionAt
  <1>6. \A x, y : Reaches(x, y)' <=> Reaches(x, y)
    BY <1>h DEF Reaches
  <1>7. FrontInv'
    BY <1>h, <1>1, <1>3, <1>5 DEF Fetched, OrderInv, FrontInv, BranchAt
  <1>8. ASSUME ChainInv
        PROVE  ChainInv'
    <2>1. /\ ToExecute => Reaches(IDtoEX_BP.pred_address, PC)
          /\ ~ToExecute => Reaches(successor, PC)
      BY <1>4, <1>8 DEF ChainInv
    <2>2. Reaches(IFtoID_BP.pred_address, PC)'
      BY DEF Fetched, Reaches
    <2> QED BY <1>h, <1>1, <1>3, <1>6, <1>8, <2>1, <2>2 DEF Fetched, ChainInv
  <1> QED BY <1>h, <1>7, <1>8 DEF Fetched, OrderInv

(* ... or does nothing.                                                    *)
LEMMA FetchKeepsOrder ==
  ASSUME ControlTypeOK, OrderInv, FetchStage, NEW found, Record(found), PC # 0
  PROVE  OrderInv'
  <1>h. /\ UNCHANGED <<current, successor, skipped>>
        /\ departures \subseteq departures'
        /\ decoded' = IF Fetches THEN FALSE ELSE decoded
        /\ UNCHANGED repeated
    <2>1. stage = "fetch" /\ FrontInv
      BY DEF OrderInv, FetchStage, FetchStallCycle, FetchNothing, FetchHit, FetchMiss,
             Fetching, FetchTurn
    <2> QED BY <2>1, FrontHistory DEF Decodes, FrontInv
  <1>1. CASE FetchStallCycle \/ FetchNothing \/ FetchMiss
    <2>1. ~Fetches
      <3>1. instruction_stall \in Int /\ MissCycles \in Nat \ {0}
        BY PipelineAssumption DEF ControlTypeOK
      <3> QED BY <1>1, <3>1 DEF FetchStallCycle, FetchNothing, FetchMiss, Fetches
    <2>2. /\ UNCHANGED <<program, PC, fetchStruct, decodeStruct, IFtoID_BP, IDtoEX_BP,
                         HaltFlag>>
          /\ stage = "fetch" /\ stage' = "begin"
      BY <1>1 DEF FetchStallCycle, FetchNothing, FetchMiss, Fetching, FetchTurn, EndCycle,
                  latches, predictVars, controlVars
    <2> QED BY <1>h, <2>1, <2>2, RestKeepsOrder DEF FrontRests
  <1>2. CASE FetchHit
    <2>1. Fetched
      BY <1>2 DEF Fetched, FetchHit, Fetching, FetchTurn, EndCycle
    <2> QED BY <2>1, FetchedKeepsOrder
  <1> QED BY <1>1, <1>2 DEF FetchStage

(* A known word is an operation, and says whether it is a branch.          *)
LEMMA KnownWords ==
  ASSUME NEW word, word.op \in Opcodes \ Keepers
  PROVE  /\ OperationOf(word) # "NoOp"
         /\ OperationOf(word) \in Branches <=> word.op \in Branches
  BY DEF OperationOf, Opcodes, Keepers, Operations, Compares, Branches, FlagBranches,
         ZeroTests, WritesRd, AluRegister, AluImmediate, Loads, Stores

(* What execute leaves of the front end: everything behind an instruction  *)
(* that led where it was predicted to, and nothing behind another.         *)
LEMMA ExecuteSteers ==
  ASSUME CommonInv, OrderInv, Executed, Acts,
         ~Bubble(decodeStruct) => InstructionAt(decodeStruct.PC).op \notin Keepers,
         decodeStruct.op # "HLT"
  PROVE  \/ /\ UNCHANGED <<PC, fetchStruct, decodeStruct, flushed>>
            /\ ~Bubble(decodeStruct) => IDtoEX_BP.pred_address = Follows(decodeStruct)
         \/ /\ decodeStruct.op \in Branches /\ fetchStruct' = EmptyFetch
            /\ PC' = Follows(decodeStruct) /\ flushed' = 1
  <1>t. stage = "execute"
    BY DEF Executed, Moves
  <1>1. CASE decodeStruct.op \in Branches
    <2> DEFINE taken == IF BranchTaken(decodeStruct.op) THEN 1 ELSE 0
               to    == CorrectAddress(decodeStruct)
               flush == must_flush(IDtoEX_BP, to, taken)
    <2>1. IF flush THEN PC' = to /\ FrontCleared /\ flushed' = 1
                   ELSE UNCHANGED <<PC, fetchStruct, decodeStruct, flushed>>
      BY <1>1 DEF Acts, Steered
    <2>2. ~flush => IDtoEX_BP.pred_address = to
      BY DEF must_flush
    <2>3. to = Follows(decodeStruct)
      BY <1>1 DEF Follows
    <2> HIDE DEF to, flush
    <2> QED BY <1>1, <2>1, <2>2, <2>3 DEF FrontCleared
  <1>2. CASE decodeStruct.op \notin Branches
    <2>1. UNCHANGED <<PC, fetchStruct, decodeStruct, flushed>>
      BY <1>2 DEF Acts, Steered
    <2>2. ASSUME ~Bubble(decodeStruct)
          PROVE  IDtoEX_BP.pred_address = Follows(decodeStruct)
      <3> DEFINE word == InstructionAt(decodeStruct.PC)
      <3>1. word.op \in Opcodes \ Keepers
        BY <2>2, InstructionsAreWords
           DEF CommonInv, StateInv, ControlInv, ControlTypeOK, IsInstruction
      <3>2. /\ decodeStruct.op = OperationOf(word)
            /\ IDtoEX_BP.pred_taken = 1 => BranchAt(decodeStruct.PC)
        BY <1>t, <2>2, <3>1 DEF OrderInv, FrontInv, ToExecute
      <3>3. ~BranchAt(decodeStruct.PC)
        BY <1>2, <3>1, <3>2, KnownWords DEF BranchAt
      <3>4. IDtoEX_BP.pred_address = ToLong(decodeStruct.PC + 4)
        BY <2>2, <3>2, <3>3 DEF CommonInv, TravelInv, Foretells
      <3> QED BY <1>2, <3>4 DEF Follows
    <2> QED BY <2>1, <2>2
  <1> QED BY <1>1, <1>2

(* execute sends its instruction on, and what is then in front of it is    *)
(* where it leads: by the prediction that came true, or by the flush.      *)
LEMMA ExecuteKeepsOrder ==
  ASSUME CommonInv, BubbleInv, OrderInv, ExecuteStalled \/ (Executed /\ Acts),
         NEW found, Record(found)
  PROVE  OrderInv'
  <1>t. ControlTypeOK
    BY DEF CommonInv, StateInv, ControlInv
  <1>h. /\ stage = "execute"
        /\ current' = IF Executes THEN decodeStruct.PC ELSE current
        /\ successor' = IF Executes THEN Follows(decodeStruct) ELSE successor
        /\ skipped' = IF flushed' = 1 THEN {} ELSE skipped
        /\ UNCHANGED <<decoded, repeated>>
        /\ departures \subseteq departures'
    <2>1. stage = "execute"
      BY DEF ExecuteStalled, Executed, Moves
    <2> QED BY <2>1, ExecuteHistory DEF OrderInv
  <1>f. flushed # 1
    BY <1>h DEF OrderInv, FrontInv
  <1>1. CASE ExecuteStalled
    <2>1. /\ UNCHANGED <<program, PC, fetchStruct, decodeStruct, IFtoID_BP, IDtoEX_BP,
                         HaltFlag, StallFlag, flushed>>
          /\ StallFlag = 1 /\ stage' = "decode"
      BY <1>1 DEF ExecuteStalled, latches, predictVars, controlVars
    <2>2. ~Executes
      BY <2>1 DEF Executes
    <2> QED BY <1>h, <1>f, <2>1, <2>2, RestKeepsOrder DEF FrontRests
  <1>2. CASE Executed /\ Acts
    <2>1. /\ UNCHANGED <<program, IFtoID_BP, IDtoEX_BP, StallFlag>>
          /\ StallFlag = 0 /\ stage' = "decode"
      BY <1>2 DEF Executed, Moves
    <2>2. ToExecute <=> ~Bubble(decodeStruct)
      BY <1>h DEF ToExecute
    <2>3. ~ToExecute'
      BY <2>1 DEF ToExecute
    <2>4. FrontInv'
      BY <1>h, <2>1, <2>3 DEF OrderInv, FrontInv
    <2>5. ASSUME HaltFlag' = 0, "unknown" \notin departures'
          PROVE  ChainInv'
      <3>1. /\ decodeStruct.op # "HLT" /\ HaltFlag = 0
            /\ decodeStruct.op = "NoOp" => UNCHANGED <<PC, fetchStruct, decodeStruct>>
        BY <1>2, <2>5 DEF Executed, FrontKept
      <3>2. "unknown" \notin departures /\ ~ExecutesUnknownWord
        BY <2>5, UnknownIsNoted
      <3>3. ChainInv
        BY <3>1, <3>2 DEF OrderInv
      <3>4. ~Bubble(decodeStruct) => InstructionAt(decodeStruct.PC).op \notin Keepers
        BY <1>h, <2>1, <3>2 DEF ExecutesUnknownWord
      <3>5. Executes <=> ~Bubble(decodeStruct)
        <4>1. Bubble(decodeStruct) => decodeStruct.op = "NoOp"
          BY DEF BubbleInv
        <4>2. ASSUME ~Bubble(decodeStruct)
              PROVE  decodeStruct.op # "NoOp"
          <5> DEFINE word == InstructionAt(decodeStruct.PC)
          <5>1. word.op \in Opcodes \ Keepers
            BY <1>t, <3>4, <4>2, InstructionsAreWords DEF ControlTypeOK, IsInstruction
          <5>2. decodeStruct.op = OperationOf(word)
            BY <2>2, <4>2, <5>1 DEF OrderInv, FrontInv
          <5> QED BY <5>1, <5>2, KnownWords
        <4> QED BY <1>h, <2>1, <4>1, <4>2 DEF Executes
      <3>6. \/ /\ UNCHANGED <<PC, fetchStruct, decodeStruct, flushed>>
               /\ ~Bubble(decodeStruct) => IDtoEX_BP.pred_address = Follows(decodeStruct)
            \/ /\ decodeStruct.op \in Branches /\ fetchStruct' = EmptyFetch
               /\ PC' = Follows(decodeStruct) /\ flushed' = 1
        BY <1>2, <3>1, <3>4, ExecuteSteers
      <3>7. CASE UNCHANGED <<PC, fetchStruct, decodeStruct, flushed>>
                 /\ (~Bubble(decodeStruct) => IDtoEX_BP.pred_address = Follows(decodeStruct))
        <4>1. /\ skipped' = skipped
              /\ ToDecode' <=> ToDecode
              /\ FrontHead' = FrontHead
          BY <1>h, <1>f, <3>7 DEF ToDecode, FrontHead, Bubble
        <4>2. \A x, y : Reaches(x, y)' <=> Reaches(x, y)
          BY <4>1 DEF Reaches
        <4>3. Reaches(successor', FrontHead)
          BY <1>h, <2>2, <3>3, <3>5, <3>7 DEF ChainInv
        <4>4. ~Bubble(fetchStruct) => Reaches(IFtoID_BP.pred_address, PC)
          BY <3>3 DEF ChainInv
        <4>5. ~Bubble(fetchStruct) /\ decoded => fetchStruct.PC = current'
          BY <1>h, <2>2, <3>3, <3>5 DEF ChainInv
        <4> QED BY <1>h, <2>1, <2>3, <3>7, <4>1, <4>2, <4>3, <4>4, <4>5 DEF ChainInv, Bubble
      <3>8. CASE /\ decodeStruct.op \in Branches /\ fetchStruct' = EmptyFetch
                 /\ PC' = Follows(decodeStruct) /\ flushed' = 1
        <4>1. Executes
          BY <1>h, <2>1, <3>8 DEF Executes, Branches, FlagBranches, ZeroTests
        <4>2. Bubble(fetchStruct)'
          BY <3>8 DEF Bubble, EmptyFetch
        <4>3. FrontHead' = successor'
          BY <1>h, <3>8, <4>1, <4>2 DEF FrontHead, ToDecode
        <4> QED BY <2>3, <4>2, <4>3 DEF ChainInv, Reaches
      <3> QED BY <3>6, <3>7, <3>8
    <2> QED BY <2>4, <2>5 DEF OrderInv
  <1> QED BY <1>1, <1>2

(* A step of the pipeline and its history keeps the chain.                 *)
LEMMA OrderStep ==
  ASSUME CommonInv, BubbleInv, OrderInv, PC # 0,
         NEW found, [Next /\ Record(found)]_<<vars, archHistory>>
  PROVE  OrderInv'
  <1>t. ControlTypeOK
    BY DEF CommonInv, StateInv, ControlInv
  <1>1. CASE Next /\ Record(found)
    <2>n. Next /\ Record(found)
      BY <1>1
    <2>1. CASE ExecuteStage
      <3>1. ExecuteStalled \/ (Executed /\ Acts)
        BY <1>t, <2>1, ExecuteEffect, ExecuteActs DEF Executed, Moves
      <3> QED BY <2>n, <3>1, ExecuteKeepsOrder
    <2>2. CASE pipe_stage_decode
      <3>1. CASE StallFlag = 0
        BY <2>n, <2>2, <3>1, DecodeKeepsOrder
      <3>2. CASE StallFlag = 1
        <4>1. /\ UNCHANGED <<program, PC, fetchStruct, decodeStruct, IFtoID_BP, IDtoEX_BP,
                             HaltFlag, StallFlag, flushed>>
              /\ stage = "decode" /\ stage' = "fetch"
          BY <2>2, <3>2 DEF pipe_stage_decode, controlVars
        <4>2. ~Decodes /\ ~Fetches
          BY <3>2, <4>1 DEF Decodes, Fetches
        <4>3. FrontRests /\ departures \subseteq departures'
          BY <2>n, <3>2, <4>1, <4>2, FrontHistory DEF FrontRests, OrderInv, FrontInv
        <4> QED BY <4>3, RestKeepsOrder
      <3> QED BY <1>t, <3>1, <3>2 DEF ControlTypeOK, Flag
    <2>3. CASE FetchStage
      BY <1>t, <2>n, <2>3, FetchKeepsOrder
    <2>4. CASE MemMiss
      BY <2>n, <2>4, MissSkips
    <2>5. CASE \/ BeginCycle \/ StallCycle \/ pipe_stage_wb \/ SkipWriteBack \/ MissCycle
               \/ MemLoad \/ MemStore \/ MemStoreNarrow \/ MemPass \/ Halted
      <3>1. FrontInv
        BY DEF OrderInv
      <3> QED BY <1>t, <2>n, <2>5, <3>1, OtherStepsRest, RestKeepsOrder
    <2> QED BY <2>n, <2>1, <2>2, <2>3, <2>4, <2>5 DEF Next, MemoryStage
  <1>2. CASE UNCHANGED <<vars, archHistory>>
    BY <1>2 DEF vars, archHistory, latches, predictVars, controlVars, OrderInv, FrontInv,
                ChainInv, ToDecode, ToExecute, FrontHead, Reaches, Bubble, BranchAt,
                InstructionAt
  <1> QED BY <1>1, <1>2

(* What is known of the order is what execute relies on.                   *)
LEMMA OrderFollows ==
  ASSUME CommonInv, BubbleInv, OrderInv
  PROVE  InProgramOrder
  <1> SUFFICES ASSUME Executes, ~LosesInstruction, "unknown" \notin departures
               PROVE  decodeStruct.PC = IF repeated THEN current ELSE successor
    BY DEF InProgramOrder
  <1>1. HaltFlag = 0
    BY DEF CommonInv, HaltInv, HaltDrains, StateInv, ControlInv, ControlTypeOK, Flag,
           Executes
  <1>2. ToExecute
    BY DEF ToExecute, Executes, BubbleInv
  <1> QED BY <1>1, <1>2 DEF OrderInv, ChainInv, Reaches, LosesInstruction

(* pipe.c executes its program in order: through predictions, flushes,     *)
(* stalls, misses of both caches and the fetches repeated behind them,     *)
(* execute takes the instruction the last one led to.  For every program   *)
(* that does not run to address 0, where a slot looks like a bubble.       *)
THEOREM TheProgramIsInOrder == HistorySpec /\ [](PC # 0) => []InProgramOrder
  <1>1. Init /\ HistoryInit => MachineInv /\ BubbleInv /\ OrderInv
    BY MachineInit, OrderInit DEF Init, BubbleInv, EmptyFetch, Bubble
  <1>2. MachineInv /\ BubbleInv /\ OrderInv /\ PC # 0 /\ [HistoryNext]_<<vars, archHistory>>
           => (MachineInv /\ BubbleInv /\ OrderInv)'
    <2> SUFFICES ASSUME MachineInv, BubbleInv, OrderInv, PC # 0,
                        [HistoryNext]_<<vars, archHistory>>
                 PROVE  (MachineInv /\ BubbleInv /\ OrderInv)'
      OBVIOUS
    <2>1. [Next]_vars
      BY DEF HistoryNext
    <2>2. ControlTypeOK
      BY DEF MachineInv, StateInv, ControlInv
    <2>3. CommonInv
      BY MachineIsCommon
    <2>4. [Next /\ Record({})]_<<vars, archHistory>>
      BY DEF HistoryNext
    <2> QED BY <2>1, <2>2, <2>3, <2>4, MachineStep, BubbleStep, OrderStep
  <1>3. MachineInv /\ BubbleInv /\ OrderInv => InProgramOrder
    BY MachineIsCommon, OrderFollows
  <1> QED BY <1>1, <1>2, <1>3, PTL DEF HistorySpec

-----------------------------------------------------------------------------
(* Operands.                                                               *)

\* What is forwarded is what write-back will put into the register.
Current(f) ==
    decodeStruct[f] \in Regs => Registers[decodeStruct[f]] = ToInt(forwarded[f])

\* The instruction in front writes 0, which is not forwarded.
Zeroed(f) ==
    /\ stage = "execute" /\ memoryStruct.op \in WritesRd
    /\ memoryStruct.Rd = decodeStruct[f] /\ memoryStruct.RdVal = 0

\* Values are forwarded to the instruction that is about to execute, and
\* what is not forwarded to it is not on its way to a register.
OperandInv ==
    /\ forward \ suspect # {} =>
           stage \in {"mem", "execute"} \/ StallFlag = 1 \/ fresh_data_stall = 1
    /\ StallFlag = 1 /\ InMemory => memoryStruct.op \in Loads
    /\ stage = "execute" /\ StallFlag = 0 =>
           /\ memoryStruct.op \in Loads => Matching(memoryStruct.Rt) = {}
           /\ memoryStruct.op \in WritesRd /\ memoryStruct.RdVal # 0 =>
                  Matching(memoryStruct.Rd) \subseteq forward
    /\ RUN_BIT = 1 => \A f \in forward \ suspect : Current(f) \/ Zeroed(f)

(* Nothing is forwarded when the simulator starts.                         *)
LEMMA OperandInit == Init => OperandInv
  BY DEF Init, OperandInv, InMemory

(* What an access or an instruction that is none hands on and holds back.  *)
LEMMA HandedOn ==
  ASSUME HandsOn
  PROVE  /\ IF executeStruct.op \in Loads /\ StallFlag = 1
            THEN memoryStruct'.RdVal = 0
            ELSE /\ memoryStruct'.RdVal = executeStruct.RdVal
                 /\ memoryStruct'.cmpResult = executeStruct.cmpResult
                 /\ memoryStruct'.op = executeStruct.op
                 /\ executeStruct.op \in Loads => memoryStruct'.RtVal = LoadedValue
         /\ executeStruct.op \in Loads /\ StallFlag # 1 =>
                StallFlag' = IF Matching(executeStruct.Rt) # {} THEN 1 ELSE 0
  <1>1. CASE executeStruct.op \in Loads
    <2> DEFINE v == LoadedValue
               m == [Latched EXCEPT !.RtVal = v]
    <2>1. /\ DOMAIN m = {"op", "Rd", "Rt", "RdVal", "RtVal", "cmpResult"}
          /\ m.RdVal = executeStruct.RdVal /\ m.Rt = executeStruct.Rt
          /\ m.cmpResult = executeStruct.cmpResult /\ m.op = executeStruct.op
          /\ m.RtVal = v
      <3> HIDE DEF v
      <3> QED BY DEF Latched
    <2>2. check_stall(m)
      BY <1>1 DEF HandsOn
    <2> HIDE DEF m
    <2>3. clearMemoryStruct(m).RdVal = 0
      BY <2>1, Zenon DEF clearMemoryStruct
    <2> QED BY <1>1, <2>1, <2>2, <2>3 DEF check_stall
  <1>2. CASE executeStruct.op \notin Loads
    <2>1. memoryStruct' = Latched
      BY <1>2 DEF HandsOn
    <2> QED BY <1>2, <2>1 DEF Latched
  <1> QED BY <1>1, <1>2

(* What the history says of the forwarded values.                          *)
LEMMA SuspectHistory ==
  ASSUME NEW found, Record(found)
  PROVE  /\ stage = "wb" /\ fresh_data_stall = 0 =>
                suspect' = Suspects(memoryStruct.RdVal # 0, memoryStruct.Rd, memoryStruct.op)
         /\ stage = "mem" /\ stage' = "execute" =>
                suspect' = Suspects(memoryStruct'.RdVal # 0, executeStruct.Rd, executeStruct.op)
                               \cup (IF StallFlag' = 1
                                     THEN forward \cap Matching(executeStruct.Rt) ELSE {})
         /\ \/ stage \notin {"wb", "mem", "execute"}
            \/ stage = "mem" /\ stage' = "miss"
            \/ stage = "wb" /\ fresh_data_stall # 0
            \/ stage = "execute" /\ StallFlag # 0
            => suspect' = suspect
  BY DEF Record, RecordForwarding, Passes

(* Zero survives the cut to an int.                                        *)
LEMMA ZeroStays == ToInt(0) = 0
  <1>1. 2^IntBits \in Nat \ {0} /\ 2^(IntBits - 1) \in Nat \ {0}
    BY Moduli, MachineWidths
  <1>2. 0 % 2^IntBits = 0
    BY <1>1
  <1> QED BY <1>1, <1>2 DEF ToInt, ToWord

(* What a result changes of the registers.                                 *)
LEMMA WrittenRegisters ==
  ASSUME DataInv, NEW m, NEW r \in Regs
  PROVE  NextRegister(m)[r] =
            IF m.op \in WritesRd /\ m.Rd = r THEN ToInt(m.RdVal)
            ELSE IF m.op \in Loads /\ m.op \notin WritesRd /\ m.Rt = r THEN m.RtVal
            ELSE REGS[r]
  BY Apart DEF DataInv, DataTypeOK, NextRegister

(* Write-back: what was on its way arrives, and is forwarded as it does.   *)
LEMMA WriteBackForwards ==
  ASSUME StateInv, OperandInv, pipe_stage_wb, NEW found, Record(found)
  PROVE  OperandInv'
  <1> DEFINE m == memoryStruct
  <1>t. ControlTypeOK /\ DataInv
    BY DEF StateInv, ControlInv
  <1>1. /\ stage = "wb" /\ stage' = "mem" /\ fresh_data_stall = 0
        /\ REGS' = NextRegister(m)
        /\ UNCHANGED <<decodeStruct, memoryStruct, StallFlag, fresh_data_stall>>
        /\ RUN_BIT' = 1 => RUN_BIT = 1
        /\ Forward(m.RdVal # 0, m.Rd, m.RdVal)
        /\ suspect' = Suspects(m.RdVal # 0, m.Rd, m.op)
    BY SuspectHistory DEF pipe_stage_wb, stallVars, controlVars
  <1>2. ~InMemory' /\ Registers' = REGS'
    BY <1>1 DEF InMemory, Registers
  <1>3. RUN_BIT = 1 => Registers = REGS'
    <2>1. m.op = "NoOp" => NextRegister(m) = REGS
      BY OperationClasses DEF NextRegister, Operations
    <2> QED BY <1>1, <2>1 DEF Registers, InMemory
  <1>4. ASSUME RUN_BIT' = 1, NEW f \in forward' \ suspect'
        PROVE  Current(f)'
    <2>1. ASSUME f \in forward \ suspect, forwarded'[f] = forwarded[f]
          PROVE  Current(f)'
      BY <1>1, <1>2, <1>3, <1>4, <2>1 DEF OperandInv, Zeroed, Current
    <2>2. CASE m.RdVal = 0
      BY <1>1, <1>4, <2>1, <2>2 DEF Forward, Suspects
    <2>3. CASE m.RdVal # 0 /\ m.op \notin WritesRd
      <3>1. f \in forward \ suspect /\ f \notin Matching(m.Rd)
        BY <1>1, <1>4, <2>3 DEF Forward, Suspects
      <3>2. forwarded'[f] = forwarded[f]
        BY <1>1, <1>t, <2>3, <3>1 DEF Forward, ControlTypeOK
      <3> QED BY <2>1, <3>1, <3>2
    <2>4. CASE m.RdVal # 0 /\ m.op \in WritesRd
      <3>f. f \in Fields
        BY <1>1, <1>4, <1>t DEF Forward, ControlTypeOK, Matching
      <3>1. CASE f \in Matching(m.Rd)
        <4>1. forwarded'[f] = m.RdVal /\ decodeStruct'[f] = m.Rd
          BY <1>1, <2>4, <3>1, <3>f DEF Forward, Matching
        <4>2. m.Rd \in Regs => REGS'[m.Rd] = ToInt(m.RdVal)
          BY <1>1, <1>t, <2>4, WrittenRegisters
        <4> QED BY <1>2, <4>1, <4>2 DEF Current
      <3>2. CASE f \notin Matching(m.Rd)
        <4>1. f \in forward \ suspect /\ forwarded'[f] = forwarded[f]
          BY <1>1, <1>4, <2>4, <3>2, <3>f DEF Forward, Suspects
        <4> QED BY <2>1, <4>1
      <3> QED BY <3>1, <3>2
    <2> QED BY <2>2, <2>3, <2>4
  <1> QED BY <1>1, <1>2, <1>4 DEF OperandInv

(* Memory: what passes is forwarded before it is written.  A load holds    *)
(* back the instruction that wants its value, and a result 0 does not      *)
(* reach it.                                                               *)
LEMMA MemoryKeepsOperands ==
  ASSUME StateInv, HeldInv, OperandInv, HandsOn, NEW found, Record(found)
  PROVE  OperandInv'
  <1> DEFINE e == executeStruct
             m == memoryStruct'
  <1>t. ControlTypeOK /\ DataInv /\ WaitStages
    BY DEF StateInv, ControlInv
  <1>1. /\ stage = "mem" /\ stage' = "execute"
        /\ UNCHANGED <<decodeStruct, executeStruct, fresh_data_stall, RUN_BIT, REGS>>
        /\ Forward(m.RdVal # 0, e.Rd, e.RdVal)
        /\ IF e.op \in Loads /\ StallFlag = 1 THEN Forgotten /\ m.RdVal = 0
                                              ELSE Remembered /\ m.RdVal = e.RdVal
        /\ e.op \in Loads =>
               StallFlag' = IF StallFlag = 0 /\ Matching(e.Rt) # {} THEN 1 ELSE 0
        /\ e.op \notin Loads => StallFlag' = StallFlag
    <2>1. stage' # "miss"
      BY DEF HandsOn, Passed
    <2> QED BY <1>t, <2>1, HandedOn
            DEF HandsOn, Passed, MemoryKept, CheckDependency, statVars, ControlTypeOK, Flag
  <1>2. suspect' = Suspects(m.RdVal # 0, e.Rd, e.op)
                       \cup (IF StallFlag' = 1 THEN forward \cap Matching(e.Rt) ELSE {})
    BY <1>1, SuspectHistory
  <1>3. fresh_data_stall = 0
    BY <1>t, <1>1 DEF WaitStages, ControlTypeOK, Flag
  <1>4. e.op \notin Loads => StallFlag = 0
    BY <1>t DEF HeldInv, ControlTypeOK, Flag
  <1>5. Registers = REGS /\ (InMemory' <=> m.op # "NoOp")
    BY <1>1, <1>3 DEF Registers, InMemory
  <1>6. ASSUME RUN_BIT = 1, NEW r \in Regs
        PROVE  Registers'[r] = IF m.op \in WritesRd /\ m.Rd = r THEN ToInt(m.RdVal)
                               ELSE IF m.op \in Loads /\ m.op \notin WritesRd /\ m.Rt = r
                                    THEN m.RtVal
                               ELSE REGS[r]
    <2>1. PICK n : n = memoryStruct'
      OBVIOUS
    <2>3. Registers' = IF n.op # "NoOp" THEN NextRegister(n) ELSE REGS
      BY <1>1, <1>5, <1>6, <2>1 DEF Registers, NextRegister
    <2>4. "NoOp" \notin WritesRd \cup Loads
      BY DEF Loads, WritesRd, AluRegister, AluImmediate
    <2>5. NextRegister(n)[r] = IF n.op \in WritesRd /\ n.Rd = r THEN ToInt(n.RdVal)
                               ELSE IF n.op \in Loads /\ n.op \notin WritesRd /\ n.Rt = r
                                    THEN n.RtVal
                               ELSE REGS[r]
      BY <1>t, WrittenRegisters
    <2> QED BY <2>1, <2>3, <2>4, <2>5
  <1>7. ASSUME RUN_BIT' = 1, NEW f \in forward' \ suspect'
        PROVE  (Current(f) \/ Zeroed(f))'
    <2>f. f \in Fields /\ f \in forward \cup Matching(e.Rd)
      BY <1>1, <1>7, <1>t DEF Forward, ControlTypeOK, Matching
    <2>1. ASSUME f \in forward \ suspect, forwarded'[f] = forwarded[f],
                 ~(m.op \in WritesRd /\ m.Rd = decodeStruct[f]),
                 ~(m.op \in Loads /\ m.Rt = decodeStruct[f])
          PROVE  Current(f)'
      <3>1. Current(f)
        BY <1>1, <1>7, <2>1 DEF OperandInv, Zeroed
      <3> QED BY <1>1, <1>5, <1>6, <1>7, <2>1, <3>1 DEF Current
    <2>2. CASE e.op \in Loads
      <3>1. e.op \notin WritesRd /\ m.op \notin WritesRd
        BY <1>1, <2>2
           DEF Loads, WritesRd, AluRegister, AluImmediate, Forgotten, Remembered
      <3>2. f \in forward \ suspect /\ forwarded'[f] = forwarded[f]
        BY <1>1, <1>2, <1>7, <2>f, <3>1 DEF Forward, Suspects
      <3>3. ~(m.op \in Loads /\ m.Rt = decodeStruct[f])
        <4>1. CASE StallFlag = 1
          BY <1>1, <2>2, <4>1 DEF Forgotten, Loads
        <4>2. CASE StallFlag # 1
          <5>1. StallFlag = 0 /\ m.Rt = e.Rt
            BY <1>1, <1>t, <4>2 DEF ControlTypeOK, Flag, Remembered
          <5>2. StallFlag' = 1 => f \notin Matching(e.Rt)
            BY <1>2, <1>7, <3>2
          <5>3. StallFlag' # 1 => f \notin Matching(e.Rt)
            BY <1>1, <2>2, <5>1
          <5> QED BY <2>f, <5>1, <5>2, <5>3 DEF Matching
        <4> QED BY <4>1, <4>2
      <3> QED BY <2>1, <3>1, <3>2, <3>3
    <2>3. CASE e.op \notin Loads
      <3>1. m.op = e.op /\ m.Rd = e.Rd /\ m.RdVal = e.RdVal
        BY <1>1, <2>3 DEF Remembered
      <3>2. StallFlag' = 0
        BY <1>1, <1>4, <2>3
      <3>3. CASE f \notin Matching(e.Rd) \/ e.op \notin WritesRd
        <4>1. f \in forward \ suspect /\ forwarded'[f] = forwarded[f]
          BY <1>1, <1>2, <1>7, <2>f, <3>1, <3>3 DEF Forward, Suspects
        <4> QED BY <2>1, <2>3, <2>f, <3>1, <3>3, <4>1 DEF Matching
      <3>4. CASE f \in Matching(e.Rd) /\ e.op \in WritesRd
        <4>1. decodeStruct[f] = e.Rd
          BY <3>4 DEF Matching
        <4>2. CASE e.RdVal = 0
          BY <1>1, <3>1, <3>4, <4>1, <4>2 DEF Zeroed
        <4>3. CASE e.RdVal # 0
          <5>1. forwarded'[f] = e.RdVal
            BY <1>1, <2>f, <3>1, <3>4, <4>3 DEF Forward
          <5> QED BY <1>1, <1>6, <1>7, <3>1, <3>4, <4>1, <5>1 DEF Current
        <4> QED BY <4>2, <4>3
      <3> QED BY <3>3, <3>4
    <2> QED BY <2>2, <2>3
  <1>8. StallFlag' = 1 /\ InMemory' => m.op \in Loads
    BY <1>1, <1>4, <1>5 DEF Remembered, Forgotten
  <1>9. ASSUME StallFlag' = 0
        PROVE  /\ m.op \in Loads => (Matching(memoryStruct.Rt) = {})'
               /\ m.op \in WritesRd /\ m.RdVal # 0 =>
                      (Matching(memoryStruct.Rd) \subseteq forward)'
    <2>1. Matching(memoryStruct.Rt)' = Matching(m.Rt)
          /\ Matching(memoryStruct.Rd)' = Matching(m.Rd)
      BY <1>1 DEF Matching
    <2>2. m.op \in Loads => Matching(m.Rt) = {}
      <3>1. "NoOp" \notin Loads
        BY DEF Loads
      <3> QED BY <1>1, <1>9, <1>t, <3>1 DEF Remembered, Forgotten, ControlTypeOK, Flag
    <2>3. m.RdVal # 0 => Matching(m.Rd) \subseteq forward'
      BY <1>1 DEF Forward, Remembered
    <2> QED BY <2>1, <2>2, <2>3
  <1> QED BY <1>1, <1>7, <1>8, <1>9 DEF OperandInv

(* A step that moves no value keeps what is known of the operands.         *)
LEMMA NothingMoves ==
  ASSUME OperandInv,
         UNCHANGED <<REGS, RUN_BIT, memoryStruct, decodeStruct, forward, forwarded, suspect,
                     StallFlag, fresh_data_stall>>,
         stage \notin {"mem", "execute"}, stage' \notin {"mem", "execute"}
  PROVE  OperandInv'
  <1>1. Registers' = Registers /\ (InMemory' <=> InMemory)
    BY DEF Registers, InMemory, NextRegister
  <1> QED BY <1>1 DEF OperandInv, Current, Zeroed

(* Every step keeps it.                                                    *)
LEMMA OperandStep ==
  ASSUME StateInv, HeldInv, OperandInv,
         NEW found, [Next /\ Record(found)]_<<vars, archHistory>>
  PROVE  OperandInv'
  <1>t. ControlTypeOK /\ WaitStages
    BY DEF StateInv, ControlInv
  <1>f. StallFlag \in {0, 1} /\ fresh_data_stall \in {0, 1}
    BY <1>t DEF ControlTypeOK, Flag
  <1>1. CASE Next /\ Record(found)
    <2>n. Next /\ Record(found)
      BY <1>1
    <2>1. CASE BeginCycle \/ StallCycle \/ MissCycle \/ FetchStage \/ Halted
      <3>1. /\ UNCHANGED <<REGS, RUN_BIT, memoryStruct, decodeStruct, forward, forwarded,
                           StallFlag, fresh_data_stall>>
            /\ stage \notin {"wb", "mem", "execute"} /\ stage' \notin {"mem", "execute"}
        BY <2>1 DEF BeginCycle, StallCycle, MissCycle, FetchStage, FetchStallCycle,
                    FetchNothing, FetchHit, FetchMiss, Fetching, FetchTurn, EndCycle, Halted,
                    vars, statVars, latches, forwardVars, stallVars, controlVars
      <3> QED BY <2>n, <3>1, SuspectHistory, NothingMoves
    <2>2. CASE pipe_stage_wb
      BY <2>n, <2>2, WriteBackForwards
    <2>3. CASE SkipWriteBack \/ MemMiss
      <3>1. /\ UNCHANGED <<REGS, RUN_BIT, decodeStruct, forward, forwarded, StallFlag>>
            /\ ~InMemory /\ ~InMemory'
            /\ stage \in {"wb", "mem"} /\ stage' \in {"mem", "miss"}
            /\ stage = "mem" => stage' = "miss" /\ fresh_data_stall' = 1
            /\ stage = "wb" => fresh_data_stall # 0 /\ stage' = "mem"
        BY <2>3 DEF SkipWriteBack, MemMiss, update_PC, statVars, latches, forwardVars,
                    controlVars, InMemory
      <3>2. UNCHANGED suspect
        BY <2>n, <3>1, SuspectHistory
      <3>3. Registers = REGS /\ Registers' = REGS
        BY <3>1 DEF Registers
      <3> QED BY <3>1, <3>2, <3>3 DEF OperandInv, Current, Zeroed
    <2>4. CASE HandsOn
      BY <2>n, <2>4, MemoryKeepsOperands
    <2>5. CASE ExecuteStalled
      <3>1. /\ UNCHANGED <<REGS, RUN_BIT, memoryStruct, decodeStruct, forward, forwarded,
                           StallFlag, fresh_data_stall>>
            /\ stage = "execute" /\ stage' = "decode" /\ StallFlag = 1
        BY <2>5 DEF ExecuteStalled, statVars, latches, forwardVars, stallVars, controlVars
      <3>2. UNCHANGED suspect
        BY <2>n, <3>1, SuspectHistory
      <3>3. fresh_data_stall = 0
        BY <1>f, <1>t, <3>1 DEF WaitStages
      <3>4. \A f : ~Zeroed(f)
        BY <3>1, <3>3 DEF OperandInv, Zeroed, InMemory, Loads, WritesRd, AluRegister,
                          AluImmediate
      <3>5. Registers' = Registers /\ (InMemory' <=> InMemory)
        BY <3>1 DEF Registers, InMemory, NextRegister
      <3> QED BY <3>1, <3>2, <3>4, <3>5 DEF OperandInv, Current, Zeroed
    <2>6. CASE Executed /\ Resets
      BY <2>6 DEF Executed, Moves, Resets, OperandInv
    <2>7. CASE pipe_stage_decode
      <3>1. CASE StallFlag = 1
        <4>1. /\ UNCHANGED <<REGS, RUN_BIT, memoryStruct, decodeStruct, forward, forwarded,
                             StallFlag, fresh_data_stall>>
              /\ stage = "decode" /\ stage' = "fetch"
          BY <2>7, <3>1 DEF pipe_stage_decode, statVars, forwardVars, stallVars, controlVars
        <4> QED BY <2>n, <4>1, SuspectHistory, NothingMoves
      <3>2. CASE StallFlag = 0
        <4>1. forward \ suspect = {}
          BY <1>f, <1>t, <2>7, <3>2 DEF pipe_stage_decode, OperandInv, WaitStages
        <4>2. UNCHANGED <<forward, suspect, StallFlag>> /\ stage' # "execute"
          BY <2>n, <2>7, SuspectHistory DEF pipe_stage_decode, forwardVars, controlVars
        <4> QED BY <3>2, <4>1, <4>2 DEF OperandInv
      <3> QED BY <1>f, <3>1, <3>2
    <2>8. CASE MemoryStage
      BY <1>t, <2>3, <2>4, <2>8, MemoryHandsOn
    <2>9. CASE ExecuteStage
      BY <1>t, <2>5, <2>6, <2>9, ExecuteEffect
    <2> QED BY <2>n, <2>1, <2>2, <2>3, <2>7, <2>8, <2>9 DEF Next
  <1>2. CASE UNCHANGED <<vars, archHistory>>
    BY <1>2 DEF vars, archHistory, statVars, latches, forwardVars, stallVars, controlVars,
                OperandInv, Current, Zeroed, Matching, InMemory, Registers, NextRegister
  <1> QED BY <1>1, <1>2

(* What is known of the operands is what execute relies on.                *)
LEMMA OperandsFollow ==
  ASSUME CommonInv, OperandInv
  PROVE  OperandsAreCurrent
  <1> SUFFICES ASSUME Executes, ~MissesZero, ~ReadsStaleValue,
                      NEW f \in NamedFields
               PROVE  Registers[decodeStruct[f]] \in
                         {Operand(f)} \cup (IF f \in forward THEN {ToInt(Operand(f))} ELSE {})
    BY DEF OperandsAreCurrent
  <1> DEFINE r == decodeStruct[f]
             m == memoryStruct
  <1>1. stage = "execute" /\ StallFlag = 0 /\ decodeStruct.op # "NoOp"
    BY DEF Executes
  <1>2. RUN_BIT = 1
    BY <1>1 DEF CommonInv, StateInv, ControlInv, ControlTypeOK, Flag, HaltInv, HaltDrains,
                StopsOnlyByHalt
  <1>3. r \in Regs /\ f \in Fields
    BY DEF NamedFields, ReadFields
  <1>4. CASE f \in forward
    <2>1. Operand(f) = forwarded[f]
      BY <1>4 DEF Operand
    <2>2. CASE f \in suspect
      BY <2>1, <2>2, <1>4 DEF ReadsStaleValue
    <2>3. CASE f \notin suspect
      <3>1. Current(f) \/ Zeroed(f)
        BY <1>2, <1>4, <2>3 DEF OperandInv
      <3>2. CASE Current(f)
        BY <1>3, <1>4, <2>1, <3>2 DEF Current
      <3>3. CASE Zeroed(f)
        <4>1. /\ m.op \in WritesRd /\ m.Rd = r /\ m.RdVal = 0
              /\ InMemory
          BY <1>1, <3>3 DEF Zeroed, InMemory, CommonInv, StateInv, ControlInv, WaitStages,
                            ControlTypeOK, Flag, WritesRd, AluRegister, AluImmediate
        <4>2. Operand(f) = 0
          BY <4>1 DEF MissesZero, NamedFields
        <4>3. Registers[r] = ToInt(0)
          <5>1. DataInv
            BY DEF CommonInv, StateInv
          <5> QED BY <1>2, <1>3, <4>1, <5>1, WrittenRegisters DEF Registers
        <4> QED BY <1>4, <4>2, <4>3
      <3> QED BY <3>1, <3>2, <3>3
    <2> QED BY <2>2, <2>3
  <1>5. CASE f \notin forward
    <2>1. Operand(f) = REGS[r]
      BY <1>3, <1>5 DEF Operand, Register
    <2>2. CASE ~InMemory
      BY <2>1, <2>2 DEF Registers
    <2>3. CASE InMemory
      <3>1. DataInv
        BY DEF CommonInv, StateInv
      <3>2. Registers = NextRegister(m)
        BY <1>2, <2>3 DEF Registers
      <3>3. CASE m.op \in WritesRd /\ m.Rd = r
        <4>1. m.RdVal = 0
          BY <1>1, <1>3, <1>5, <3>3 DEF OperandInv, Matching
        <4>2. Operand(f) = 0
          BY <2>3, <3>3, <4>1 DEF MissesZero, NamedFields
        <4>3. Registers[r] = 0
          BY <1>3, <3>1, <3>2, <3>3, <4>1, WrittenRegisters, ZeroStays
        <4> QED BY <4>2, <4>3
      <3>4. CASE ~(m.op \in WritesRd /\ m.Rd = r)
        <4>1. ~(m.op \in Loads /\ m.Rt = r)
          BY <1>1, <1>3 DEF OperandInv, Matching
        <4>2. Registers[r] = REGS[r]
          BY <1>3, <3>1, <3>2, <3>4, <4>1, WrittenRegisters
        <4> QED BY <2>1, <4>2
      <3> QED BY <3>3, <3>4
    <2> QED BY <2>2, <2>3
  <1> QED BY <1>4, <1>5

(* pipe.c: forwarding from two latches, the load-use stall and the         *)
(* register file together give execute the value the register has after    *)
(* the instruction before, except for the two named departures.            *)
THEOREM ForwardingIsCurrent == HistorySpec => []OperandsAreCurrent
  <1>1. Init /\ HistoryInit => MachineInv /\ OperandInv
    BY MachineInit, OperandInit
  <1>2. MachineInv /\ OperandInv /\ [HistoryNext]_<<vars, archHistory>>
           => (MachineInv /\ OperandInv)'
    <2>1. [HistoryNext]_<<vars, archHistory>>
              => [Next]_vars /\ [Next /\ Record({})]_<<vars, archHistory>>
      BY DEF HistoryNext
    <2> QED BY <2>1, MachineStep, OperandStep DEF MachineInv, StallInv
  <1>3. MachineInv /\ OperandInv => OperandsAreCurrent
    BY MachineIsCommon, OperandsFollow
  <1> QED BY <1>1, <1>2, <1>3, PTL DEF HistorySpec

-----------------------------------------------------------------------------
(* Flags.                                                                  *)

TempFlags == [N |-> temp_FLAG_N, Z |-> temp_FLAG_Z]

\* What write-back makes of the flags.
WrittenFlags(m) == Flags(IF m.op = "CMP" THEN m.cmpResult ELSE ToInt(m.RdVal))

\* The flags of a result that has passed memory are not written yet.
Late == InMemory /\ memoryStruct.op \in SetsFlags \ {"CMP"}

\* In the first version SUBS sets the flags in execute already.
Subtracts == InExecute /\ executeStruct.op = "SUBS"

\* A compare in executeStruct is ahead of the flags of the program.
FlagInv ==
    HaltFlag = 0 =>
        /\ InMemory /\ memoryStruct.op \in SetsFlags => flags = WrittenFlags(memoryStruct)
        /\ \/ overwritten
           \/ IF InExecute /\ executeStruct.op \in Compares
              THEN TempFlags = Flags(executeStruct.cmpResult)
              ELSE Late \/ Subtracts \/ TempFlags = flags

(* All flags are 0 when the simulator starts.                              *)
LEMMA FlagInit == Init /\ HistoryInit => FlagInv
  BY DEF Init, HistoryInit, FlagInv, InMemory, InExecute, TempFlags, Late, Subtracts

(* What the history says of the flags.                                     *)
LEMMA FlagHistory ==
  ASSUME NEW found, Record(found)
  PROVE  /\ flags' = IF Commits /\ Running THEN FlagsLeft(executeStruct) ELSE flags
         /\ overwritten' =
               IF stage = "wb" /\ fresh_data_stall = 0 /\ memoryStruct.op \in SetsFlags
               THEN executeStruct.op \in Compares
               ELSE overwritten /\ ~(Executes /\ decodeStruct.op \in Compares)
  BY DEF Record, RecordInstruction, RecordForwarding

(* Write-back puts the flags of its instruction in place, over those of a  *)
(* compare that has been executed since.                                   *)
LEMMA WriteBackFlags ==
  ASSUME ControlTypeOK, FlagInv, pipe_stage_wb, NEW found, Record(found)
  PROVE  FlagInv'
  <1> DEFINE m == memoryStruct
  <1>1. /\ stage = "wb" /\ stage' = "mem" /\ fresh_data_stall = 0
        /\ UNCHANGED <<memoryStruct, StallFlag, HaltFlag>>
        /\ executeStruct'.op = executeStruct.op
        /\ executeStruct'.cmpResult = executeStruct.cmpResult
        /\ IF m.op \in SetsFlags
           THEN set_flags(IF m.op = "CMP" THEN m.cmpResult ELSE ToInt(m.RdVal))
           ELSE UNCHANGED flagVars
    BY WriteBackMovesNothing DEF LatchesStay, pipe_stage_wb, controlVars
  <1>2. ~InMemory' /\ (InExecute' <=> InExecute)
    BY <1>1 DEF InMemory, InExecute
  <1>3. /\ UNCHANGED flags
        /\ overwritten' = IF m.op \in SetsFlags THEN executeStruct.op \in Compares
                                                ELSE overwritten /\ ~Executes
    BY <1>1, FlagHistory DEF Commits, Passes, Executes
  <1>4. CASE m.op \in SetsFlags
    <2>1. TempFlags' = WrittenFlags(m)
      BY <1>1, <1>4 DEF set_flags, TempFlags, WrittenFlags, Flags
    <2>2. InMemory
      BY <1>1, <1>4 DEF InMemory, SetsFlags
    <2>3. HaltFlag = 0 => TempFlags' = flags'
      BY <1>3, <1>4, <2>1, <2>2 DEF FlagInv
    <2> QED BY <1>1, <1>2, <1>3, <1>4, <2>3 DEF FlagInv
  <1>5. CASE m.op \notin SetsFlags
    <2>1. ~Late /\ ~Late' /\ UNCHANGED TempFlags
      BY <1>1, <1>2, <1>5 DEF Late, flagVars, TempFlags
    <2>2. overwritten => overwritten'
      BY <1>1, <1>3, <1>5 DEF Executes
    <2>3. Subtracts' <=> Subtracts
      BY <1>1, <1>2 DEF Subtracts
    <2>4. Flags(executeStruct.cmpResult)' = Flags(executeStruct.cmpResult)
      BY <1>1 DEF Flags
    <2> QED BY <1>1, <1>2, <1>3, <2>1, <2>2, <2>3, <2>4 DEF FlagInv
  <1> QED BY <1>4, <1>5

(* What leaves memory leaves its flags behind: those of a compare are in   *)
(* place since it was executed, the others are late.                       *)
LEMMA MemoryKeepsFlags ==
  ASSUME ControlTypeOK, WaitStages, HaltInv, HeldInv, FlagInv, HandsOn,
         NEW found, Record(found)
  PROVE  FlagInv'
  <1> DEFINE e == executeStruct
             m == memoryStruct'
  <1>f. StallFlag \in {0, 1} /\ fresh_data_stall \in {0, 1} /\ RUN_BIT \in {0, 1}
        /\ HaltFlag \in {0, 1}
    BY DEF ControlTypeOK, Flag
  <1>1. /\ stage = "mem" /\ stage' = "execute"
        /\ UNCHANGED <<executeStruct, HaltFlag, fresh_data_stall>>
        /\ UNCHANGED <<temp_FLAG_N, temp_FLAG_Z>>
    BY DEF HandsOn, Passed, MemoryKept, flagVars
  <1>2. fresh_data_stall = 0
    BY <1>f, <1>1 DEF WaitStages
  <1>3. ~InMemory /\ ~InExecute' /\ (InMemory' <=> m.op # "NoOp") /\ UNCHANGED TempFlags
    BY <1>1, <1>2 DEF InMemory, InExecute, TempFlags
  <1>4. Commits <=> StallFlag = 0 /\ e.op # "NoOp"
    BY <1>1 DEF Commits, Passes
  <1>5. overwritten => overwritten'
    BY <1>1, FlagHistory DEF Executes
  <1>6. SUFFICES ASSUME HaltFlag = 0 PROVE FlagInv'
    BY <1>1 DEF FlagInv
  <1>7. Running
    BY <1>f, <1>3, <1>6 DEF Running, HaltInv, StopsOnlyByHalt
  <1>n. "NoOp" \notin Compares \cup SetsFlags \cup Loads
    BY DEF Compares, SetsFlags, Loads
  <1>8. CASE e.op \in Loads /\ StallFlag = 1
    <2>1. m.op = "NoOp"
      BY <1>8 DEF HandsOn, Passed, Forgotten
    <2>2. UNCHANGED flags
      BY <1>4, <1>8, FlagHistory
    <2>3. overwritten \/ TempFlags = flags
      BY <1>3, <1>6, <1>8, Apart DEF FlagInv, InExecute, Late, Subtracts
    <2> QED BY <1>3, <1>5, <2>1, <2>2, <2>3 DEF FlagInv
  <1>9. CASE ~(e.op \in Loads /\ StallFlag = 1)
    <2>1. m.op = e.op /\ m.RdVal = e.RdVal /\ m.cmpResult = e.cmpResult
      BY <1>9, HandedOn
    <2>2. CASE ~Commits
      <3>1. UNCHANGED flags
        BY <2>2, FlagHistory
      <3>2. overwritten \/ TempFlags = flags
        BY <1>3, <1>f, <1>4, <1>6, <1>9, <2>2
           DEF FlagInv, InExecute, Late, Subtracts, HeldInv
      <3>3. m.op \notin SetsFlags
        BY <1>f, <1>n, <1>4, <1>9, <2>1, <2>2 DEF HeldInv
      <3> QED BY <1>3, <1>5, <3>1, <3>2, <3>3 DEF FlagInv
    <2>3. CASE Commits
      <3>1. InExecute /\ flags' = FlagsLeft(e)
        BY <1>1, <1>4, <1>7, <2>3, FlagHistory DEF InExecute
      <3>2. CASE e.op \in Compares
        <4>1. flags' = Flags(e.cmpResult)
          BY <3>1, <3>2 DEF FlagsLeft
        <4>2. overwritten \/ TempFlags' = flags'
          BY <1>3, <1>6, <3>1, <3>2, <4>1 DEF FlagInv
        <4>3. m.op \in SetsFlags => flags' = WrittenFlags(m)
          BY <2>1, <3>2, <4>1 DEF Compares, SetsFlags, WrittenFlags
        <4> QED BY <1>3, <1>5, <4>2, <4>3 DEF FlagInv, WrittenFlags, Flags
      <3>3. CASE e.op \in SetsFlags /\ e.op \notin Compares
        <4>1. flags' = Flags(ToInt(e.RdVal))
          BY <3>1, <3>3 DEF FlagsLeft
        <4>2. Late' /\ flags' = WrittenFlags(m)
          BY <1>3, <1>n, <2>1, <3>3, <4>1 DEF Late, Compares, WrittenFlags
        <4> QED BY <1>3, <4>2 DEF FlagInv, WrittenFlags, Flags
      <3>4. CASE e.op \notin SetsFlags /\ e.op \notin Compares
        <4>1. UNCHANGED flags
          BY <3>1, <3>4 DEF FlagsLeft
        <4>2. overwritten \/ TempFlags = flags
          BY <1>3, <1>6, <3>4 DEF FlagInv, Late, Subtracts, SetsFlags
        <4> QED BY <1>3, <1>5, <2>1, <3>4, <4>1, <4>2 DEF FlagInv
      <3> QED BY <3>2, <3>3, <3>4
    <2> QED BY <2>2, <2>3
  <1> QED BY <1>8, <1>9

(* execute sets the temporary flags for a compare, and makes good what     *)
(* write-back has undone.                                                  *)
LEMMA ExecuteKeepsFlags ==
  ASSUME FlagInv, Executed, Acts, NEW found, Record(found)
  PROVE  FlagInv'
  <1> DEFINE d == decodeStruct
  <1>1. /\ stage = "execute" /\ stage' = "decode" /\ StallFlag = 0
        /\ UNCHANGED <<memoryStruct, StallFlag, fresh_data_stall>>
        /\ executeStruct'.op = d.op
        /\ HaltFlag' = 0 => HaltFlag = 0
    BY DEF Executed, Moves, Sent
  <1>2. ~InExecute /\ (InMemory' <=> InMemory) /\ (InExecute' <=> d.op # "NoOp")
    BY <1>1 DEF InMemory, InExecute
  <1>3. /\ UNCHANGED flags
        /\ overwritten' <=> overwritten /\ ~(Executes /\ d.op \in Compares)
    BY <1>1, FlagHistory DEF Commits, Passes
  <1>4. /\ d.op \in Compares => TempFlags' = Flags(executeStruct'.cmpResult)
        /\ d.op \notin Compares \cup {"SUBS"} => TempFlags' = TempFlags
    BY DEF Acts, Computed, Compared, TempFlags, Flags
  <1>5. WrittenFlags(memoryStruct)' = WrittenFlags(memoryStruct) /\ (Late' <=> Late)
    BY <1>1, <1>2 DEF WrittenFlags, Flags, Late
  <1>6. CASE d.op \in Compares
    <2>1. InExecute' /\ TempFlags' = Flags(executeStruct.cmpResult)'
      BY <1>2, <1>4, <1>6 DEF Compares, Flags
    <2> QED BY <1>1, <1>2, <1>3, <1>5, <1>6, <2>1 DEF FlagInv
  <1>7. CASE d.op = "SUBS"
    <2>1. Subtracts' /\ d.op \notin Compares
      BY <1>1, <1>2, <1>7 DEF Subtracts, Compares
    <2> QED BY <1>1, <1>2, <1>3, <1>5, <2>1 DEF FlagInv
  <1>8. CASE d.op \notin Compares \cup {"SUBS"}
    <2>1. ~Subtracts
      BY <1>2 DEF Subtracts
    <2> QED BY <1>1, <1>2, <1>3, <1>4, <1>5, <1>8, <2>1 DEF FlagInv
  <1> QED BY <1>6, <1>7, <1>8

(* Every step keeps it.                                                    *)
LEMMA FlagStep ==
  ASSUME CommonInv, FlagInv, NEW found, [Next /\ Record(found)]_<<vars, archHistory>>
  PROVE  FlagInv'
  <1>t. ControlTypeOK /\ WaitStages /\ HaltInv /\ HeldInv
    BY DEF CommonInv, StateInv, ControlInv
  <1>1. CASE Next /\ Record(found)
    <2>n. Next /\ Record(found)
      BY <1>1
    <2>1. CASE \/ BeginCycle \/ StallCycle \/ MissCycle \/ FetchStage \/ Halted
               \/ ExecuteStalled \/ pipe_stage_decode
      <3>1. /\ UNCHANGED <<temp_FLAG_N, temp_FLAG_Z, HaltFlag, executeStruct, memoryStruct,
                           StallFlag, fresh_data_stall>>
            /\ stage \notin {"wb", "mem"} /\ stage' # "mem"
            /\ stage = "execute" => StallFlag = 1
            /\ stage' = "execute" => stage = "execute"
        BY <2>1 DEF BeginCycle, StallCycle, MissCycle, FetchStage, FetchStallCycle,
                    FetchNothing, FetchHit, FetchMiss, Fetching, FetchTurn, EndCycle, Halted,
                    ExecuteStalled, pipe_stage_decode, vars, flagVars, latches, stallVars,
                    controlVars
      <3>2. UNCHANGED flags /\ (overwritten' <=> overwritten)
        <4>1. ~Commits /\ ~Executes
          BY <3>1 DEF Commits, Passes, Executes
        <4> QED BY <2>n, <3>1, <4>1, FlagHistory
      <3>3. (InMemory' <=> InMemory) /\ (InExecute' <=> InExecute)
        BY <3>1 DEF InMemory, InExecute
      <3>4. /\ UNCHANGED <<temp_FLAG_N, temp_FLAG_Z, HaltFlag, flags>>
            /\ UNCHANGED executeStruct /\ UNCHANGED memoryStruct
        BY <3>1, <3>2
      <3> QED BY <3>2, <3>3, <3>4 DEF FlagInv, Late, Subtracts, TempFlags, WrittenFlags, Flags
    <2>2. CASE pipe_stage_wb
      BY <1>t, <2>n, <2>2, WriteBackFlags
    <2>3. CASE SkipWriteBack \/ MemMiss
      <3>1. /\ UNCHANGED <<temp_FLAG_N, temp_FLAG_Z, HaltFlag, executeStruct, StallFlag>>
            /\ stage \in {"wb", "mem"} /\ stage' \in {"mem", "miss"}
            /\ stage = "mem" => fresh_data_stall' = 1
            /\ stage = "wb" => fresh_data_stall # 0 /\ stage' = "mem"
        BY <2>3 DEF SkipWriteBack, MemMiss, update_PC, flagVars, latches, controlVars
      <3>2. UNCHANGED flags /\ (overwritten' <=> overwritten)
        <4>1. ~Commits /\ ~Executes
          BY <3>1 DEF Commits, Passes, Executes
        <4> QED BY <2>n, <3>1, <4>1, FlagHistory
      <3>3. ~InMemory /\ ~InMemory' /\ (InExecute' <=> InExecute)
        BY <3>1 DEF InMemory, InExecute
      <3> QED BY <3>1, <3>2, <3>3 DEF FlagInv, Late, Subtracts, TempFlags, WrittenFlags, Flags
    <2>4. CASE HandsOn
      BY <1>t, <2>n, <2>4, MemoryKeepsFlags
    <2>5. CASE Executed /\ Acts
      BY <1>t, <2>n, <2>5, ExecuteKeepsFlags
    <2>6. CASE MemoryStage
      BY <1>t, <2>3, <2>4, <2>6, MemoryHandsOn
    <2>7. CASE ExecuteStage
      <3>1. ExecuteStalled \/ Executed
        BY <1>t, <2>7, ExecuteEffect
      <3>2. Executed => Acts
        BY <1>t, <2>7, ExecuteActs DEF Executed, Moves
      <3> QED BY <2>1, <2>5, <3>1, <3>2
    <2> QED BY <2>n, <2>1, <2>2, <2>3, <2>6, <2>7 DEF Next
  <1>2. CASE UNCHANGED <<vars, archHistory>>
    BY <1>2 DEF vars, archHistory, flagVars, latches, stallVars, controlVars, FlagInv, Late,
                Subtracts, TempFlags, WrittenFlags, Flags, InMemory, InExecute
  <1> QED BY <1>1, <1>2

(* What is known of the flags is what a branch relies on.                  *)
LEMMA FlagsFollow ==
  ASSUME CommonInv, FlagInv
  PROVE  BranchesSeeTheFlags
  <1> SUFFICES ASSUME Executes, decodeStruct.op \in FlagBranches,
                      ~BranchesOnOldFlags, ~BranchesOnUndoneFlags
               PROVE  FlagsInPlace
    BY DEF BranchesSeeTheFlags
  <1>1. HaltFlag = 0
    BY DEF CommonInv, HaltInv, HaltDrains, StateInv, ControlInv, ControlTypeOK, Flag,
           Executes
  <1>2. ~InExecute
    BY DEF InExecute, Executes
  <1>3. TempFlags = flags => FlagsInPlace
    BY DEF TempFlags, FlagsInPlace
  <1> QED BY <1>1, <1>2, <1>3 DEF FlagInv, Late, Subtracts, BranchesOnOldFlags,
                                BranchesOnUndoneFlags

(* pipe.c: the temporary flags a branch looks at are those the program     *)
(* has at that point, although compares set them in execute, the others    *)
(* at write-back and write-back may undo a compare; the two departures     *)
(* name the branches that are in between.                                  *)
THEOREM BranchesSeeTheirFlags == HistorySpec => []BranchesSeeTheFlags
  <1>1. Init /\ HistoryInit => MachineInv /\ FlagInv
    BY MachineInit, FlagInit
  <1>2. MachineInv /\ FlagInv /\ [HistoryNext]_<<vars, archHistory>>
           => (MachineInv /\ FlagInv)'
    <2>1. [HistoryNext]_<<vars, archHistory>>
              => [Next]_vars /\ [Next /\ Record({})]_<<vars, archHistory>>
      BY DEF HistoryNext
    <2> QED BY <2>1, MachineStep, MachineIsCommon, FlagStep
  <1>3. MachineInv /\ FlagInv => BranchesSeeTheFlags
    BY MachineIsCommon, FlagsFollow
  <1> QED BY <1>1, <1>2, <1>3, PTL DEF HistorySpec
=============================================================================
