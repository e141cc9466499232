-------------------------- MODULE RefinementProofs --------------------------
(***************************************************************************)
(* The pipeline implements the instruction set, for every program, every   *)
(* size of the caches and of the predictor and every miss penalty:         *)
(* ImplementsArchitecture.                                                 *)
(*                                                                         *)
(* Architecture moves when an instruction passes memory for the first      *)
(* time; every other step of the pipeline is invisible to it.  StandInv    *)
(* says where its program counter stands between those steps.  What        *)
(* execute has sent on is either the instruction Architecture is about to  *)
(* do, and executeStruct holds what the registers of Architecture make of  *)
(* it (Holding), or it has been done.  While fetch waits, decode may hand  *)
(* it to execute again; then it must not change anything, because it finds *)
(* its own effect in place (Effective).  An instruction that computes with *)
(* its own result would change something: the departure `again'.           *)
(*                                                                         *)
(* That executeStruct holds the right things follows from the three        *)
(* theorems of ArchitectureProofs, on the order, the operands and the      *)
(* flags, and from the absence of the departures; none of this is said     *)
(* any longer once there is one.                                           *)
(***************************************************************************)
EXTENDS ArchitectureProofs

\* The instruction execute sent on last.
Last == InstructionAt(current)

\* The registers instruction i reads, but for the value a store stores.
Reads(i) == (IF OperationOf(i) \in ReadsRn THEN {i.Rn} ELSE {})
                \cup (IF OperationOf(i) \in ReadsRm THEN {i.Rm} ELSE {})

\* decodeStruct holds the fields of the word it came from.
DecodedInv ==
    ToExecute =>
        LET word == InstructionAt(decodeStruct.PC)
            d    == decodeStruct
        IN  /\ d.Rd = RdField(word) /\ d.Rn = RnField(word)
            /\ d.Rm = RmField(word) /\ d.Rt = RtField(word)
            /\ word.op \notin Keepers => d.imm = word.imm

\* Nothing but a HLT stops the machine, and it is the last instruction.
RunInv ==
    /\ stage = "wb" => RUN_BIT = 1
    /\ InExecute => Running

\* The result in latch s fits into an int and goes to a register.
Proper(s) == s.op \in WritesRd => s.RdVal = ToInt(s.RdVal) /\ s.Rd \in Regs

\* Results are proper, and what is forwarded of them fits into an int, too.
IntsInv ==
    /\ Proper(executeStruct) /\ Proper(memoryStruct)
    /\ \A f \in forward \ suspect : forwarded[f] = ToInt(forwarded[f])

\* e holds what instruction i makes of the registers r.
Holding(e, i, r) ==
    /\ e.op = OperationOf(i)
    /\ e.op \in WritesRd => e.Rd = i.Rd /\ e.RdVal = Arch!Value(i, r)
    /\ e.op \in Compares => e.cmpResult = Arch!Value(i, r)
    /\ e.op \in Loads => e.Rt = i.Rd /\ e.loadValLow = Arch!Address(i, r)
    /\ e.op = "LDUR" => ToWord(e.loadValLow + 4) = ToLong(e.loadValLow + 4)
    /\ e.op \in Stores => e.storeAddress = Arch!Address(i, r)
    /\ e.op = "STUR" => e.storeValLow = ToWord(r[i.Rd]) /\ e.storeValHigh = HighWord(r[i.Rd])
    /\ e.op \in {"STURB", "STURH"} => e.storeValLow = LowByte(r[i.Rd])
    /\ e.op = "STURH" => LowHalfword(r[i.Rd]) = LowByte(r[i.Rd])

\* Instruction i may run again: it does not end the program, nor computes
\* with its own result.
Repeatable(i) ==
    /\ OperationOf(i) # "HLT"
    /\ OperationOf(i) \in WritesRd \cup Loads => i.Rd \notin Reads(i)

\* Instruction i has had its effect, and would have the same one again.
Effective(i, r, m, f) ==
    /\ OperationOf(i) \in WritesRd /\ i.Rd \notin Reads(i) =>
           /\ r[i.Rd] = Arch!Value(i, r)
           /\ OperationOf(i) \in SetsFlags \cup {"SUBSI"} => f = Flags(Arch!Value(i, r))
    /\ OperationOf(i) \in Compares => f = Flags(Arch!Value(i, r))
    /\ OperationOf(i) \in Loads /\ i.Rd \notin Reads(i) => r[i.Rd] = Arch!Loaded(i, r, m)
    /\ OperationOf(i) \in Stores => m = Arch!Stored(i, r, m)

\* How far the program is: before the instruction in executeStruct, or
\* behind it when that is there for the second time or not at all.
StandInv ==
    /\ Last.op \notin Keepers => successor = Arch!NextAddress(Last, current, Registers, flags)
    /\ OperationOf(Last) = "HLT" => HaltFlag = 1
    /\ InExecute => Last.op \notin Keepers /\ Holding(executeStruct, Last, Registers)
    /\ \/ InExecute /\ pc = current
       \/ /\ pc = successor /\ Effective(Last, Registers, mem, flags)
          /\ InExecute => Repeatable(Last)

RefinementInv == DecodedInv /\ RunInv /\ (departures = {} => IntsInv /\ StandInv)

-----------------------------------------------------------------------------
(* The operators Architecture shares with the pipeline are the same ones.  *)
LEMMA SameSets ==
  /\ Arch!WritesRd = WritesRd /\ Arch!Loads = Loads /\ Arch!Stores = Stores
  /\ Arch!Compares = Compares /\ Arch!Branches = Branches /\ Arch!SetsFlags = SetsFlags
  /\ Arch!ReadsRm = ReadsRm /\ Arch!ReadsRn = ReadsRn
  /\ \A w : Arch!OperationOf(w) = OperationOf(w)
  BY DEF WritesRd, Arch!WritesRd, AluRegister, Arch!AluRegister, AluImmediate,
         Arch!AluImmediate, Loads, Arch!Loads, Stores, Arch!Stores, Compares, Arch!Compares,
         Branches, Arch!Branches, FlagBranches, Arch!FlagBranches, ZeroTests, Arch!ZeroTests,
         SetsFlags, Arch!SetsFlags, ReadsRm, Arch!ReadsRm, ReadsRn, Arch!ReadsRn,
         OperationOf, Arch!OperationOf

(* So are the conversions of C, ...                                        *)
LEMMA SameConversions ==
  \A x : /\ Arch!ToLong(x) = ToLong(x) /\ Arch!ToWord(x) = ToWord(x)
         /\ Arch!HighWord(x) = HighWord(x) /\ (Arch!IsNegative(x) <=> IsNegative(x))
         /\ \A i : Arch!ByteOf(x, i) = ByteOf(x, i)
  BY DEF ToLong, Arch!ToLong, ToWord, Arch!ToWord, HighWord, Arch!HighWord, IsNegative,
         Arch!IsNegative, ByteOf, Arch!ByteOf, LongBits, Arch!LongBits, IntBits, Arch!IntBits

(* ... the accesses to memory ...                                          *)
LEMMA SameMemory ==
  \A m, a : /\ Arch!mem_read_32(m, a) = mem_read_32(m, a)
            /\ Arch!InRegion(a) <=> InRegion(a)
            /\ Arch!ByteAt(m, a) = ByteAt(m, a)
            /\ \A v : Arch!mem_write_32(m, a, v) = mem_write_32(m, a, v)
  BY DEF mem_read_32, Arch!mem_read_32, InRegion, Arch!InRegion, ByteAt, Arch!ByteAt,
         Addresses, Arch!Addresses, ByteOf, Arch!ByteOf, mem_write_32, Arch!mem_write_32

(* ... and the arithmetic, bit by bit where the code is.                    *)
LEMMA SameArithmetic ==
  \A x, y : /\ Arch!And(x, y) = And(x, y) /\ Arch!Or(x, y) = Or(x, y)
            /\ Arch!Xor(x, y, Arch!LongBits) = Xor(x, y, LongBits)
            /\ Arch!Times(x, y) = Times(x, y)
            /\ Arch!ShiftLeft(x, y) = ShiftLeft(x, y)
            /\ Arch!ShiftRight(x, y) = ShiftRight(x, y)
  <1> TAKE x, y
  <1>1. Arch!And(x, y) = And(x, y)
    BY DEF And, Arch!And, PerBit, Arch!PerBit, SumBelow, Arch!SumBelow, Bit, Arch!Bit,
           LongBits, Arch!LongBits
  <1>2. Arch!Or(x, y) = Or(x, y)
    BY DEF Or, Arch!Or, PerBit, Arch!PerBit, SumBelow, Arch!SumBelow, Bit, Arch!Bit,
           LongBits, Arch!LongBits
  <1>3. Arch!Xor(x, y, Arch!LongBits) = Xor(x, y, LongBits)
    BY DEF Xor, Arch!Xor, PerBit, Arch!PerBit, SumBelow, Arch!SumBelow, Bit, Arch!Bit,
           LongBits, Arch!LongBits
  <1>4. Arch!Times(x, y) = Times(x, y)
    BY SameConversions
       DEF Times, Arch!Times, SumBelow, Arch!SumBelow, Bit, Arch!Bit, LongBits,
           Arch!LongBits, ShiftLeft, Arch!ShiftLeft
  <1>5. Arch!ShiftLeft(x, y) = ShiftLeft(x, y) /\ Arch!ShiftRight(x, y) = ShiftRight(x, y)
    BY DEF ShiftLeft, Arch!ShiftLeft, ShiftRight, Arch!ShiftRight, LongBits, Arch!LongBits
  <1> QED BY <1>1, <1>2, <1>3, <1>4, <1>5

(* The words of the two programs are the same.                             *)
LEMMA SameInstruction == Arch!Instruction = InstructionAt(pc)
  <1>1. Arch!OperationNames = OperationNames
    BY SameSets DEF Arch!OperationNames, OperationNames, Arch!Operations, Operations
  <1> QED BY <1>1 DEF Arch!Instruction, InstructionAt, ZeroWord, Arch!ZeroWord

(* What an instruction computes does not depend on a register it does not  *)
(* read.                                                                   *)
LEMMA ValueOfSources ==
  ASSUME NEW i, OperationOf(i) \in WritesRd \cup Compares, NEW r, NEW s,
         \A x \in Reads(i) : r[x] = s[x]
  PROVE  Arch!Value(i, r) = Arch!Value(i, s)
  <1>1. OperationOf(i) # "MOVZ" => OperationOf(i) \in ReadsRn
    BY DEF WritesRd, Compares, ReadsRn
  <1>2. OperationOf(i) # "MOVZ" => Arch!First(i, r) = Arch!First(i, s)
    BY <1>1 DEF Arch!First, Reads
  <1>3. Arch!Second(i, r) = Arch!Second(i, s)
    BY SameSets DEF Arch!Second, Reads
  <1>4. Arch!OperationOf(i) = OperationOf(i)
    BY SameSets
  <1> QED BY <1>2, <1>3, <1>4 DEF Arch!Value, Arch!Sum, Arch!Difference

(* Nor does what it loads.                                                 *)
LEMMA LoadedFromSources ==
  ASSUME NEW i, OperationOf(i) \in Loads, NEW m, NEW r, NEW s,
         \A x \in Reads(i) : r[x] = s[x]
  PROVE  Arch!Loaded(i, r, m) = Arch!Loaded(i, s, m)
  <1>1. OperationOf(i) \in ReadsRn
    BY DEF ReadsRn
  <1>2. Arch!Address(i, r) = Arch!Address(i, s)
    BY <1>1 DEF Arch!Address, Arch!First, Reads
  <1> QED BY <1>2 DEF Arch!Loaded

(* Where an instruction leads depends on registers and flags for branches. *)
LEMMA NextOfBranches ==
  ASSUME NEW i, NEW a, NEW r, NEW f
  PROVE  OperationOf(i) \notin Branches => Arch!NextAddress(i, a, r, f) = ToLong(a + 4)
  BY SameSets, SameConversions DEF Arch!NextAddress

(* The arithmetic unit computes what the instruction says, but for the     *)
(* three immediates that forwarding takes the subtraction from.            *)
LEMMA AluIsValue ==
  ASSUME NEW i, NEW r, NEW op, NEW a \in Long, NEW b,
         op = OperationOf(i), op \in AluRegister \cup AluImmediate \cup Compares,
         a = Arch!First(i, r), b = Arch!Second(i, r),
         op \in {"SUBI", "SUBSI", "CMPI"} => "Rn" \notin forward \/ b = 0
  PROVE  Alu(op, a, b) = Arch!Value(i, r)
  <1>1. op = Arch!OperationOf(i)
    BY SameSets
  <1>2. Alu(op, a, b) =
            CASE op \in Arch!Sum -> ToLong(a + b)
              [] op \in Arch!Difference -> ToLong(a - b)
              [] op = "MUL" -> Times(a, b)
              [] op \in {"AND", "ANDS"} -> And(a, b)
              [] op = "EOR" -> Xor(a, b, LongBits)
              [] op = "ORR" -> Or(a, b)
              [] op = "LSLI" -> ShiftLeft(a, LongBits - 1 - (b % LongBits))
              [] op = "LSRI" -> ShiftRight(a, b % LongBits)
    <2>1. b = 0 => ToLong(a - b) = a
      <3>1. 2^LongBits \in Nat \ {0} /\ a \in 0 .. 2^LongBits - 1
        BY Moduli DEF Long
      <3>2. a % 2^LongBits = a
        BY <3>1
      <3> QED BY <3>1, <3>2 DEF ToLong
    <2> QED BY <2>1 DEF Alu, Arch!Sum, Arch!Difference, AluRegister, AluImmediate, Compares
  <1>3. Arch!Value(i, r) =
            CASE op = "MOVZ" -> b
              [] op \in Arch!Sum -> ToLong(a + b)
              [] op \in Arch!Difference -> ToLong(a - b)
              [] op = "MUL" -> Times(a, b)
              [] op \in {"AND", "ANDS"} -> And(a, b)
              [] op = "EOR" -> Xor(a, b, LongBits)
              [] op = "ORR" -> Or(a, b)
              [] op = "LSLI" -> ShiftLeft(a, LongBits - 1 - (b % LongBits))
              [] op = "LSRI" -> ShiftRight(a, b % LongBits)
    BY <1>1, SameConversions, SameArithmetic DEF Arch!Value, Arch!LongBits, LongBits
  <1>4. op # "MOVZ"
    BY DEF AluRegister, AluImmediate, Compares
  <1> QED BY <1>2, <1>3, <1>4 DEF AluRegister, AluImmediate, Compares, Arch!Sum, Arch!Difference

-----------------------------------------------------------------------------
(* What does not depend on the departures.                                 *)

(* The latches pipe_init leaves are bubbles, and the machine runs.         *)
LEMMA DecodedInit == Init => DecodedInv /\ RunInv
  BY DEF Init, DecodedInv, RunInv, ToExecute, Bubble, InExecute

(* No other stage than execute and decode changes decodeStruct, ...        *)
LEMMA DecodedStays ==
  ASSUME DecodedInv, UNCHANGED <<program, decodeStruct>>, stage # "decode"
  PROVE  DecodedInv'
  <1>1. \A x : InstructionAt(x)' = InstructionAt(x)
    BY DEF InstructionAt
  <1> QED BY <1>1 DEF DecodedInv, ToExecute, Bubble

(* ... and decode takes its fields from the word fetched.                  *)
LEMMA DecodedStep ==
  ASSUME CommonInv, DecodedInv, [Next]_vars
  PROVE  DecodedInv'
  <1>t. ControlTypeOK
    BY DEF CommonInv, StateInv, ControlInv
  <1>p. \A x : InstructionAt(x)' = InstructionAt(x)
    BY TextStays
  <1>1. CASE ExecuteStage
    <2>1. CASE ExecuteStalled
      BY <1>p, <2>1 DEF ExecuteStalled, latches, controlVars, DecodedInv, ToExecute, Bubble
    <2>2. CASE Executed
      BY <2>2 DEF Executed, Moves, DecodedInv, ToExecute
    <2> QED BY <1>t, <1>1, <2>1, <2>2, ExecuteEffect
  <1>2. CASE pipe_stage_decode
    <2>1. CASE StallFlag = 1
      BY <1>2, <1>p, <2>1 DEF pipe_stage_decode, controlVars, DecodedInv, ToExecute, Bubble
    <2>2. CASE StallFlag # 1
      <3> DEFINE w == fetchStruct.word
      <3>1. /\ decodeStruct'.PC = fetchStruct.PC
            /\ decodeStruct'.Rd = RdField(w) /\ decodeStruct'.Rn = RnField(w)
            /\ decodeStruct'.Rm = RmField(w) /\ decodeStruct'.Rt = RtField(w)
            /\ w.op \notin Keepers => decodeStruct'.imm = w.imm
        BY <1>2, <2>2 DEF pipe_stage_decode, Immediate
      <3>2. ~Bubble(decodeStruct)' => w = InstructionAt(fetchStruct.PC)
        BY <3>1 DEF CommonInv, TravelInv, Bubble
      <3> QED BY <1>p, <3>1, <3>2 DEF DecodedInv, ToExecute
    <2> QED BY <2>1, <2>2
  <1>3. CASE \/ BeginCycle \/ StallCycle \/ pipe_stage_wb \/ SkipWriteBack \/ MissCycle
             \/ MemoryStage \/ FetchStage \/ Halted
    <2>1. UNCHANGED <<program, decodeStruct>> /\ stage # "decode"
      <3>1. CASE ~MemoryStage
        BY <1>3, <3>1, ProgramStays DEF BeginCycle, StallCycle, pipe_stage_wb, SkipWriteBack, MissCycle,
                    FetchStage, FetchStallCycle, FetchNothing, FetchHit, FetchMiss, Fetching,
                    FetchTurn, EndCycle, Halted, vars, latches
      <3>2. CASE MemoryStage
        BY <1>t, <3>2, MemoryEffect DEF MemMiss, Passed, MemoryKept
      <3> QED BY <3>1, <3>2
    <2> QED BY <2>1, DecodedStays
  <1>4. CASE UNCHANGED vars
    BY <1>4 DEF vars, latches, controlVars, DecodedInv, ToExecute, Bubble, InstructionAt
  <1> QED BY <1>1, <1>2, <1>3, <1>4 DEF Next

(* The machine runs when an instruction is written back or sent on: behind *)
(* a HLT there is none.                                                    *)
LEMMA RunStep ==
  ASSUME MachineInv, RunInv, [Next]_vars
  PROVE  RunInv'
  <1>t. ControlTypeOK /\ WaitStages /\ HaltInv
    BY DEF MachineInv, StateInv, ControlInv
  <1>f. {StallFlag, fresh_data_stall, HaltFlag, RUN_BIT} \subseteq {0, 1}
    BY <1>t DEF ControlTypeOK, Flag
  <1>1. CASE BeginCycle \/ StallCycle \/ MissCycle \/ FetchStage \/ Halted
             \/ pipe_stage_decode
    <2>1. /\ UNCHANGED <<executeStruct, memoryStruct, RUN_BIT, StallFlag, fresh_data_stall>>
          /\ stage \notin {"wb", "mem", "execute"} /\ stage' \notin {"mem", "execute"}
          /\ stage' = "wb" => RUN_BIT = 1
      BY <1>1 DEF BeginCycle, StallCycle, MissCycle, FetchStage, FetchStallCycle,
                  FetchNothing, FetchHit, FetchMiss, Fetching, FetchTurn, EndCycle, Halted,
                  pipe_stage_decode, vars, statVars, latches, stallVars, controlVars
    <2> QED BY <2>1 DEF RunInv, InExecute, InMemory, Running
  <1>2. CASE pipe_stage_wb
    <2>1. /\ UNCHANGED <<memoryStruct, StallFlag>>
          /\ executeStruct'.op = executeStruct.op
          /\ RUN_BIT' = IF memoryStruct.op = "HLT" THEN 0 ELSE RUN_BIT
          /\ stage = "wb" /\ stage' = "mem" /\ fresh_data_stall = 0
      BY <1>t, <1>2, WriteBackMovesNothing DEF pipe_stage_wb, LatchesStay, controlVars
    <2> QED BY <2>1 DEF RunInv, InExecute, InMemory, Running
  <1>3. CASE SkipWriteBack \/ MemMiss
    <2>1. /\ UNCHANGED <<executeStruct, StallFlag, RUN_BIT>>
          /\ stage \in {"wb", "mem"} /\ stage' \in {"mem", "miss"}
          /\ stage = "mem" => fresh_data_stall' = 1
          /\ stage = "wb" => fresh_data_stall # 0 /\ stage' = "mem"
      BY <1>3 DEF SkipWriteBack, MemMiss, update_PC, statVars, latches, controlVars
    <2> QED BY <2>1 DEF RunInv, InExecute, InMemory, Running
  <1>4. CASE Passed
    BY <1>4 DEF Passed, RunInv, InExecute
  <1>5. CASE ExecuteStalled
    BY <1>5 DEF ExecuteStalled, controlVars, RunInv, InExecute
  <1>6. CASE Executed
    <2>1. /\ stage = "execute" /\ stage' = "decode" /\ StallFlag = 0
          /\ UNCHANGED <<memoryStruct, RUN_BIT, StallFlag, fresh_data_stall>>
          /\ executeStruct'.op = decodeStruct.op
      BY <1>6 DEF Executed, Moves, Sent, statVars
    <2>2. decodeStruct.op # "NoOp" => HaltFlag = 0
      BY <1>f, <1>t DEF HaltInv, HaltDrains
    <2>3. HaltFlag = 0 => RUN_BIT = 1 /\ memoryStruct.op # "HLT"
      BY <1>f, <1>t DEF HaltInv, StopsOnlyByHalt
    <2> QED BY <2>1, <2>2, <2>3 DEF RunInv, InExecute, InMemory, Running
  <1>7. CASE MemoryStage
    BY <1>t, <1>3, <1>4, <1>7, MemoryEffect
  <1>8. CASE ExecuteStage
    BY <1>t, <1>5, <1>6, <1>8, ExecuteEffect
  <1>9. CASE UNCHANGED vars
    BY <1>9 DEF vars, statVars, latches, stallVars, controlVars, RunInv, InExecute, InMemory,
                Running
  <1> QED BY <1>1, <1>2, <1>3, <1>7, <1>8, <1>9 DEF Next

(* A step that adds no departure is none, and comes after none.            *)
LEMMA NothingDeparts ==
  ASSUME NEW found, Record(found), departures' = {}
  PROVE  /\ departures = {} /\ found = {}
         /\ ~LosesInstruction /\ ~RepeatsInstruction /\ ~ExecutesUnknownWord
         /\ ~SkipsAfterUntaken /\ ~ForgetsToSubtract /\ ~MissesZero /\ ~ReadsStaleValue
         /\ ~CutsResult /\ ~CutsAddress /\ ~CutsHalfword /\ ~StoresWholeWord
         /\ ~SetsNoFlags /\ ~BranchesOnOldFlags /\ ~BranchesOnUndoneFlags
         /\ ~CorrectsMemory
  <1>1. departures' = departures \cup {x \in DOMAIN Departures : Departures[x]} \cup found
    BY DEF Record
  <1>2. departures = {} /\ found = {} /\ \A x \in DOMAIN Departures : ~Departures[x]
    BY <1>1
  <1>3. /\ "lost" \in DOMAIN Departures /\ (Departures["lost"] <=> LosesInstruction)
        /\ "again" \in DOMAIN Departures /\ (Departures["again"] <=> RepeatsInstruction)
        /\ "unknown" \in DOMAIN Departures
        /\ Departures["unknown"] <=> ExecutesUnknownWord
        /\ "untaken" \in DOMAIN Departures /\ (Departures["untaken"] <=> SkipsAfterUntaken)
        /\ "immediate" \in DOMAIN Departures
        /\ Departures["immediate"] <=> ForgetsToSubtract
        /\ "zero" \in DOMAIN Departures /\ (Departures["zero"] <=> MissesZero)
        /\ "stale" \in DOMAIN Departures /\ (Departures["stale"] <=> ReadsStaleValue)
        /\ "result" \in DOMAIN Departures /\ (Departures["result"] <=> CutsResult)
    BY Zenon DEF Departures
  <1>4. /\ "address" \in DOMAIN Departures /\ (Departures["address"] <=> CutsAddress)
        /\ "halfword" \in DOMAIN Departures /\ (Departures["halfword"] <=> CutsHalfword)
        /\ "narrow" \in DOMAIN Departures /\ (Departures["narrow"] <=> StoresWholeWord)
        /\ "no_flags" \in DOMAIN Departures /\ (Departures["no_flags"] <=> SetsNoFlags)
        /\ "late_flags" \in DOMAIN Departures
        /\ Departures["late_flags"] <=> BranchesOnOldFlags
        /\ "undone_flags" \in DOMAIN Departures
        /\ Departures["undone_flags"] <=> BranchesOnUndoneFlags
        /\ "by_hand" \in DOMAIN Departures /\ (Departures["by_hand"] <=> CorrectsMemory)
    BY Zenon DEF Departures
  <1> QED BY <1>2, <1>3, <1>4

-----------------------------------------------------------------------------
(* Execute.                                                                *)

(* What executes is the instruction at its address, with its own fields.   *)
LEMMA ExecutedWord ==
  ASSUME CommonInv, BubbleInv, OrderInv, DecodedInv, Executes, ~ExecutesUnknownWord,
         NEW i, i = InstructionAt(decodeStruct.PC)
  PROVE  /\ i.op \notin Keepers /\ IsInstruction(i)
         /\ decodeStruct.op = OperationOf(i)
         /\ decodeStruct.op \in ReadsRn => decodeStruct["Rn"] = i.Rn
         /\ decodeStruct.op \in ReadsRm => decodeStruct["Rm"] = i.Rm
         /\ decodeStruct.op \in ReadsRt => decodeStruct["Rt"] = i.Rd
         /\ decodeStruct.op \in WritesRd => decodeStruct.Rd = i.Rd
         /\ decodeStruct.op \in Loads => decodeStruct.Rt = i.Rd
         /\ decodeStruct.op \in WritesRd \cup Loads => i.Rd \in Regs
         /\ \A f \in ReadFields(decodeStruct.op) : decodeStruct[f] \in Regs
         /\ decodeStruct.imm = i.imm
  <1>1. ~Bubble(decodeStruct) /\ ToExecute
    BY DEF Executes, BubbleInv, ToExecute
  <1>2. i.op \notin Keepers /\ IsInstruction(i)
    BY <1>1, InstructionsAreWords
       DEF Executes, ExecutesUnknownWord, CommonInv, StateInv, ControlInv, ControlTypeOK
  <1>3. decodeStruct.op = OperationOf(i)
    BY <1>1, <1>2 DEF OrderInv, FrontInv
  <1>4. /\ decodeStruct.Rd = RdField(i) /\ decodeStruct.Rn = RnField(i)
        /\ decodeStruct.Rm = RmField(i) /\ decodeStruct.Rt = RtField(i)
        /\ decodeStruct.imm = i.imm
    BY <1>1, <1>2 DEF DecodedInv
  <1>5. /\ OperationOf(i) \in ReadsRn => RnField(i) = i.Rn
        /\ OperationOf(i) \in ReadsRm => RmField(i) = i.Rm
        /\ OperationOf(i) \in ReadsRt \cup Loads => RtField(i) = i.Rd
        /\ OperationOf(i) \in WritesRd => RdField(i) = i.Rd
    BY DEF RnField, RmField, RtField, RdField, ReadsRn, ReadsRm, ReadsRt, WritesRd,
           AluRegister, AluImmediate, Loads, Stores, Compares, Branches, FlagBranches,
           ZeroTests, Keepers
  <1>6. /\ OperationOf(i) \in ReadsRn => i.Rn \in Regs
        /\ OperationOf(i) \in ReadsRm => i.Rm \in Regs
        /\ OperationOf(i) \in ReadsRt \cup Loads \cup WritesRd => i.Rd \in Regs
    BY <1>2 DEF IsInstruction
  <1>7. \A f \in ReadFields(decodeStruct.op) : decodeStruct[f] \in Regs
    BY <1>3, <1>4, <1>5, <1>6 DEF ReadFields, Fields
  <1> QED BY <1>2, <1>3, <1>4, <1>5, <1>6, <1>7

(* It computes with the registers as they are.                             *)
LEMMA OperandsAreRegisters ==
  ASSUME CommonInv, BubbleInv, OrderInv, DecodedInv, OperandInv, IntsInv, Executes,
         ~ExecutesUnknownWord, ~MissesZero, ~ReadsStaleValue
  PROVE  \A f \in ReadFields(decodeStruct.op) : Operand(f) = Registers[decodeStruct[f]]
  <1> TAKE f \in ReadFields(decodeStruct.op)
  <1>n. f \in NamedFields
    BY ExecutedWord DEF NamedFields
  <1>1. Registers[decodeStruct[f]] \in
           {Operand(f)} \cup (IF f \in forward THEN {ToInt(Operand(f))} ELSE {})
    BY <1>n, OperandsFollow DEF OperandsAreCurrent
  <1>2. CASE f \in forward /\ f \in suspect
    BY <1>n, <1>2 DEF ReadsStaleValue, Operand
  <1>3. CASE f \in forward /\ f \notin suspect
    BY <1>1, <1>3 DEF IntsInv, Proper, Operand
  <1>4. CASE f \notin forward
    BY <1>1, <1>4
  <1> QED BY <1>2, <1>3, <1>4
(* The result is the one the instruction set gives.                        *)
LEMMA ResultIsValue ==
  ASSUME CommonInv, BubbleInv, OrderInv, DecodedInv, OperandInv, IntsInv, Executes,
         ~ExecutesUnknownWord, ~MissesZero, ~ReadsStaleValue, ~ForgetsToSubtract,
         decodeStruct.op \in WritesRd \cup Compares,
         NEW i, i = InstructionAt(decodeStruct.PC)
  PROVE  Result(decodeStruct) = Arch!Value(i, Registers)
  <1> DEFINE d == decodeStruct
  <1>1. /\ d.op = OperationOf(i) /\ d.imm = i.imm
        /\ d.op \in ReadsRn => d["Rn"] = i.Rn
        /\ d.op \in ReadsRm => d["Rm"] = i.Rm
    BY ExecutedWord
  <1>2. /\ d.op \in ReadsRn => Operand("Rn") = Arch!First(i, Registers)
        /\ d.op \in ReadsRm => Operand("Rm") = Arch!Second(i, Registers)
        /\ d.op \notin ReadsRm => d.imm = Arch!Second(i, Registers)
    BY <1>1, OperandsAreRegisters, SameSets
       DEF ReadFields, Fields, Arch!First, Arch!Second
  <1>3. CASE d.op = "MOVZ"
    <2>1. d.op \notin ReadsRm
      BY <1>3 DEF ReadsRm, AluRegister
    <2>2. Arch!Value(i, Registers) = Arch!Second(i, Registers)
      <3>1. Arch!OperationOf(i) = "MOVZ"
        BY <1>1, <1>3, SameSets
      <3> QED BY <3>1 DEF Arch!Value, Arch!Sum, Arch!Difference
    <2> QED BY <1>2, <1>3, <2>1, <2>2 DEF Result
  <1>4. CASE d.op # "MOVZ"
    <2>1. d.op \in AluRegister \cup AluImmediate \cup Compares /\ d.op \in ReadsRn
      BY <1>4 DEF WritesRd, ReadsRn
    <2>2. Operand("Rn") \in Long
      BY OperandsAreLong DEF CommonInv, StateInv, Fields
    <2>3. CASE d.op \in ReadsRm
      <3>1. d.op \notin {"SUBI", "SUBSI", "CMPI"}
        BY <2>3 DEF ReadsRm, AluRegister
      <3>2. Alu(d.op, Operand("Rn"), Operand("Rm")) = Arch!Value(i, Registers)
        BY <1>1, <1>2, <2>1, <2>2, <2>3, <3>1, AluIsValue
      <3> QED BY <1>4, <2>3, <3>2 DEF Result
    <2>4. CASE d.op \notin ReadsRm
      <3>1. d.op \in {"SUBI", "SUBSI", "CMPI"} => "Rn" \notin forward \/ d.imm = 0
        BY DEF ForgetsToSubtract
      <3>2. Alu(d.op, Operand("Rn"), d.imm) = Arch!Value(i, Registers)
        BY <1>1, <1>2, <2>1, <2>2, <2>4, <3>1, AluIsValue
      <3> QED BY <1>4, <2>4, <3>2 DEF Result
    <2> QED BY <2>3, <2>4
  <1> QED BY <1>3, <1>4

(* What execute sends on is what the instruction set makes of the          *)
(* registers.                                                              *)
LEMMA ExecuteHolds ==
  ASSUME CommonInv, BubbleInv, OrderInv, DecodedInv, OperandInv, IntsInv,
         Executed, Acts, Executes, NEW found, Record(found), departures' = {},
         NEW i, i = InstructionAt(decodeStruct.PC)
  PROVE  Holding(executeStruct', i, Registers)
  <1> DEFINE d == decodeStruct
             e == executeStruct'
             r == Registers
  <1>n. /\ ~ExecutesUnknownWord /\ ~MissesZero /\ ~ReadsStaleValue /\ ~ForgetsToSubtract
        /\ ~CutsResult /\ ~CutsAddress /\ ~CutsHalfword
    BY NothingDeparts
  <1>a. Computed /\ StallFlag = 0
    BY DEF Acts, Executed, Moves
  <1>1. /\ d.op = OperationOf(i) /\ d.imm = i.imm
        /\ d.op \in ReadsRn => d["Rn"] = i.Rn
        /\ d.op \in ReadsRt => d["Rt"] = i.Rd
        /\ d.op \in WritesRd => d.Rd = i.Rd
        /\ d.op \in Loads => d.Rt = i.Rd
    BY <1>n, ExecutedWord
  <1>2. e.op = d.op /\ e.Rd = d.Rd /\ e.Rt = d.Rt
    BY DEF Executed, Sent
  <1>3. /\ d.op \in ReadsRn => Operand("Rn") = r[i.Rn]
        /\ d.op \in ReadsRt => Operand("Rt") = r[i.Rd]
    BY <1>n, <1>1, OperandsAreRegisters DEF ReadFields, Fields
  <1>4. d.op \in WritesRd => e.RdVal = Arch!Value(i, r)
    BY <1>n, <1>a, ResultIsValue DEF Computed
  <1>5. d.op \in Compares => e.cmpResult = Arch!Value(i, r)
    BY <1>n, <1>a, ResultIsValue DEF Computed, CutsResult
  <1>6. d.op \in Loads \cup Stores =>
            ToLong(Operand("Rn") + d.imm) = Arch!Address(i, r)
    BY <1>1, <1>3, SameConversions DEF ReadsRn, Arch!Address, Arch!First
  <1>7. d.op \in Loads =>
            /\ e.loadValLow = Arch!Address(i, r)
            /\ d.op = "LDUR" => ToWord(e.loadValLow + 4) = ToLong(e.loadValLow + 4)
    BY <1>n, <1>a, <1>6 DEF Computed, CutsAddress
  <1>8. d.op \in Stores => e.storeAddress = Arch!Address(i, r)
    BY <1>n, <1>a, <1>6 DEF Computed, CutsAddress
  <1>9. /\ d.op = "STUR" => e.storeValLow = ToWord(r[i.Rd]) /\ e.storeValHigh = HighWord(r[i.Rd])
        /\ d.op \in {"STURB", "STURH"} => e.storeValLow = LowByte(r[i.Rd])
        /\ d.op = "STURH" => LowHalfword(r[i.Rd]) = LowByte(r[i.Rd])
    BY <1>n, <1>a, <1>3 DEF Computed, ReadsRt, Stores, CutsHalfword
  <1>10. d.op = "LDUR" => d.op \in Loads
    BY DEF Loads
  <1> QED BY <1>1, <1>2, <1>4, <1>5, <1>7, <1>8, <1>9, <1>10 DEF Holding

(* It leads where the instruction set says.                                *)
LEMMA ExecuteLeads ==
  ASSUME CommonInv, BubbleInv, OrderInv, DecodedInv, OperandInv, FlagInv, IntsInv,
         Executed, Acts, Executes, NEW found, Record(found), departures' = {},
         NEW i, i = InstructionAt(decodeStruct.PC)
  PROVE  Follows(decodeStruct) = Arch!NextAddress(i, decodeStruct.PC, Registers, flags)
  <1> DEFINE d == decodeStruct
             r == Registers
  <1>n. /\ ~ExecutesUnknownWord /\ ~MissesZero /\ ~ReadsStaleValue /\ ~SkipsAfterUntaken
        /\ ~BranchesOnOldFlags /\ ~BranchesOnUndoneFlags
    BY NothingDeparts
  <1>1. /\ d.op = OperationOf(i) /\ d.imm = i.imm
        /\ d.op \in ReadsRn => d["Rn"] = i.Rn
        /\ d.op \in ReadsRt => d["Rt"] = i.Rd
    BY <1>n, ExecutedWord
  <1>3. /\ d.op \in ReadsRn => Operand("Rn") = r[i.Rn]
        /\ d.op \in ReadsRt => Operand("Rt") = r[i.Rd]
    BY <1>n, <1>1, OperandsAreRegisters DEF ReadFields, Fields
  <1>4. CASE d.op \notin Branches
    BY <1>1, <1>4, NextOfBranches DEF Follows
  <1>5. CASE d.op \in Branches
    <2>1. d.op \in FlagBranches => temp_FLAG_N = flags.N /\ temp_FLAG_Z = flags.Z
      BY <1>n, FlagsFollow DEF BranchesSeeTheFlags, FlagsInPlace
    <2>2. d.op \in ZeroTests => Operand("Rt") = Arch!Data(i, r)
      BY <1>3 DEF ReadsRt, Arch!Data
    <2>3. d.op = "BR" => Operand("Rn") = Arch!First(i, r)
      BY <1>3 DEF ReadsRn, Arch!First
    <2>4. BranchTaken(d.op) <=> Arch!Taken(i, r, flags)
      BY <1>1, <1>5, <2>1, <2>2, SameSets
         DEF BranchTaken, Arch!Taken, Branches, FlagBranches, ZeroTests
    <2>5. BranchTaken(d.op) \/ d.op = "BGT"
      BY <1>n, <1>5 DEF SkipsAfterUntaken
    <2>6. Arch!OperationOf(i) = d.op /\ Arch!Branches = Branches
          /\ \A x : Arch!ToLong(x) = ToLong(x)
      BY <1>1, SameSets, SameConversions
    <2>7. d.op = "BR" => BranchTaken(d.op)
      BY DEF BranchTaken
    <2> QED BY <1>1, <1>5, <2>3, <2>4, <2>5, <2>6, <2>7
            DEF Follows, CorrectAddress, Arch!NextAddress
  <1> QED BY <1>4, <1>5
-----------------------------------------------------------------------------
(* Results fit into an int: those that do not are departures at execute, ... *)
LEMMA ExecuteKeepsInts ==
  ASSUME IntsInv, Executed, Acts,
         Executes => CommonInv /\ BubbleInv /\ OrderInv /\ DecodedInv,
         NEW found, Record(found), departures' = {}
  PROVE  IntsInv'
  <1>1. /\ stage = "execute" /\ StallFlag = 0
        /\ UNCHANGED memoryStruct
        /\ executeStruct'.op = decodeStruct.op /\ executeStruct'.Rd = decodeStruct.Rd
    BY DEF Executed, Moves, Sent
  <1>2. ASSUME decodeStruct.op \in WritesRd
        PROVE  executeStruct'.RdVal = ToInt(executeStruct'.RdVal) /\ decodeStruct.Rd \in Regs
    <2>1. Executes
      BY <1>1, <1>2 DEF Executes, WritesRd, AluRegister, AluImmediate
    <2>2. ~CutsResult /\ ~ExecutesUnknownWord
      BY NothingDeparts
    <2>3. decodeStruct.Rd \in Regs
      BY <1>2, <2>1, <2>2, ExecutedWord
    <2> QED BY <1>2, <2>1, <2>2, <2>3 DEF CutsResult, Acts, Computed
  <1>3. suspect' = forward'
    BY <1>1 DEF Record, RecordForwarding, Passes
  <1> QED BY <1>1, <1>2, <1>3 DEF IntsInv, Proper

(* ... memory hands them on and forwards them as they are, ...             *)
LEMMA MemoryKeepsInts ==
  ASSUME ControlTypeOK, IntsInv, HandsOn, NEW found, Record(found)
  PROVE  IntsInv'
  <1> DEFINE e == executeStruct
             m == memoryStruct'
  <1>1. /\ stage = "mem" /\ stage' = "execute"
        /\ UNCHANGED executeStruct
        /\ Forward(m.RdVal # 0, e.Rd, e.RdVal)
        /\ IF e.op \in Loads /\ StallFlag = 1
           THEN m.op = "NoOp" /\ m.RdVal = 0
           ELSE m.op = e.op /\ m.RdVal = e.RdVal /\ m.Rd = e.Rd
    BY HandedOn DEF HandsOn, Passed, MemoryKept, CheckDependency, Forgotten, Remembered
  <1>2. m.op \in WritesRd => m.RdVal = ToInt(m.RdVal) /\ m.Rd \in Regs
    BY <1>1 DEF IntsInv, Proper, WritesRd, AluRegister, AluImmediate
  <1>3. Suspects(m.RdVal # 0, e.Rd, e.op) \subseteq suspect'
    BY <1>1, SuspectHistory
  <1>4. ASSUME NEW f \in forward' \ suspect'
        PROVE  forwarded'[f] = ToInt(forwarded'[f])
    <2>1. f \notin Suspects(m.RdVal # 0, e.Rd, e.op)
      BY <1>3, <1>4
    <2>2. m.RdVal # 0 => m.RdVal = e.RdVal
      BY <1>1
    <2> QED BY <1>1, <1>4, <2>1, <2>2
            DEF Forward, Suspects, IntsInv, Proper, Matching, ControlTypeOK
  <1> QED BY <1>1, <1>2, <1>4 DEF IntsInv, Proper

(* ... and so do the other stages.                                         *)
LEMMA IntsStep ==
  ASSUME ControlTypeOK, IntsInv, Next,
         Executes => CommonInv /\ BubbleInv /\ OrderInv /\ DecodedInv,
         NEW found, Record(found), departures' = {}
  PROVE  IntsInv'
  <1>1. CASE BeginCycle \/ StallCycle \/ MissCycle \/ FetchStage \/ Halted \/ SkipWriteBack
             \/ pipe_stage_decode \/ ExecuteStalled
    <2>1. /\ UNCHANGED <<executeStruct, memoryStruct, forward, forwarded>>
          /\ \/ stage \notin {"wb", "mem", "execute"}
             \/ stage = "wb" /\ fresh_data_stall # 0
             \/ stage = "execute" /\ StallFlag # 0
      BY <1>1 DEF BeginCycle, StallCycle, MissCycle, FetchStage, FetchStallCycle,
                  FetchNothing, FetchHit, FetchMiss, Fetching, FetchTurn, EndCycle, Halted,
                  SkipWriteBack, pipe_stage_decode, ExecuteStalled, vars, latches, forwardVars
    <2> QED BY <2>1, SuspectHistory DEF IntsInv, Proper
  <1>2. CASE pipe_stage_wb
    <2> DEFINE m == memoryStruct
    <2>1. /\ LatchesStay
          /\ stage = "wb" /\ fresh_data_stall = 0
          /\ Forward(m.RdVal # 0, m.Rd, m.RdVal)
      BY <1>2, WriteBackMovesNothing DEF pipe_stage_wb
    <2>2. suspect' = Suspects(m.RdVal # 0, m.Rd, m.op)
      BY <2>1, SuspectHistory
    <2>3. ASSUME NEW f \in forward' \ suspect'
          PROVE  forwarded'[f] = ToInt(forwarded'[f])
      BY <2>1, <2>2, <2>3 DEF Forward, Suspects, IntsInv, Proper, Matching, ControlTypeOK
    <2> QED BY <2>1, <2>3 DEF IntsInv, Proper, LatchesStay
  <1>3. CASE MemMiss
    <2>1. /\ UNCHANGED <<executeStruct, forward, forwarded>>
          /\ stage = "mem" /\ stage' = "miss"
          /\ memoryStruct' = Latched
          /\ executeStruct.op \in {"STUR", "LDUR"}
      BY <1>3 DEF MemMiss, forwardVars, DataMiss
    <2>2. memoryStruct'.op \notin WritesRd
      BY <2>1 DEF Latched, WritesRd, AluRegister, AluImmediate
    <2> QED BY <2>1, <2>2, SuspectHistory DEF IntsInv, Proper
  <1>4. CASE MemoryStage
    BY <1>3, <1>4, MemoryHandsOn, MemoryKeepsInts
  <1>5. CASE ExecuteStage
    <2>1. ExecuteStalled \/ Executed
      BY <1>5, ExecuteEffect
    <2>2. Executed => Acts
      BY <1>5, ExecuteActs DEF Executed, Moves
    <2> QED BY <1>1, <2>1, <2>2, ExecuteKeepsInts
  <1> QED BY <1>1, <1>2, <1>4, <1>5 DEF Next

-----------------------------------------------------------------------------
(* Where the program stands.                                               *)

\* A step that is none of Architecture, and moves nothing to or from execute.
Quiet ==
    /\ UNCHANGED <<program, mem, Registers, flags, pc, current, successor>>
    /\ UNCHANGED Running
    /\ HaltFlag = 1 => HaltFlag' = 1
    /\ InExecute' <=> InExecute
    /\ InExecute => UNCHANGED executeStruct

(* Such a step does not change where the program stands.                   *)
LEMMA QuietStands ==
  ASSUME StandInv, Quiet
  PROVE  StandInv'
  <1>1. Last' = Last
    BY DEF Quiet, Last, InstructionAt
  <1>2. PICK i : i = Last
    OBVIOUS
  <1>3. Repeatable(Last)' <=> Repeatable(Last)
    BY <1>1 DEF Repeatable, Reads
  <1>4. PICK r : r = Registers
    OBVIOUS
  <1>5. Registers' = r
    BY <1>4 DEF Quiet
  <1> QED BY <1>1, <1>2, <1>3, <1>4, <1>5 DEF Quiet, StandInv

(* What the history says of the program when nothing commits.              *)
LEMMA QuietProgram ==
  ASSUME NEW found, Record(found)
  PROVE  /\ ~Executes => UNCHANGED <<current, successor>>
         /\ ~Commits => UNCHANGED <<pc, flags>>
  BY DEF Record, RecordInstruction

(* A load that passes memory again, or a bubble, changes nothing, ...      *)
LEMMA PassingIsQuiet ==
  ASSUME StateInv, HeldInv, HandsOn, NEW found, Record(found), ~Commits
  PROVE  Quiet
  <1>t. ControlTypeOK
    BY DEF StateInv, ControlInv
  <1>h. UNCHANGED <<pc, flags, current, successor>>
    BY QuietProgram DEF HandsOn, Passed, Executes
  <1>1. /\ stage = "mem" /\ stage' = "execute"
        /\ UNCHANGED <<program, REGS, executeStruct, RUN_BIT, HaltFlag>>
        /\ StallFlag = 1 \/ executeStruct.op = "NoOp"
    BY <1>t DEF HandsOn, Passed, MemoryKept, statVars, Commits, Passes, ControlTypeOK, Flag
  <1>2. executeStruct.op \in Loads \cup {"NoOp"}
    BY <1>1 DEF HeldInv
  <1>3. memoryStruct'.op = "NoOp"
    BY <1>1, <1>2 DEF HandsOn, Passed, Forgotten, Remembered, Loads, HeldInv
  <1>4. UNCHANGED mem
    BY <1>2, Apart DEF HandsOn, Stores
  <1>5. ~InMemory /\ ~InMemory' /\ ~InExecute /\ ~InExecute'
    BY <1>1, <1>3 DEF InMemory, InExecute
  <1> QED BY <1>h, <1>1, <1>4, <1>5 DEF Quiet, Registers, Running

(* ... nor does a bubble in execute, ...                                   *)
LEMMA BubbleIsQuiet ==
  ASSUME Executed, NEW found, Record(found), ~Executes
  PROVE  Quiet
  <1>h. UNCHANGED <<pc, flags, current, successor>>
    BY QuietProgram DEF Executed, Moves, Commits, Passes
  <1>1. /\ UNCHANGED <<program, mem, REGS, memoryStruct, RUN_BIT, StallFlag,
                       fresh_data_stall, HaltFlag>>
        /\ stage = "execute" /\ stage' = "decode" /\ StallFlag = 0
        /\ executeStruct'.op = "NoOp"
    BY DEF Executed, Moves, Sent, statVars, Executes
  <1>2. (InMemory' <=> InMemory) /\ ~InExecute /\ ~InExecute'
    BY <1>1 DEF InMemory, InExecute
  <1> QED BY <1>h, <1>1, <1>2 DEF Quiet, Registers, Running, NextRegister

(* ... nor any other step that neither executes an instruction nor takes   *)
(* one past memory.                                                        *)
LEMMA OthersAreQuiet ==
  ASSUME StateInv, HeldInv, Proper(memoryStruct), stage = "wb" => RUN_BIT = 1,
         Next, NEW found, Record(found), departures' = {}, ~Executes, ~Commits
  PROVE  Quiet
  <1>t. ControlTypeOK
    BY DEF StateInv, ControlInv
  <1>n. ~CorrectsMemory
    BY NothingDeparts
  <1>h. UNCHANGED <<pc, flags, current, successor>>
    BY QuietProgram
  <1>1. CASE BeginCycle \/ StallCycle \/ MissCycle \/ FetchStage \/ Halted
             \/ pipe_stage_decode \/ ExecuteStalled
    <2>1. /\ UNCHANGED <<program, REGS, executeStruct, memoryStruct, RUN_BIT, StallFlag,
                         fresh_data_stall, HaltFlag>>
          /\ stage \notin {"wb", "mem"} /\ stage' \notin {"mem", "execute"}
          /\ stage = "execute" => StallFlag = 1
      BY <1>1 DEF BeginCycle, StallCycle, MissCycle, FetchStage, FetchStallCycle,
                  FetchNothing, FetchHit, FetchMiss, Fetching, FetchTurn, EndCycle, Halted,
                  pipe_stage_decode, ExecuteStalled, vars, statVars, latches, stallVars,
                  controlVars
    <2>2. UNCHANGED mem
      <3>1. CASE BeginCycle
        BY <1>n, <3>1 DEF BeginCycle, CorrectsMemory
      <3>2. CASE ~BeginCycle
        BY <1>1, <3>2 DEF StallCycle, MissCycle, FetchStage, FetchStallCycle,
                  FetchNothing, FetchHit, FetchMiss, Fetching, FetchTurn, Halted,
                  pipe_stage_decode, ExecuteStalled, vars
      <3> QED BY <3>1, <3>2
    <2>3. (InExecute' <=> InExecute) /\ (InMemory' <=> InMemory)
      BY <2>1 DEF InExecute, InMemory
    <2> QED BY <1>h, <2>1, <2>2, <2>3 DEF Quiet, Registers, Running, NextRegister
  <1>2. CASE pipe_stage_wb
    <2>1. /\ UNCHANGED <<program, mem, executeStruct, memoryStruct, StallFlag, HaltFlag>>
          /\ REGS' = NextRegister(memoryStruct)
          /\ RUN_BIT' = IF memoryStruct.op = "HLT" THEN 0 ELSE RUN_BIT
          /\ stage = "wb" /\ stage' = "mem" /\ fresh_data_stall = 0
      BY <1>2 DEF pipe_stage_wb, WrittenBehind, Proper, controlVars
    <2>2. RUN_BIT = 1
      BY <2>1
    <2>3. Registers' = REGS' /\ Registers = REGS'
      <3>1. memoryStruct.op = "NoOp" => NextRegister(memoryStruct) = REGS
        BY OperationClasses DEF NextRegister, Operations
      <3> QED BY <2>1, <2>2, <3>1 DEF Registers, InMemory
    <2>4. Running' <=> Running
      BY <2>1, <2>2 DEF Running, InMemory
    <2> QED BY <1>h, <2>1, <2>3, <2>4 DEF Quiet, InExecute, Running
  <1>3. CASE SkipWriteBack \/ MemMiss
    <2>1. /\ UNCHANGED <<program, mem, REGS, executeStruct, StallFlag, RUN_BIT, HaltFlag>>
          /\ stage \in {"wb", "mem"} /\ stage' \in {"mem", "miss"}
          /\ stage = "mem" => fresh_data_stall' = 1
          /\ stage = "wb" => fresh_data_stall # 0 /\ stage' = "mem"
      BY <1>3 DEF SkipWriteBack, MemMiss, update_PC, statVars, latches, controlVars
    <2>2. ~InMemory /\ ~InMemory' /\ (InExecute' <=> InExecute)
      BY <2>1 DEF InMemory, InExecute
    <2> QED BY <1>h, <2>1, <2>2 DEF Quiet, Registers, Running
  <1>4. CASE MemoryStage
    BY <1>t, <1>3, <1>4, MemoryHandsOn, PassingIsQuiet
  <1>5. CASE ExecuteStage
    BY <1>t, <1>1, <1>5, ExecuteEffect, BubbleIsQuiet
  <1> QED BY <1>1, <1>2, <1>3, <1>4, <1>5 DEF Next

(* The steps at which an instruction is executed ...                       *)
LEMMA ExecutesActs ==
  ASSUME ControlTypeOK, Next, Executes
  PROVE  Executed /\ Acts
  <1>1. stage = "execute" /\ StallFlag = 0
    BY DEF Executes
  <1>2. ExecuteStage
    <2>1. ~(BeginCycle \/ StallCycle \/ pipe_stage_wb \/ SkipWriteBack \/ MissCycle
            \/ MemoryStage \/ pipe_stage_decode \/ FetchStage \/ Halted)
      BY <1>1 DEF BeginCycle, StallCycle, pipe_stage_wb, SkipWriteBack, MissCycle,
                  MemoryStage, MemLoad, MemStore, MemStoreNarrow, MemPass, MemMiss,
                  pipe_stage_decode, FetchStage, FetchStallCycle, FetchNothing, FetchHit,
                  FetchMiss, Fetching, FetchTurn, Halted
    <2> QED BY <2>1 DEF Next
  <1> QED BY <1>1, <1>2, ExecuteEffect, ExecuteActs DEF ExecuteStalled

(* ... or leaves memory are these.                                         *)
LEMMA CommitsHandOn ==
  ASSUME ControlTypeOK, Next, Commits
  PROVE  HandsOn
  <1>1. stage = "mem" /\ stage' = "execute"
    BY DEF Commits, Passes
  <1>2. MemoryStage
    <2>1. ~(BeginCycle \/ StallCycle \/ pipe_stage_wb \/ SkipWriteBack \/ MissCycle
            \/ ExecuteStage \/ pipe_stage_decode \/ FetchStage \/ Halted)
      <3>1. ~ExecuteStage
        BY <1>1, ExecuteEffect DEF ExecuteStalled, Executed, Moves
      <3> QED BY <1>1, <3>1 DEF BeginCycle, StallCycle, pipe_stage_wb, SkipWriteBack,
                  MissCycle, pipe_stage_decode, FetchStage, FetchStallCycle, FetchNothing,
                  FetchHit, FetchMiss, Fetching, FetchTurn, Halted
    <2> QED BY <2>1 DEF Next
  <1> QED BY <1>1, <1>2, MemoryHandsOn DEF MemMiss

(* Execute: the instruction that is sent on is the next one of the         *)
(* program, or the last one again, and has still the effect it had.        *)
LEMMA ExecuteStands ==
  ASSUME CommonInv, BubbleInv, OrderInv, DecodedInv, OperandInv, FlagInv, IntsInv,
         StandInv, Executed, Acts, NEW found, Record(found), departures' = {}, Executes
  PROVE  StandInv' /\ UNCHANGED <<program, mem, Registers, flags, pc, Running>>
  <1> DEFINE d == decodeStruct
  <1>t. StallFlag = 0 /\ stage = "execute" /\ HaltFlag = 0
    BY DEF CommonInv, StateInv, ControlInv, Executes, HaltInv, HaltDrains, ControlTypeOK,
           Flag
  <1>n. ~LosesInstruction /\ ~RepeatsInstruction /\ ~ExecutesUnknownWord
    BY NothingDeparts
  <1>1. /\ UNCHANGED <<program, mem, REGS, memoryStruct, RUN_BIT, StallFlag,
                       fresh_data_stall>>
        /\ stage' = "decode"
        /\ executeStruct'.op = d.op
        /\ d.op = "HLT" => HaltFlag' = 1
    BY DEF Executed, Moves, Sent, statVars
  <1>2. UNCHANGED <<flags, pc>> /\ current' = d.PC /\ successor' = Follows(d)
    BY <1>t DEF Record, RecordInstruction, Commits, Passes
  <1>3. (InMemory' <=> InMemory) /\ ~InExecute /\ InExecute'
    BY <1>t, <1>1 DEF InMemory, InExecute, Executes
  <1>4. UNCHANGED <<Registers, Running>>
    BY <1>1, <1>3 DEF Registers, Running, NextRegister
  <1>5. PICK i : i = InstructionAt(d.PC)
    OBVIOUS
  <1>6. Last' = i
    BY <1>1, <1>2, <1>5 DEF Last, InstructionAt
  <1>7. i.op \notin Keepers /\ d.op = OperationOf(i)
    BY <1>n, <1>5, ExecutedWord
  <1>8. PICK r : r = Registers
    OBVIOUS
  <1>9. Holding(executeStruct', i, r) /\ successor' = Arch!NextAddress(i, d.PC, r, flags)
    BY <1>2, <1>5, <1>8, ExecuteHolds, ExecuteLeads
  <1>10. pc = successor /\ Effective(Last, r, mem, flags)
    BY <1>3, <1>8 DEF StandInv
  <1>11. \/ pc = d.PC
         \/ Last = i /\ pc = successor' /\ Repeatable(i)
    <2>1. d.PC = IF repeated THEN current ELSE successor
      <3>1. "unknown" \notin departures
        BY NothingDeparts
      <3> QED BY <1>n, <3>1, OrderFollows DEF InProgramOrder
    <2>2. CASE ~repeated
      BY <1>10, <2>1, <2>2
    <2>3. CASE repeated
      <3>1. Last = i /\ d.PC = current
        BY <1>5, <2>1, <2>3 DEF Last
      <3>2. successor' = successor
        BY <1>7, <1>8, <1>9, <3>1 DEF StandInv
      <3>3. OperationOf(i) # "HLT"
        BY <1>t, <3>1 DEF StandInv
      <3>4. ASSUME OperationOf(i) \in WritesRd \cup Loads
            PROVE  i.Rd \notin Reads(i)
        <4>1. Sources(d) \cap Destinations(d) = {}
          BY <1>n, <2>3 DEF RepeatsInstruction
        <4>2. i.Rd \in Destinations(d)
          BY <1>n, <1>5, <1>7, <3>4, ExecutedWord
             DEF Destinations, WritesRd, Loads, AluRegister, AluImmediate
        <4>3. Reads(i) \subseteq Sources(d)
          BY <1>n, <1>5, <1>7, ExecutedWord DEF Sources, ReadFields, Fields, Reads
        <4> QED BY <4>1, <4>2, <4>3
      <3> QED BY <1>10, <3>1, <3>2, <3>3, <3>4 DEF Repeatable
    <2> QED BY <2>2, <2>3
  <1>12. StandInv'
    <2>1. Last'.op \notin Keepers /\ Holding(executeStruct, Last, Registers)'
          /\ successor' = Arch!NextAddress(Last', current', Registers', flags')
      BY <1>2, <1>4, <1>6, <1>7, <1>8, <1>9
    <2>2. OperationOf(Last') = "HLT" => HaltFlag' = 1
      BY <1>1, <1>6, <1>7
    <2>3. CASE pc = d.PC
      BY <1>2, <1>3, <2>1, <2>2, <2>3 DEF StandInv
    <2>4. CASE Last = i /\ pc = successor' /\ Repeatable(i)
      <3>1. Effective(Last, Registers, mem, flags)' /\ Repeatable(Last)'
        BY <1>1, <1>2, <1>4, <1>6, <1>8, <1>10, <2>4 DEF Repeatable, Reads
      <3> QED BY <1>2, <2>1, <2>2, <2>4, <3>1 DEF StandInv
    <2> QED BY <1>11, <2>3, <2>4
  <1> QED BY <1>1, <1>2, <1>4, <1>12

-----------------------------------------------------------------------------
(* Memory.                                                                 *)

(* The lower parts of a word read are its first bytes.                     *)
LEMMA LowParts ==
  ASSUME NEW m \in [Addresses -> Byte], NEW a
  PROVE  /\ LowByte(mem_read_32(m, a)) = ByteAt(m, a)
         /\ LowHalfword(mem_read_32(m, a)) =
                IF InRegion(a) THEN ByteAt(m, a) + 2^ByteBits * ByteAt(m, a + 1) ELSE 0
  <1> DEFINE b == 2^ByteBits
  <1>b. b \in Nat \ {0} /\ Byte = 0 .. b - 1 /\ 2^(2 * ByteBits) = b * b
    BY Moduli, MachineWidths DEF Byte
  <1>1. \A x : ByteAt(m, x) \in Byte
    BY Inclusions DEF ByteAt, InRegion
  <1>2. CASE ~InRegion(a)
    <2>1. mem_read_32(m, a) = 0 /\ ByteAt(m, a) = 0
      BY <1>2 DEF mem_read_32, ByteAt
    <2>2. b * b \in Nat \ {0}
      BY <1>b
    <2>3. \A n \in Nat \ {0} : 0 % n = 0
      OBVIOUS
    <2> QED BY <1>2, <1>b, <2>1, <2>2, <2>3 DEF LowByte, LowHalfword
  <1>3. CASE InRegion(a)
    <2>1. PICK x \in Byte, y \in Byte, z \in Byte, t \in Byte :
              x = ByteAt(m, a) /\ y = ByteAt(m, a + 1)
              /\ z = ByteAt(m, a + 2) /\ t = ByteAt(m, a + 3)
      BY <1>1
    <2> HIDE DEF b
    <2>2. mem_read_32(m, a) = x + b * (y + b * (z + b * t))
      BY <1>3, <2>1 DEF mem_read_32, b
    <2>3. LowByte(mem_read_32(m, a)) = (x + b * (y + b * (z + b * t))) % b
          /\ LowHalfword(mem_read_32(m, a)) = (x + b * (y + b * (z + b * t))) % (b * b)
      BY <1>b, <2>2 DEF LowByte, LowHalfword, b
    <2>4. z + b * t \in Nat /\ y + b * (z + b * t) \in Nat
      BY <1>b
    <2>5. (x + b * (y + b * (z + b * t))) % b = x
      <3>1. \A q \in Nat : (x + b * q) % b = x
        BY <1>b, TheRemainder
      <3> QED BY <2>4, <3>1
    <2>6. x + b * y \in 0 .. b * b - 1 /\ b * b \in Nat \ {0}
      BY <1>b, TwoDigits
    <2>7. x + b * (y + b * (z + b * t)) = (x + b * y) + (b * b) * (z + b * t)
      <3>1. \A w \in Nat : x + b * (y + b * w) = (x + b * y) + (b * b) * w
        BY <1>b
      <3> QED BY <2>4, <3>1
    <2>8. ((x + b * y) + (b * b) * (z + b * t)) % (b * b) = x + b * y
      BY <2>4, <2>6, TheRemainder
    <2> QED BY <1>3, <2>1, <2>3, <2>5, <2>7, <2>8 DEF b
  <1> QED BY <1>2, <1>3

(* A byte stored as a word is that byte and three that are 0.              *)
LEMMA ByteAsWord ==
  ASSUME NEW v \in Nat
  PROVE  /\ ByteOf(LowByte(v), 0) = ByteOf(v, 0)
         /\ \A k \in 1 .. 3 : ByteOf(LowByte(v), k) = 0
         /\ LowHalfword(v) = LowByte(v) => ByteOf(v, 1) = 0
  <1> DEFINE b == 2^ByteBits
             low == LowByte(v)
             up  == v \div b
  <1>b. b \in Nat \ {0} /\ 2^(2 * ByteBits) = b * b /\ ByteBits \in Nat \ {0}
    BY Moduli, MachineWidths
  <1>1. low \in 0 .. b - 1 /\ low = v % b
    BY <1>b, Remainder DEF LowByte
  <1>2. \A x \in Nat : ByteOf(x, 0) = x % b
    <2>1. ByteBits * 0 = 0 /\ 2^0 = 1
      BY <1>b, ByteBitsAssumption
    <2>2. \A x \in Nat : x \div 1 = x
      OBVIOUS
    <2> QED BY <2>1, <2>2 DEF ByteOf
  <1>3. ByteOf(low, 0) = ByteOf(v, 0)
    <2>1. \A x \in 0 .. b - 1 : x % b = x
      BY <1>b
    <2> QED BY <1>1, <1>2, <2>1
  <1>4. ASSUME NEW k \in 1 .. 3
        PROVE  ByteOf(low, k) = 0
    <2>1. ByteBits * k \in Widths /\ ByteBits <= ByteBits * k
      <3>1. ByteBits \in Nat /\ LongBits = 8 * ByteBits
        BY MachineWidths DEF LongBits
      <3>2. k = 1 \/ k = 2 \/ k = 3
        OBVIOUS
      <3> QED BY <3>1, <3>2 DEF Widths
    <2>2. PICK p \in Nat \ {0} : p = 2^(ByteBits * k)
      BY <2>1, PowersArePositive
    <2>3. b <= p
      BY <2>1, <2>2, MachineWidths, PowersGrow
    <2>4. low \div p = 0
      <3>1. low \in 0 .. p - 1
        BY <1>1, <1>b, <2>3
      <3>2. (low + p * 0) \div p = 0 /\ low + p * 0 = low
        BY <3>1, TheRemainder
      <3> QED BY <3>2
    <2>5. 0 % b = 0
      BY <1>b
    <2> QED BY <2>2, <2>4, <2>5 DEF ByteOf
  <1>5. ASSUME LowHalfword(v) = low
        PROVE  ByteOf(v, 1) = 0
    <2>1. up \in Nat /\ v = b * up + low
      <3>1. \A n \in Nat \ {0} : v \div n \in Nat /\ v = n * (v \div n) + (v % n)
        OBVIOUS
      <3>2. v \div b \in Nat /\ v = b * (v \div b) + (v % b)
        BY <1>b, <3>1, Zenon
      <3>3. low = v % b
        BY <1>1
      <3> HIDE DEF low, b
      <3> QED BY <3>2, <3>3 DEF up
    <2>2. ByteOf(v, 1) = up % b
      <3>1. ByteBits * 1 = ByteBits
        BY <1>b
      <3>2. ByteOf(v, 1) = (v \div 2^(ByteBits * 1)) % b
        BY DEF ByteOf
      <3> QED BY <3>1, <3>2
    <2> HIDE DEF up, low, b
    <2>3. PICK s \in 0 .. b - 1, t \in Nat : s = up % b /\ up = s + b * t
      <3>1. /\ up % b \in 0 .. b - 1 /\ up \div b \in Nat
            /\ up = (up % b) + b * (up \div b)
        BY <1>b, <2>1
      <3> QED BY <3>1
    <2>4. low + b * s \in 0 .. b * b - 1 /\ b * b \in Nat \ {0}
      BY <1>b, <1>1, TwoDigits
    <2>5. v = (low + b * s) + (b * b) * t
      BY <1>b, <1>1, <2>1, <2>3
    <2>6. v % (b * b) = low + b * s
      BY <2>4, <2>5, TheRemainder
    <2>7. b * s = 0
      <3>1. low = low + b * s
        BY <1>b, <1>5, <2>6 DEF LowHalfword, b
      <3>2. b * s \in Nat /\ low \in Nat
        BY <1>b, <1>1, <2>3
      <3> QED BY <3>1, <3>2
    <2>8. s = 0
      BY <1>b, <2>3, <2>7
    <2> QED BY <2>2, <2>3, <2>8
  <1> QED BY <1>3, <1>4, <1>5

(* A word written is its four bytes, and the others stay.                  *)
LEMMA WordWritten ==
  ASSUME NEW m \in [Addresses -> Byte], NEW a \in Int, NEW v \in Nat
  PROVE  /\ mem_write_32(m, a, v) \in [Addresses -> Byte]
         /\ \A x \in Addresses : mem_write_32(m, a, v)[x] =
                IF InRegion(a) /\ x - a \in 0 .. 3 THEN ByteOf(v, x - a) ELSE m[x]
  <1>1. mem_write_32(m, a, v) \in [Addresses -> Byte]
    BY WordsInMemory
  <1>2. CASE ~InRegion(a)
    BY <1>1, <1>2 DEF mem_write_32
  <1>3. CASE InRegion(a)
    <2>1. PICK b0, b1, b2, b3 : b0 = ByteOf(v, 0) /\ b1 = ByteOf(v, 1)
                                /\ b2 = ByteOf(v, 2) /\ b3 = ByteOf(v, 3)
      OBVIOUS
    <2>2. mem_write_32(m, a, v) = [m EXCEPT ![a] = b0, ![a + 1] = b1, ![a + 2] = b2,
                                            ![a + 3] = b3]
      BY <1>3, <2>1 DEF mem_write_32
    <2>3. Addresses \subseteq Int
      BY RegionsAssumption DEF Addresses
    <2>4. ASSUME NEW x \in Addresses
          PROVE  mem_write_32(m, a, v)[x] =
                     IF x - a \in 0 .. 3 THEN ByteOf(v, x - a) ELSE m[x]
      <3>1. x \in Int
        BY <2>3
      <3>2. CASE x = a
        BY <2>1, <2>2, <3>1, <3>2
      <3>3. CASE x = a + 1
        <4>1. x - a = 1
          BY <3>3
        <4> QED BY <2>1, <2>2, <3>1, <3>3, <4>1
      <3>4. CASE x = a + 2
        <4>1. x - a = 2
          BY <3>4
        <4> QED BY <2>1, <2>2, <3>1, <3>4, <4>1
      <3>5. CASE x = a + 3
        <4>1. x - a = 3
          BY <3>5
        <4> QED BY <2>1, <2>2, <3>1, <3>5, <4>1
      <3>6. CASE x \notin {a, a + 1, a + 2, a + 3}
        <4>1. x - a \notin 0 .. 3
          BY <3>1, <3>6
        <4> QED BY <2>2, <3>6, <4>1
      <3> QED BY <3>2, <3>3, <3>4, <3>5, <3>6
    <2> QED BY <1>1, <1>3, <2>4
  <1> QED BY <1>2, <1>3

(* A store that is made again changes nothing.                             *)
LEMMA StoredAgain ==
  ASSUME NEW i, OperationOf(i) \in Stores, NEW r, Arch!Address(i, r) \in Int,
         r[i.Rd] \in Long, NEW m \in [Addresses -> Byte]
  PROVE  Arch!Stored(i, r, Arch!Stored(i, r, m)) = Arch!Stored(i, r, m)
  <1>1. PICK a \in Int : a = Arch!Address(i, r)
    OBVIOUS
  <1>2. PICK v \in Long : v = r[i.Rd]
    OBVIOUS
  <1>3. Arch!OperationOf(i) = OperationOf(i) /\ Arch!Data(i, r) = v
    BY <1>2, SameSets DEF Arch!Data
  <1>4. CASE OperationOf(i) = "STUR"
    <2> DEFINE b == ToLong(a + 4)
    <2>1. b \in Int
      <3>1. a + 4 \in Int
        OBVIOUS
      <3>2. ToLong(a + 4) \in Long
        BY <3>1, Conversions
      <3>3. \A x \in Long : x \in Int
        BY Inclusions
      <3> QED BY <3>2, <3>3
    <2>2. PICK low \in Nat, high \in Nat : low = ToWord(v) /\ high = HighWord(v)
      BY PartsOfLongs, Inclusions
    <2>3. \A x : Arch!Stored(i, r, x) = mem_write_32(mem_write_32(x, a, low), b, high)
      BY <1>1, <1>3, <1>4, <2>1, <2>2, SameMemory, SameConversions DEF Arch!Stored
    <2> HIDE DEF b
    <2>4. PICK n \in [Addresses -> Byte] : n = mem_write_32(m, a, low)
      BY WordWritten
    <2>5. PICK o \in [Addresses -> Byte] : o = mem_write_32(n, b, high)
      BY <2>1, WordWritten
    <2>6. PICK p \in [Addresses -> Byte] : p = mem_write_32(o, a, low)
      BY WordWritten
    <2>7. PICK q \in [Addresses -> Byte] : q = mem_write_32(p, b, high)
      BY <2>1, WordWritten
    <2>8. ASSUME NEW x \in Addresses
          PROVE  q[x] = o[x]
      <3>1. n[x] = IF InRegion(a) /\ x - a \in 0 .. 3 THEN ByteOf(low, x - a) ELSE m[x]
        BY <2>4, WordWritten
      <3>2. o[x] = IF InRegion(b) /\ x - b \in 0 .. 3 THEN ByteOf(high, x - b) ELSE n[x]
        BY <2>1, <2>5, WordWritten
      <3>3. p[x] = IF InRegion(a) /\ x - a \in 0 .. 3 THEN ByteOf(low, x - a) ELSE o[x]
        BY <2>6, WordWritten
      <3>4. q[x] = IF InRegion(b) /\ x - b \in 0 .. 3 THEN ByteOf(high, x - b) ELSE p[x]
        BY <2>1, <2>7, WordWritten
      <3> QED BY <3>1, <3>2, <3>3, <3>4, Zenon
    <2>9. q = o
      BY <2>8
    <2> QED BY <2>3, <2>4, <2>5, <2>6, <2>7, <2>9
  <1>5. CASE OperationOf(i) = "STURB"
    <2>1. \A x : Arch!Stored(i, r, x) =
                     IF InRegion(a) THEN [x EXCEPT ![a] = ByteOf(v, 0)] ELSE x
      BY <1>1, <1>3, <1>5, SameMemory, SameConversions DEF Arch!Stored
    <2> QED BY <2>1 DEF InRegion
  <1>6. CASE OperationOf(i) = "STURH"
    <2>1. \A x : Arch!Stored(i, r, x) =
                     IF InRegion(a) THEN [x EXCEPT ![a]     = ByteOf(v, 0),
                                                   ![a + 1] = ByteOf(v, 1)]
                                    ELSE x
      BY <1>1, <1>3, <1>6, SameMemory, SameConversions DEF Arch!Stored
    <2> QED BY <2>1 DEF InRegion
  <1> QED BY <1>4, <1>5, <1>6 DEF Stores

(* The word that a narrow store writes is the byte or halfword when the    *)
(* bytes behind it are 0.                                                  *)
LEMMA NarrowStores ==
  ASSUME NEW m \in [Addresses -> Byte], NEW a \in Int, NEW v \in Nat
  PROVE  /\ (InRegion(a) => \A k \in 1 .. 3 : m[a + k] = 0) =>
                mem_write_32(m, a, LowByte(v)) =
                    IF InRegion(a) THEN [m EXCEPT ![a] = ByteOf(v, 0)] ELSE m
         /\ LowHalfword(v) = LowByte(v)
                /\ (InRegion(a) => \A k \in 2 .. 3 : m[a + k] = 0) =>
                mem_write_32(m, a, LowByte(v)) =
                    IF InRegion(a) THEN [m EXCEPT ![a]     = ByteOf(v, 0),
                                                  ![a + 1] = ByteOf(v, 1)]
                                   ELSE m
  <1>1. PICK low \in Nat : low = LowByte(v)
    <2>1. v \in Int
      OBVIOUS
    <2>2. LowByte(v) \in Byte
      BY <2>1, Conversions
    <2> QED BY <2>2, Inclusions
  <1>2. PICK n \in [Addresses -> Byte] : n = mem_write_32(m, a, low)
    BY WordWritten
  <1>3. CASE ~InRegion(a)
    BY <1>1, <1>2, <1>3 DEF mem_write_32
  <1>4. CASE InRegion(a)
    <2>1. PICK b0, b1 : b0 = ByteOf(v, 0) /\ b1 = ByteOf(v, 1)
      OBVIOUS
    <2>2. Addresses \subseteq Int
      BY RegionsAssumption DEF Addresses
    <2>3. \A x \in Addresses :
              n[x] = IF x - a \in 0 .. 3 THEN ByteOf(low, x - a) ELSE m[x]
      BY <1>2, <1>4, WordWritten
    <2>4. ASSUME NEW x \in Addresses
          PROVE  n[x] = IF x = a THEN b0 ELSE IF x - a \in 1 .. 3 THEN 0 ELSE m[x]
      <3>1. x \in Int
        BY <2>2
      <3>2. CASE x = a
        <4>1. n[x] = ByteOf(low, 0)
          BY <2>3, <3>2
        <4> QED BY <1>1, <2>1, <3>2, <4>1, ByteAsWord
      <3>3. CASE x - a \in 1 .. 3
        <4>1. n[x] = ByteOf(low, x - a) /\ x # a
          BY <2>3, <3>1, <3>3
        <4> QED BY <1>1, <3>3, <4>1, ByteAsWord
      <3>4. CASE x - a \notin 0 .. 3
        BY <2>3, <3>1, <3>4
      <3> QED BY <3>1, <3>2, <3>3, <3>4
    <2>5. ASSUME \A k \in 1 .. 3 : m[a + k] = 0
          PROVE  n = [m EXCEPT ![a] = b0]
      <3>1. ASSUME NEW x \in Addresses
            PROVE  n[x] = [m EXCEPT ![a] = b0][x]
        <4>1. x - a \in 1 .. 3 => m[x] = 0
          <5>1. a + (x - a) = x
            BY <2>2
          <5> QED BY <2>5, <5>1
        <4> QED BY <2>2, <2>4, <4>1
      <3> QED BY <3>1
    <2>6. ASSUME b1 = 0, \A k \in 2 .. 3 : m[a + k] = 0
          PROVE  n = [m EXCEPT ![a] = b0, ![a + 1] = b1]
      <3>1. ASSUME NEW x \in Addresses
            PROVE  n[x] = [m EXCEPT ![a] = b0, ![a + 1] = b1][x]
        <4>1. x - a \in 2 .. 3 => m[x] = 0
          <5>1. a + (x - a) = x
            BY <2>2
          <5> QED BY <2>6, <5>1
        <4>2. x \in Int
          BY <2>2
        <4>3. n[x] = IF x = a THEN b0 ELSE IF x - a \in 1 .. 3 THEN 0 ELSE m[x]
          BY <2>4
        <4>4. CASE x = a
          BY <4>2, <4>3, <4>4
        <4>5. CASE x = a + 1
          <5>1. x - a = 1 /\ x # a
            BY <4>5
          <5> QED BY <2>6, <4>3, <4>5, <5>1
        <4>6. CASE x # a /\ x # a + 1
          <5>1. x - a \in 1 .. 3 <=> x - a \in 2 .. 3
            BY <4>2, <4>6
          <5> QED BY <4>1, <4>3, <4>6, <5>1
        <4> QED BY <4>4, <4>5, <4>6
      <3> QED BY <3>1
    <2>7. LowHalfword(v) = LowByte(v) => b1 = 0
      BY <2>1, ByteAsWord
    <2> QED BY <1>1, <1>2, <1>4, <2>1, <2>5, <2>6, <2>7
  <1> QED BY <1>3, <1>4

-----------------------------------------------------------------------------
(* An instruction leaves memory.                                           *)

(* What a load hands on to write-back.                                     *)
LEMMA LoadsLoad ==
  ASSUME DataInv, HandsOn, StallFlag = 0, executeStruct.op \in Loads,
         NEW i, NEW r, Holding(executeStruct, i, r)
  PROVE  memoryStruct'.RtVal = Arch!Loaded(i, r, mem) /\ UNCHANGED mem
  <1> DEFINE e == executeStruct
  <1>2. memoryStruct'.RtVal = LoadedValue /\ UNCHANGED mem
    BY HandedOn, Apart DEF HandsOn
  <1>3. PICK a : a = Arch!Address(i, r)
    OBVIOUS
  <1>4. AccessAddress = a /\ e.op # "STUR"
    BY <1>3 DEF Holding, AccessAddress, Loads
  <1>5. Arch!OperationOf(i) = e.op
    BY SameSets DEF Holding
  <1>6. mem \in [Addresses -> Byte]
    BY DEF DataInv, DataTypeOK
  <1>7. CASE e.op = "LDUR"
    <2>1. HighAddress = ToLong(a + 4)
      BY <1>3, <1>4, <1>7 DEF Holding, HighAddress, Loads
    <2>2. Arch!Loaded(i, r, mem) =
              mem_read_32(mem, a) + 2^IntBits * mem_read_32(mem, ToLong(a + 4))
      <3>1. Arch!Loaded(i, r, mem) =
                Arch!mem_read_32(mem, a)
                    + 2^Arch!IntBits * Arch!mem_read_32(mem, Arch!ToLong(a + 4))
        BY <1>3, <1>5, <1>7 DEF Arch!Loaded
      <3>2. Arch!IntBits = IntBits
        BY DEF Arch!IntBits, IntBits
      <3> QED BY <3>1, <3>2, SameMemory, SameConversions
    <2> QED BY <1>2, <1>4, <1>7, <2>1, <2>2 DEF LoadedValue
  <1>8. CASE e.op = "LDURB"
    <2>1. Arch!Loaded(i, r, mem) = ByteAt(mem, a)
      BY <1>3, <1>5, <1>8, SameMemory DEF Arch!Loaded
    <2>2. LoadedValue = LowByte(mem_read_32(mem, a))
      BY <1>4, <1>8 DEF LoadedValue
    <2> QED BY <1>2, <1>6, <2>1, <2>2, LowParts
  <1>9. CASE e.op = "LDURH"
    <2>1. Arch!Loaded(i, r, mem) =
              IF InRegion(a) THEN ByteAt(mem, a) + 2^ByteBits * ByteAt(mem, a + 1) ELSE 0
      BY <1>3, <1>5, <1>9, SameMemory DEF Arch!Loaded
    <2>2. LoadedValue = LowHalfword(mem_read_32(mem, a))
      BY <1>4, <1>9 DEF LoadedValue
    <2> QED BY <1>2, <1>6, <2>1, <2>2, LowParts
  <1> QED BY <1>7, <1>8, <1>9 DEF Loads

(* What a store leaves in memory.                                          *)
LEMMA StoresStore ==
  ASSUME DataInv, HandsOn, Commits, ~StoresWholeWord, executeStruct.op \in Stores,
         NEW i, NEW r, Holding(executeStruct, i, r), r[i.Rd] \in Long
  PROVE  mem' = Arch!Stored(i, r, mem)
  <1> DEFINE e == executeStruct
  <1>1. PICK v \in Long : v = r[i.Rd]
    OBVIOUS
  <1>2. PICK a \in Int : a = e.storeAddress
    <2>1. e.storeAddress \in Long /\ \A x \in Long : x \in Int
      BY Inclusions DEF DataInv, DataTypeOK
    <2> QED BY <2>1
  <1>3. a = Arch!Address(i, r)
    BY <1>2 DEF Holding
  <1>4. Arch!OperationOf(i) = e.op /\ Arch!Data(i, r) = v
    BY <1>1, SameSets DEF Holding, Arch!Data
  <1>5. mem \in [Addresses -> Byte] /\ v \in Nat
    BY Inclusions DEF DataInv, DataTypeOK
  <1>6. CASE e.op = "STUR"
    <2>2. AccessAddress = a /\ HighAddress = ToLong(a + 4)
      BY <1>2, <1>6 DEF AccessAddress, HighAddress
    <2>3. mem' = mem_write_32(mem_write_32(mem, a, ToWord(v)), ToLong(a + 4), HighWord(v))
      BY <1>1, <1>2, <1>6, <2>2 DEF HandsOn, Holding
    <2> QED BY <1>3, <1>4, <1>6, <2>3, SameMemory, SameConversions DEF Arch!Stored
  <1>7. CASE e.op \in {"STURB", "STURH"}
    <2>2. mem' = mem_write_32(mem, a, LowByte(v))
      BY <1>1, <1>2, <1>7 DEF HandsOn, Holding
    <2>3. InRegion(a) => /\ e.op = "STURB" => \A k \in 1 .. 3 : mem[a + k] = 0
                         /\ e.op = "STURH" => \A k \in 2 .. 3 : mem[a + k] = 0
      BY <1>2 DEF StoresWholeWord
    <2>4. CASE e.op = "STURB"
      <3>1. Arch!Stored(i, r, mem) =
                IF InRegion(a) THEN [mem EXCEPT ![a] = ByteOf(v, 0)] ELSE mem
        BY <1>3, <1>4, <2>4, SameMemory, SameConversions DEF Arch!Stored
      <3> QED BY <1>5, <2>2, <2>3, <2>4, <3>1, NarrowStores
    <2>5. CASE e.op = "STURH"
      <3>1. Arch!Stored(i, r, mem) =
                IF InRegion(a) THEN [mem EXCEPT ![a]     = ByteOf(v, 0),
                                                ![a + 1] = ByteOf(v, 1)]
                               ELSE mem
        BY <1>3, <1>4, <2>5, SameMemory, SameConversions DEF Arch!Stored
      <3>2. LowHalfword(v) = LowByte(v)
        BY <1>1, <2>5 DEF Holding
      <3> QED BY <1>5, <2>2, <2>3, <2>5, <3>1, <3>2, NarrowStores
    <2> QED BY <1>7, <2>4, <2>5
  <1> QED BY <1>6, <1>7 DEF Stores

\* The instruction of execute has its effect on the registers, the memory and
\* the flags.
Effect(i) ==
    /\ OperationOf(i) \in WritesRd =>
           /\ Registers' = [Registers EXCEPT ![i.Rd] = Arch!Value(i, Registers)]
           /\ flags' = IF OperationOf(i) \in SetsFlags \cup {"SUBSI"}
                       THEN Flags(Arch!Value(i, Registers)) ELSE flags
    /\ OperationOf(i) \in Loads =>
           Registers' = [Registers EXCEPT ![i.Rd] = Arch!Loaded(i, Registers, mem)]
    /\ OperationOf(i) \notin WritesRd \cup Loads => UNCHANGED Registers
    /\ OperationOf(i) \in Compares => flags' = Flags(Arch!Value(i, Registers))
    /\ OperationOf(i) \notin WritesRd \cup Compares => UNCHANGED flags
    /\ OperationOf(i) \in Stores => mem' = Arch!Stored(i, Registers, mem)
    /\ OperationOf(i) \notin Stores => UNCHANGED mem
    /\ Running' <=> OperationOf(i) # "HLT"

(* A step at which an instruction leaves memory is the effect of that      *)
(* instruction, and no other change.                                       *)
LEMMA CommitEffect ==
  ASSUME StateInv, IntsInv, StandInv, HandsOn, NEW found, Record(found),
         departures' = {}, Commits, Running
  PROVE  /\ Effect(Last)
         /\ Running /\ InExecute /\ ~InExecute'
         /\ UNCHANGED <<program, current, successor, HaltFlag>>
         /\ pc' = IF current = pc THEN successor ELSE pc
         /\ Registers \in [Regs -> Long]
         /\ executeStruct.op = OperationOf(Last)
         /\ OperationOf(Last) \in WritesRd \cup Loads => Last.Rd \in Regs
         /\ OperationOf(Last) \in Stores => /\ Arch!Address(Last, Registers) \in Int
                                            /\ Registers[Last.Rd] \in Long
  <1> DEFINE e == executeStruct
             m == memoryStruct'
  <1>t. /\ ControlTypeOK /\ WaitStages /\ DataInv /\ RegisterInv
        /\ program \in Programs
    BY DEF StateInv, ControlInv, ControlTypeOK
  <1>n. ~StoresWholeWord /\ ~SetsNoFlags
    BY NothingDeparts
  <1>c. stage = "mem" /\ stage' = "execute" /\ StallFlag = 0 /\ e.op # "NoOp"
    BY DEF Commits, Passes
  <1>m. Passed /\ UNCHANGED REGS
    BY DEF HandsOn
  <1>k. UNCHANGED <<program, executeStruct, RUN_BIT, HaltFlag, fresh_data_stall>>
    BY <1>m DEF Passed, MemoryKept, statVars
  <1>f. fresh_data_stall = 0
    BY <1>t, <1>c DEF WaitStages, ControlTypeOK, Flag
  <1>e. InExecute /\ ~InExecute' /\ ~InMemory
    BY <1>c DEF InExecute, InMemory
  <1>r. RUN_BIT = 1 /\ Registers = REGS
    BY <1>e DEF Running, Registers
  <1>1. PICK i : i = Last
    OBVIOUS
  <1>2. PICK r \in [Regs -> Long] : r = Registers
    BY <1>r, <1>t DEF DataInv, DataTypeOK
  <1>3. Holding(e, i, r)
    BY <1>e, <1>1, <1>2 DEF StandInv
  <1>4. e.op = OperationOf(i)
    BY <1>3 DEF Holding
  <1>5. m.op = e.op /\ m.Rd = e.Rd /\ m.Rt = e.Rt /\ m.RdVal = e.RdVal
    BY <1>c, <1>m, HandedOn DEF Passed, Remembered
  <1>6. InMemory'
    BY <1>c, <1>f, <1>k, <1>5 DEF InMemory
  <1>g. i.Rd \in Regs \/ e.op \notin WritesRd \cup Loads \cup Stores
    <2>1. IsInstruction(i)
      BY <1>t, <1>1, InstructionsAreWords DEF Last
    <2> QED BY <1>4, <2>1 DEF IsInstruction, ReadsRt
  <1>7. Registers' = NextRegister(m)
    <2>1. NextRegister(memoryStruct)' = NextRegister(m)
      BY <1>m DEF NextRegister
    <2> QED BY <1>6, <1>k, <1>r, <2>1 DEF Registers
  <1>8. /\ e.op \in WritesRd => Registers' = [r EXCEPT ![i.Rd] = Arch!Value(i, r)]
        /\ e.op \in Loads => Registers' = [r EXCEPT ![i.Rd] = Arch!Loaded(i, r, mem)]
        /\ e.op \notin WritesRd \cup Loads => Registers' = r
    <2>1. ASSUME e.op \in WritesRd
          PROVE  Registers' = [r EXCEPT ![i.Rd] = Arch!Value(i, r)]
      <3>1. e.Rd = i.Rd /\ ToInt(e.RdVal) = Arch!Value(i, r)
        BY <1>3, <2>1 DEF Holding, IntsInv, Proper
      <3>2. Registers' = [REGS EXCEPT ![m.Rd] = ToInt(m.RdVal)]
        BY <1>5, <1>7, <1>g, <2>1, <3>1 DEF NextRegister
      <3> QED BY <1>2, <1>r, <1>5, <3>1, <3>2
    <2>2. ASSUME e.op \in Loads
          PROVE  Registers' = [r EXCEPT ![i.Rd] = Arch!Loaded(i, r, mem)]
      <3>1. e.Rt = i.Rd
        BY <1>3, <2>2 DEF Holding
      <3>2. m.RtVal = Arch!Loaded(i, r, mem)
        BY <1>c, <1>t, <1>3, <2>2, LoadsLoad
      <3>3. e.op \notin WritesRd
        BY <2>2 DEF Loads, WritesRd, AluRegister, AluImmediate
      <3>4. Registers' = [REGS EXCEPT ![m.Rt] = m.RtVal]
        BY <1>5, <1>7, <1>g, <2>2, <3>1, <3>3 DEF NextRegister
      <3> QED BY <1>2, <1>r, <1>5, <3>1, <3>2, <3>4
    <2>3. e.op \notin WritesRd \cup Loads => Registers' = r
      BY <1>2, <1>r, <1>5, <1>7 DEF NextRegister
    <2> QED BY <2>1, <2>2, <2>3
  <1>10. e.op \in Stores => mem' = Arch!Stored(i, r, mem)
    BY <1>n, <1>t, <1>2, <1>3, <1>g, StoresStore
  <1>11. e.op \notin Stores => UNCHANGED mem
    BY Apart DEF HandsOn
  <1>12. flags' = FlagsLeft(e)
    BY DEF Record, RecordInstruction
  <1>13. /\ e.op \in WritesRd =>
                flags' = IF e.op \in SetsFlags \cup {"SUBSI"} THEN Flags(Arch!Value(i, r))
                                                              ELSE flags
         /\ e.op \in Compares => flags' = Flags(Arch!Value(i, r))
         /\ e.op \notin WritesRd \cup Compares => UNCHANGED flags
    <2>1. CASE e.op \in Compares
      <3>1. e.op \notin WritesRd
        BY <2>1 DEF Compares, WritesRd, AluRegister, AluImmediate
      <3> QED BY <1>3, <1>12, <2>1, <3>1 DEF FlagsLeft, Holding
    <2>2. CASE e.op \in WritesRd
      <3>1. e.op \notin Compares
        BY <2>2 DEF Compares, WritesRd, AluRegister, AluImmediate
      <3>2. e.RdVal = Arch!Value(i, r) /\ ToInt(e.RdVal) = e.RdVal
        BY <1>3, <2>2 DEF Holding, IntsInv, Proper
      <3>3. e.op = "SUBSI" => e.op \notin SetsFlags /\ flags = Flags(e.RdVal)
        BY <1>n DEF SetsNoFlags, SetsFlags
      <3> QED BY <1>12, <2>2, <3>1, <3>2, <3>3 DEF FlagsLeft
    <2>3. CASE e.op \notin WritesRd \cup Compares
      <3>1. e.op \notin SetsFlags
        BY <2>3 DEF SetsFlags, WritesRd, AluRegister, AluImmediate, Compares
      <3> QED BY <1>12, <2>3, <3>1 DEF FlagsLeft
    <2> QED BY <2>1, <2>2, <2>3
  <1>14. Running' <=> e.op # "HLT"
    BY <1>5, <1>6, <1>k, <1>r DEF Running
  <1>15. Effect(i)
    BY <1>2, <1>4, <1>8, <1>10, <1>11, <1>13, <1>14 DEF Effect
  <1>16. UNCHANGED <<current, successor>> /\ pc' = IF current = pc THEN successor ELSE pc
    BY <1>c DEF Record, RecordInstruction, Executes
  <1>17. e.op \in Stores => Arch!Address(i, r) \in Int
    <2>1. e.storeAddress \in Long
      BY <1>t DEF DataInv, DataTypeOK
    <2>2. \A x \in Long : x \in Int
      BY Inclusions
    <2> QED BY <1>3, <2>1, <2>2 DEF Holding
  <1> QED BY <1>k, <1>e, <1>r, <1>1, <1>2, <1>4, <1>g, <1>15, <1>16, <1>17

(* What has been done would be done again.                                 *)
LEMMA DoneOnce ==
  ASSUME StateInv, StandInv, Effect(Last),
         InExecute, Registers \in [Regs -> Long],
         OperationOf(Last) \in WritesRd \cup Loads => Last.Rd \in Regs,
         OperationOf(Last) \in Stores => /\ Arch!Address(Last, Registers) \in Int
                                         /\ Registers[Last.Rd] \in Long,
         NEW i, i = Last
  PROVE  /\ Effective(i, Registers', mem', flags')
         /\ Arch!NextAddress(i, current, Registers', flags') = successor
  <1> DEFINE op == OperationOf(i)
  <1>1. PICK r \in [Regs -> Long] : r = Registers
    OBVIOUS
  <1>2. PICK s : s = Registers'
    OBVIOUS
  <1>3. PICK n : n = mem'
    OBVIOUS
  <1>4. PICK f : f = flags'
    OBVIOUS
  <1>e. /\ op \in WritesRd =>
               /\ s = [r EXCEPT ![i.Rd] = Arch!Value(i, r)]
               /\ f = IF op \in SetsFlags \cup {"SUBSI"} THEN Flags(Arch!Value(i, r)) ELSE flags
        /\ op \in Loads => s = [r EXCEPT ![i.Rd] = Arch!Loaded(i, r, mem)]
        /\ op \notin WritesRd \cup Loads => s = r
        /\ op \in Compares => f = Flags(Arch!Value(i, r))
        /\ op \notin WritesRd \cup Compares => f = flags
        /\ op \in Stores => n = Arch!Stored(i, r, mem)
        /\ op \notin Stores => n = mem
    BY <1>1, <1>2, <1>3, <1>4 DEF Effect
  <1>d. /\ WritesRd \cap (Compares \cup Loads \cup Stores \cup Branches) = {}
        /\ Compares \cap (Loads \cup Stores \cup Branches) = {}
        /\ Loads \cap (Stores \cup Branches) = {}
        /\ Stores \cap Branches = {}
    BY DEF Compares, WritesRd, AluRegister, AluImmediate, Loads, Stores, Branches,
           FlagBranches, ZeroTests
  <1>5. ASSUME op \in WritesRd \cup Loads, i.Rd \notin Reads(i)
        PROVE  /\ i.Rd \in Regs
               /\ \A x \in Reads(i) : r[x] = s[x]
    <2>1. PICK v : s = [r EXCEPT ![i.Rd] = v]
      BY <1>e, <1>5
    <2> QED BY <1>5, <2>1
  <1>6. ASSUME op \in WritesRd, i.Rd \notin Reads(i)
        PROVE  /\ s[i.Rd] = Arch!Value(i, s)
               /\ op \in SetsFlags \cup {"SUBSI"} => f = Flags(Arch!Value(i, s))
    <2>1. Arch!Value(i, r) = Arch!Value(i, s)
      BY <1>5, <1>6, ValueOfSources
    <2> QED BY <1>e, <1>5, <1>6, <2>1
  <1>7. op \in Compares => f = Flags(Arch!Value(i, s))
    BY <1>d, <1>e
  <1>8. ASSUME op \in Loads, i.Rd \notin Reads(i)
        PROVE  s[i.Rd] = Arch!Loaded(i, s, n)
    <2>1. n = mem
      BY <1>d, <1>e, <1>8
    <2>2. Arch!Loaded(i, r, n) = Arch!Loaded(i, s, n)
      BY <1>5, <1>8, LoadedFromSources
    <2> QED BY <1>e, <1>5, <1>8, <2>1, <2>2
  <1>9. ASSUME op \in Stores
        PROVE  n = Arch!Stored(i, s, n)
    <2>1. s = r /\ n = Arch!Stored(i, r, mem)
      BY <1>d, <1>e, <1>9
    <2>2. mem \in [Addresses -> Byte]
      BY DEF StateInv, DataInv, DataTypeOK
    <2> QED BY <1>1, <1>9, <2>1, <2>2, StoredAgain
  <1>10. Effective(i, s, n, f)
    BY <1>6, <1>7, <1>8, <1>9 DEF Effective
  <1>11. Arch!NextAddress(i, current, s, f) = successor
    <2>1. successor = Arch!NextAddress(i, current, r, flags)
      BY <1>1 DEF StandInv
    <2>2. CASE op \in Branches
      <3>1. s = r /\ f = flags
        BY <1>d, <1>e, <2>2
      <3> QED BY <2>1, <3>1
    <2>3. CASE op \notin Branches
      BY <2>1, <2>3, NextOfBranches
    <2> QED BY <2>2, <2>3
  <1> QED BY <1>2, <1>3, <1>4, <1>10, <1>11

(* Memory: the instruction stands behind it, ...                           *)
LEMMA CommitStands ==
  ASSUME StateInv, IntsInv, StandInv, HandsOn, NEW found, Record(found),
         departures' = {}, Commits, Running
  PROVE  StandInv'
  <1>1. PICK i : i = Last
    OBVIOUS
  <1>2. /\ Effect(i) /\ InExecute /\ ~InExecute'
        /\ UNCHANGED <<program, current, successor, HaltFlag>>
        /\ pc' = IF current = pc THEN successor ELSE pc
    BY <1>1, CommitEffect
  <1>3. /\ Effective(i, Registers', mem', flags')
        /\ Arch!NextAddress(i, current, Registers', flags') = successor
    BY <1>1, CommitEffect, DoneOnce
  <1>4. Last' = i
    BY <1>1, <1>2 DEF Last, InstructionAt
  <1>5. pc' = successor'
    BY <1>2 DEF StandInv
  <1>6. OperationOf(i) = "HLT" => HaltFlag' = 1
    BY <1>1, <1>2 DEF StandInv
  <1>7. Effective(Last, Registers, mem, flags)'
    BY <1>3, <1>4
  <1>8. Last'.op \notin Keepers =>
            successor' = Arch!NextAddress(Last', current', Registers', flags')
    BY <1>2, <1>3, <1>4
  <1> QED BY <1>2, <1>4, <1>5, <1>6, <1>7, <1>8 DEF StandInv

(* ... which is a step of Architecture, or none if it was done before.     *)
LEMMA CommitIsStep ==
  ASSUME StateInv, IntsInv, StandInv, HandsOn, NEW found, Record(found),
         departures' = {}, Commits, Running
  PROVE  \/ Arch!Step
         \/ UNCHANGED <<program, mem, Registers, flags, pc, Running>>
  <1>1. PICK i : i = Last
    OBVIOUS
  <1>2. /\ Effect(i) /\ Running /\ InExecute
        /\ UNCHANGED <<program, current, successor>>
        /\ pc' = IF current = pc THEN successor ELSE pc
        /\ Registers \in [Regs -> Long]
        /\ OperationOf(i) \in WritesRd \cup Loads => i.Rd \in Regs
        /\ executeStruct.op = OperationOf(i)
    BY <1>1, CommitEffect
  <1>3. OperationOf(i) \in Operations
    <2>1. i.op \notin Keepers
      BY <1>1, <1>2 DEF StandInv
    <2>2. IsInstruction(i)
      BY <1>1, InstructionsAreWords DEF Last, StateInv, ControlInv, ControlTypeOK
    <2> QED BY <2>1, <2>2 DEF IsInstruction, Opcodes, OperationOf, Operations, Compares
  <1>4. CASE pc = current
    <2>1. Arch!Instruction = i
      BY <1>1, <1>4, SameInstruction DEF Last
    <2>2. Arch!Advance
      <3>1. pc' = Arch!NextAddress(i, pc, Registers, flags)
        <4>1. i.op \notin Keepers
          BY <1>1, <1>2 DEF StandInv
        <4> QED BY <1>1, <1>2, <1>4, <4>1 DEF StandInv
      <3>2. UNCHANGED program
        BY <1>2
      <3>3. departures = {} /\ departures' = {}
        BY NothingDeparts
      <3> QED BY <2>1, <3>1, <3>2, <3>3 DEF Arch!Advance
    <2>3. Arch!Operation = OperationOf(i)
      BY <2>1, SameSets DEF Arch!Operation
    <2>4. \A v : Arch!FlagsOf(v) = Flags(v)
      BY SameConversions DEF Arch!FlagsOf, Flags, NFlag, ZFlag
    <2>5. Arch!SetsTheFlags = SetsFlags \cup Compares \cup {"SUBSI"}
      BY SameSets DEF Arch!SetsTheFlags
    <2>6. departures = {} /\ departures' = {}
      BY NothingDeparts
    <2>d. /\ WritesRd \cap (Compares \cup Loads \cup Stores \cup Branches \cup {"HLT"}) = {}
          /\ Compares \cap (Loads \cup Stores \cup Branches \cup {"HLT"}) = {}
          /\ Loads \cap (Stores \cup Branches \cup {"HLT"}) = {}
          /\ Stores \cap (Branches \cup {"HLT"}) = {}
          /\ "HLT" \notin Branches
      BY DEF Compares, WritesRd, AluRegister, AluImmediate, Loads, Stores, Branches,
             FlagBranches, ZeroTests
    <2>7. CASE OperationOf(i) \in WritesRd
      <3>1. Arch!Compute
        BY <1>2, <2>1, <2>2, <2>3, <2>4, <2>5, <2>7, <2>d, SameSets
           DEF Effect, Arch!Compute
      <3> QED BY <1>2, <2>6, <3>1 DEF Arch!Step
    <2>8. CASE OperationOf(i) \in Compares
      <3>1. Arch!CompareValues
        BY <1>2, <2>1, <2>2, <2>3, <2>4, <2>8, <2>d, SameSets DEF Effect, Arch!CompareValues
      <3> QED BY <1>2, <2>6, <3>1 DEF Arch!Step
    <2>9. CASE OperationOf(i) \in Loads
      <3>1. Arch!Load
        BY <1>2, <2>1, <2>2, <2>3, <2>9, <2>d, SameSets DEF Effect, Arch!Load
      <3> QED BY <1>2, <2>6, <3>1 DEF Arch!Step
    <2>10. CASE OperationOf(i) \in Stores
      <3>1. Arch!Store
        BY <1>2, <2>1, <2>2, <2>3, <2>10, <2>d, SameSets DEF Effect, Arch!Store
      <3> QED BY <1>2, <2>6, <3>1 DEF Arch!Step
    <2>11. CASE OperationOf(i) \in Branches
      <3>1. Arch!Branch
        BY <1>2, <2>1, <2>2, <2>3, <2>11, <2>d, SameSets DEF Effect, Arch!Branch
      <3> QED BY <1>2, <2>6, <3>1 DEF Arch!Step
    <2>12. CASE OperationOf(i) = "HLT"
      <3>1. Arch!Stop
        BY <1>2, <2>1, <2>2, <2>3, <2>12, <2>d, SameSets DEF Effect, Arch!Stop
      <3> QED BY <1>2, <2>6, <3>1 DEF Arch!Step
    <2> QED BY <1>3, <2>7, <2>8, <2>9, <2>10, <2>11, <2>12 DEF Operations
  <1>5. CASE pc # current
    <2>1. /\ Effective(i, Registers, mem, flags) /\ Repeatable(i)
          /\ UNCHANGED pc
      BY <1>1, <1>2, <1>5 DEF StandInv
    <2>2. PICK r \in [Regs -> Long] : r = Registers
      BY <1>2
    <2>3. UNCHANGED Registers
      <3>1. CASE OperationOf(i) \in WritesRd
        <4>1. r[i.Rd] = Arch!Value(i, r) /\ i.Rd \in Regs
          BY <1>2, <2>1, <2>2, <3>1 DEF Effective, Repeatable
        <4>2. Registers' = [r EXCEPT ![i.Rd] = Arch!Value(i, r)]
          BY <1>2, <2>2, <3>1 DEF Effect
        <4> QED BY <2>2, <4>1, <4>2
      <3>2. CASE OperationOf(i) \in Loads
        <4>1. r[i.Rd] = Arch!Loaded(i, r, mem) /\ i.Rd \in Regs
          BY <1>2, <2>1, <2>2, <3>2 DEF Effective, Repeatable
        <4>2. Registers' = [r EXCEPT ![i.Rd] = Arch!Loaded(i, r, mem)]
          BY <1>2, <2>2, <3>2 DEF Effect
        <4> QED BY <2>2, <4>1, <4>2
      <3>3. CASE OperationOf(i) \notin WritesRd \cup Loads
        BY <1>2, <3>3 DEF Effect
      <3> QED BY <3>1, <3>2, <3>3
    <2>4. UNCHANGED flags
      <3>1. OperationOf(i) \in WritesRd => i.Rd \notin Reads(i)
        BY <2>1 DEF Repeatable
      <3> QED BY <1>2, <2>1, <3>1 DEF Effect, Effective
    <2>5. UNCHANGED mem
      BY <1>2, <2>1 DEF Effect, Effective
    <2>6. Running' <=> Running
      BY <1>2, <2>1 DEF Effect, Repeatable
    <2> QED BY <1>2, <2>1, <2>3, <2>4, <2>5, <2>6
  <1> QED BY <1>4, <1>5

-----------------------------------------------------------------------------
(* The refinement.                                                         *)

AllInv ==
    MachineInv /\ BubbleInv /\ OrderInv /\ OperandInv /\ FlagInv /\ RefinementInv

(* The simulator starts before the first instruction of the program.       *)
LEMMA RefinementInit == Init /\ HistoryInit => AllInv /\ Arch!Init
  <1> SUFFICES ASSUME Init, HistoryInit
               PROVE  AllInv /\ Arch!Init
    OBVIOUS
  <1>1. /\ executeStruct.op = "NoOp" /\ memoryStruct.op = "NoOp" /\ forward = {}
        /\ pc = successor /\ current = 0 /\ RUN_BIT = 1 /\ departures = {}
        /\ program \in Programs
    BY DEF Init, HistoryInit
  <1>2. Last = ZeroWord
    BY <1>1, NoWordAtZero DEF Last
  <1>3. Last.op = "NONE" /\ OperationOf(Last) = "NONE"
    BY <1>2 DEF ZeroWord, OperationOf
  <1>4. IntsInv
    BY <1>1 DEF IntsInv, Proper, WritesRd, AluRegister, AluImmediate
  <1>5. Effective(Last, Registers, mem, flags)
    BY <1>3 DEF Effective, WritesRd, AluRegister, AluImmediate, Compares, Loads, Stores
  <1>6. StandInv
    BY <1>1, <1>3, <1>5 DEF StandInv, InExecute, Keepers
  <1>7. AllInv
    BY <1>4, <1>6, MachineInit, OrderInit, OperandInit, FlagInit, DecodedInit
       DEF AllInv, RefinementInv, Init, BubbleInv, EmptyFetch, Bubble
  <1>8. Arch!Init
    <2>1. Registers = REGS /\ Running
      BY <1>1 DEF Registers, Running, InMemory
    <2>2. Arch!ZeroMemory = ZeroMemory
      BY DEF Arch!ZeroMemory, ZeroMemory, Arch!Addresses, Addresses
    <2> QED BY <1>1, <2>1, <2>2 DEF Init, HistoryInit, Arch!Init
  <1> QED BY <1>7, <1>8

(* Every step of the pipeline keeps the invariant, and is an instruction   *)
(* of Architecture, a departure from it, or invisible to it.               *)
LEMMA RefinementStep ==
  ASSUME AllInv, PC # 0, [HistoryNext]_<<vars, archHistory>>
  PROVE  AllInv' /\ [Arch!Next]_(Arch!archVars)
  <1>a. /\ MachineInv /\ BubbleInv /\ OrderInv /\ OperandInv /\ FlagInv
        /\ DecodedInv /\ RunInv
        /\ departures = {} => IntsInv /\ StandInv
    BY DEF AllInv, RefinementInv
  <1>n. [Next]_vars /\ [Next /\ Record({})]_<<vars, archHistory>>
    BY DEF HistoryNext
  <1>c. CommonInv /\ StateInv /\ HeldInv /\ ControlTypeOK
    BY <1>a, MachineIsCommon DEF CommonInv, StateInv, ControlInv
  <1>1. /\ MachineInv' /\ BubbleInv' /\ OrderInv' /\ OperandInv' /\ FlagInv'
        /\ DecodedInv' /\ RunInv'
    BY <1>a, <1>c, <1>n, MachineStep, BubbleStep, OrderStep, OperandStep, FlagStep,
       DecodedStep, RunStep
  <1>2. CASE HistoryNext
    <2>n. Next /\ Record({})
      BY <1>2 DEF HistoryNext
    <2>1. CASE departures' # {}
      <3>1. RefinementInv'
        BY <1>1, <2>1 DEF RefinementInv
      <3>2. Arch!Next
        BY <2>1 DEF Arch!Next, Arch!Depart
      <3> QED BY <1>1, <3>1, <3>2 DEF AllInv
    <2>2. CASE departures' = {}
      <3>1. departures = {} /\ IntsInv /\ StandInv
        BY <1>a, <2>2, <2>n, NothingDeparts
      <3>2. IntsInv'
        BY <1>a, <1>c, <2>2, <2>n, <3>1, IntsStep
      <3>3. CASE Executes
        <4>1. StandInv' /\ UNCHANGED <<program, mem, Registers, flags, pc, Running>>
          BY <1>a, <1>c, <2>2, <2>n, <3>1, <3>3, ExecutesActs, ExecuteStands
        <4> QED BY <1>1, <2>2, <3>1, <3>2, <4>1 DEF AllInv, RefinementInv, Arch!archVars
      <3>4. CASE Commits
        <4>h. HandsOn
          BY <1>c, <2>n, <3>4, CommitsHandOn
        <4>r. Running
          BY <1>a, <3>4 DEF RunInv, InExecute, Commits, Passes
        <4>1. StandInv'
          BY <1>c, <2>2, <2>n, <3>1, <3>4, <4>h, <4>r, CommitStands
        <4>2. \/ Arch!Step
              \/ UNCHANGED <<program, mem, Registers, flags, pc, Running>>
          BY <1>c, <2>2, <2>n, <3>1, <3>4, <4>h, <4>r, CommitIsStep
        <4> QED BY <1>1, <2>2, <3>1, <3>2, <4>1, <4>2
                DEF AllInv, RefinementInv, Arch!archVars, Arch!Next
      <3>5. CASE ~Executes /\ ~Commits
        <4>1. Quiet
          BY <1>a, <1>c, <2>2, <2>n, <3>1, <3>5, OthersAreQuiet DEF RunInv, IntsInv
        <4>2. StandInv'
          BY <3>1, <4>1, QuietStands
        <4>3. UNCHANGED <<program, mem, Registers, flags, pc, Running>>
          BY <4>1 DEF Quiet
        <4> QED BY <1>1, <2>2, <3>1, <3>2, <4>2, <4>3
                DEF AllInv, RefinementInv, Arch!archVars
      <3> QED BY <3>3, <3>4, <3>5
    <2> QED BY <2>1, <2>2
  <1>3. CASE UNCHANGED <<vars, archHistory>>
    <2>1. /\ UNCHANGED <<program, mem, REGS, RUN_BIT, executeStruct, memoryStruct,
                         decodeStruct, forward, forwarded, StallFlag, HaltFlag,
                         fresh_data_stall, stage>>
          /\ UNCHANGED archHistory
      BY <1>3 DEF vars, statVars, latches, forwardVars, stallVars, controlVars
    <2>2. UNCHANGED <<pc, flags, current, successor, suspect, departures>>
      BY <2>1 DEF archHistory
    <2>3. /\ (InMemory' <=> InMemory) /\ (InExecute' <=> InExecute)
      BY <2>1 DEF InMemory, InExecute
    <2>4. UNCHANGED <<Registers, Running>>
      BY <2>1, <2>3 DEF Registers, Running, NextRegister
    <2>5. Quiet
      BY <2>1, <2>2, <2>3, <2>4 DEF Quiet
    <2>6. departures = {} => (IntsInv /\ StandInv)'
      BY <1>a, <2>1, <2>2, <2>5, QuietStands DEF IntsInv, Proper
    <2> QED BY <1>1, <2>1, <2>2, <2>4, <2>6 DEF AllInv, RefinementInv, Arch!archVars
  <1> QED BY <1>2, <1>3

(* pipe.c implements its instruction set: until one of the departures is   *)
(* reached, every instruction that leaves memory is the next one of the    *)
(* program, has the effect of its name on registers, memory and flags, and *)
(* nothing else changes them.  For every program that does not run to      *)
(* address 0.                                                              *)
THEOREM PipelineImplementsArchitecture ==
  HistorySpec /\ [](PC # 0) => ImplementsArchitecture
  <1>1. Init /\ HistoryInit => AllInv /\ Arch!Init
    BY RefinementInit
  <1>2. AllInv /\ PC # 0 /\ [HistoryNext]_<<vars, archHistory>>
           => AllInv' /\ [Arch!Next]_(Arch!archVars)
    BY RefinementStep
  <1> QED BY <1>1, <1>2, PTL DEF HistorySpec, ImplementsArchitecture, Arch!Spec
=============================================================================
