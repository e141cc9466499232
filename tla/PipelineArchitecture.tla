------------------------ MODULE PipelineArchitecture ------------------------
(***************************************************************************)
(* The pipeline as an implementation of the instruction set: whatever it   *)
(* overlaps, predicts, forwards, stalls and caches, the instructions leave *)
(* the memory stage in program order and with the effects of Architecture. *)
(*                                                                         *)
(* It does so until one of the named departures: places where pipe.c does  *)
(* something else than the instruction set says.  The departures are       *)
(* recognised by their cause in the code, never by their effect, so that   *)
(* the refinement shows the list to be complete for the programs run.      *)
(*                                                                         *)
(* The variables are history: they restrict no behaviour.                  *)
(***************************************************************************)
EXTENDS PipelineControl

VARIABLES
    pc, flags,          \* of Architecture, after the instructions that left memory
    current,            \* the address of the instruction execute sent on last
    successor,          \* and where that instruction leads
    decoded,            \* decode has taken what is in fetchStruct
    repeated,           \* decodeStruct holds what decode had taken before
    skipped,            \* addresses update_PC stepped over since the last flush
    suspect,            \* fields whose forwarded value is not the last result
    overwritten,        \* set_flags has undone the flags of a younger compare
    departures          \* the departures so far

archHistory == <<pc, flags, current, successor, decoded, repeated, skipped, suspect,
                overwritten, departures>>

-----------------------------------------------------------------------------
(* What a step of the pipeline does, in the terms of Architecture.         *)

\* The memory stage lets its instruction pass: an access that misses stays.
Passes == stage = "mem" /\ stage' = "execute"

\* It passes for the first time: a load-use stall brings the load back.
Commits == Passes /\ StallFlag = 0 /\ executeStruct.op # "NoOp"

Decodes == stage = "decode" /\ StallFlag = 0

\* Something new is put into fetchStruct.
Fetches == stage = "fetch" /\ ~FetchHeld
           /\ instruction_stall < 1 /\ instruction_stall' < 1

Follows(d) == IF d.op \in Branches THEN CorrectAddress(d) ELSE ToLong(d.PC + 4)

Flags(result) == [N |-> NFlag(result), Z |-> ZFlag(result)]

FlagsLeft(e) ==
    IF e.op \in Compares THEN Flags(e.cmpResult)
    ELSE IF e.op \in SetsFlags THEN Flags(ToInt(e.RdVal))
    ELSE flags

\* What memory copied and write-back has not written yet counts as written,
\* and a HLT there as executed.
Running == RUN_BIT = 1 /\ ~(InMemory /\ memoryStruct.op = "HLT")

Registers == IF InMemory /\ RUN_BIT = 1 THEN NextRegister(memoryStruct) ELSE REGS

\* The fields execute reads that name a register.
NamedFields == {f \in ReadFields(decodeStruct.op) : decodeStruct[f] \in Regs}

-----------------------------------------------------------------------------
(* The departures, each at the step at which it becomes certain.           *)

\* update_PC stepped over the instruction that should come now.
LosesInstruction ==
    Executes /\ ~repeated /\ successor \in skipped /\ decodeStruct.PC # successor

\* An instruction executes again because fetch waits for the next one, and
\* it computes with its own result.
RepeatsInstruction ==
    Executes /\ repeated /\ Sources(decodeStruct) \cap Destinations(decodeStruct) # {}

\* The word has no operation: the one before it goes with its fields.
ExecutesUnknownWord ==
    /\ stage = "execute" /\ StallFlag = 0
    /\ ~Bubble(decodeStruct) /\ InstructionAt(decodeStruct.PC).op \in Keepers

\* correct_addr of a branch that is not taken.
SkipsAfterUntaken ==
    /\ Executes /\ decodeStruct.op \in Branches \ {"BGT"}
    /\ ~BranchTaken(decodeStruct.op)

\* The forwarded operand of SUBI, SUBSI and CMPI is the result.
ForgetsToSubtract ==
    /\ Executes /\ decodeStruct.op \in {"SUBI", "SUBSI", "CMPI"}
    /\ "Rn" \in forward /\ decodeStruct.imm # 0

\* A result 0 of the instruction before this one is not forwarded.
MissesZero ==
    Executes /\ \E f \in ReadFields(decodeStruct.op) :
        /\ InMemory /\ memoryStruct.op \in WritesRd
        /\ memoryStruct.Rd = decodeStruct[f] /\ memoryStruct.RdVal = 0
        /\ Operand(f) # 0

\* What was forwarded is the RdVal of an instruction that writes no Rd, or
\* older than the load this instruction has waited for.
ReadsStaleValue ==
    Executes /\ \E f \in NamedFields \cap suspect :
        forwarded[f] # Registers[decodeStruct[f]]

\* The result does not fit into an int.
CutsResult ==
    /\ Executes /\ decodeStruct.op \in WritesRd \cup Compares
    /\ Result(decodeStruct) # ToInt(Result(decodeStruct))

\* The offset is added as a uint32_t: to a 64-bit address for a store, and
\* the sum is cut to 32 bits for a load.
CutsAddress ==
    /\ Executes
    /\ LET address == ToLong(Operand("Rn") + decodeStruct.imm)
       IN  \/ decodeStruct.op \in Stores
                 /\ ToLong(EffectiveAddress(decodeStruct)) # address
           \/ decodeStruct.op \in Loads
                 /\ ToWord(EffectiveAddress(decodeStruct)) # address
           \/ decodeStruct.op = "LDUR"
                 /\ ToWord(address + 4) # ToLong(address + 4)

\* STURH stores a byte, and both narrow stores a word around it.
CutsHalfword ==
    /\ Executes /\ decodeStruct.op = "STURH"
    /\ LowHalfword(Operand("Rt")) # LowByte(Operand("Rt"))

StoresWholeWord ==
    /\ Commits
    /\ LET a == executeStruct.storeAddress
           n == CASE executeStruct.op = "STURB" -> 1 [] executeStruct.op = "STURH" -> 2
                  [] OTHER -> 4
       IN  executeStruct.op \in Stores /\ InRegion(a)
               /\ \E i \in n .. 3 : mem[a + i] # 0

\* The flags of SUBSI are never set; those of an instruction with a result
\* only at write-back, too late for the branch behind it, and then over
\* those of a younger compare.
SetsNoFlags ==
    Commits /\ executeStruct.op = "SUBSI" /\ flags # Flags(executeStruct.RdVal)

FlagsInPlace == temp_FLAG_N = flags.N /\ temp_FLAG_Z = flags.Z

BranchesOnOldFlags ==
    /\ Executes /\ decodeStruct.op \in FlagBranches /\ ~FlagsInPlace
    /\ InMemory /\ memoryStruct.op \in SetsFlags \ {"CMP"}

BranchesOnUndoneFlags ==
    Executes /\ decodeStruct.op \in FlagBranches /\ ~FlagsInPlace /\ overwritten

\* forward_regs_flags puts a store of the program right that was lost.
CorrectsMemory == stage = "begin" /\ mem' # mem

Departures == [
    lost        |-> LosesInstruction,   again     |-> RepeatsInstruction,
    unknown     |-> ExecutesUnknownWord, untaken  |-> SkipsAfterUntaken,
    immediate   |-> ForgetsToSubtract,  zero      |-> MissesZero,
    stale       |-> ReadsStaleValue,    result    |-> CutsResult,
    address     |-> CutsAddress,        halfword  |-> CutsHalfword,
    narrow      |-> StoresWholeWord,    no_flags  |-> SetsNoFlags,
    late_flags  |-> BranchesOnOldFlags, undone_flags |-> BranchesOnUndoneFlags,
    by_hand     |-> CorrectsMemory]

-----------------------------------------------------------------------------
\* Of the fields a result is forwarded to, those that get what they should
\* not: the instruction writes no register.
Suspects(enabled, r, op) ==
    IF ~enabled THEN suspect
    ELSE IF op \in WritesRd THEN suspect \ Matching(r)
    ELSE suspect \cup Matching(r)

HistoryInit ==
    /\ pc = TextStart /\ flags = [N |-> 0, Z |-> 0]
    /\ current = 0 /\ successor = TextStart
    /\ decoded = FALSE /\ repeated = FALSE
    /\ skipped = {} /\ suspect = {} /\ overwritten = FALSE
    /\ departures = {}

RecordInstruction ==
    /\ current' = IF Executes THEN decodeStruct.PC ELSE current
    /\ successor' = IF Executes THEN Follows(decodeStruct) ELSE successor
    /\ pc' = IF Commits /\ Running /\ current = pc THEN successor ELSE pc
    /\ flags' = IF Commits /\ Running THEN FlagsLeft(executeStruct) ELSE flags

RecordFrontEnd ==
    /\ decoded' = IF Fetches THEN FALSE ELSE Decodes \/ decoded
    /\ repeated' = IF Decodes THEN decoded ELSE repeated
    /\ skipped' = IF stage = "execute" /\ flushed' = 1 THEN {}
                  ELSE IF stage = "mem" /\ PC' # PC THEN skipped \cup {PC}
                  ELSE skipped

RecordForwarding ==
    /\ suspect' =
          CASE stage = "execute" /\ StallFlag = 0 -> forward'
            [] stage = "wb" /\ fresh_data_stall = 0 ->
                   Suspects(memoryStruct.RdVal # 0, memoryStruct.Rd, memoryStruct.op)
            [] Passes ->
                   Suspects(memoryStruct'.RdVal # 0, executeStruct.Rd, executeStruct.op)
                       \cup (IF StallFlag' = 1 THEN forward \cap Matching(executeStruct.Rt)
                                               ELSE {})
            [] OTHER -> suspect
    /\ overwritten' =
          IF stage = "wb" /\ fresh_data_stall = 0 /\ memoryStruct.op \in SetsFlags
          THEN executeStruct.op \in Compares
          ELSE overwritten /\ ~(Executes /\ decodeStruct.op \in Compares)

\* What is found of a step beyond these departures is added to them.
Record(found) ==
    /\ RecordInstruction
    /\ RecordFrontEnd
    /\ RecordForwarding
    /\ departures' = departures \cup {d \in DOMAIN Departures : Departures[d]} \cup found

HistoryNext == Next /\ Record({})

HistorySpec ==
    Init /\ HistoryInit /\ [][HistoryNext]_<<vars, archHistory>>

-----------------------------------------------------------------------------
(* What execute takes is the instruction that the last one led to, or that *)
(* one again while fetch waits, whatever was predicted, flushed, stalled   *)
(* or fetched in the meantime.  The exceptions are the departures `lost'   *)
(* and `unknown'.                                                          *)
InProgramOrder ==
    Executes /\ ~LosesInstruction /\ "unknown" \notin departures =>
        decodeStruct.PC = IF repeated THEN current ELSE successor

(* The value execute computes with is the register's: what the instruction *)
(* before it has written or is about to write, however it comes to         *)
(* execute.  A forwarded value is the one that write-back cuts to an int.  *)
(* The exceptions are the departures `zero' and `stale'.                   *)
OperandsAreCurrent ==
    Executes /\ ~MissesZero /\ ~ReadsStaleValue =>
        \A f \in NamedFields :
            Registers[decodeStruct[f]] \in
                {Operand(f)} \cup (IF f \in forward THEN {ToInt(Operand(f))} ELSE {})

(* A branch looks at the flags of the last instruction before it that sets *)
(* some, although compares set them in execute and the others at           *)
(* write-back.  The exceptions are the departures `late_flags' and         *)
(* `undone_flags'.                                                         *)
BranchesSeeTheFlags ==
    Executes /\ decodeStruct.op \in FlagBranches
        /\ ~BranchesOnOldFlags /\ ~BranchesOnUndoneFlags => FlagsInPlace

Arch == INSTANCE Architecture WITH regs <- Registers, running <- Running,
                                   predictable <- departures = {}

(* The pipeline implements the instruction set until it departs from it:   *)
(* every instruction that leaves the memory stage is the next one of the   *)
(* program and has its effect on registers, flags and memory, and nothing  *)
(* else changes them.                                                      *)
ImplementsArchitecture == Arch!Spec
=============================================================================
