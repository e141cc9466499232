----------------------------- MODULE ShellProofs -----------------------------
(***************************************************************************)
(* Proofs about the commands of the shell, for every program and any       *)
(* sequence of commands.                                                   *)
(*                                                                         *)
(* What the loops of run and go count on is when a cycle ends.  CycleStep  *)
(* says that once for all the stages: the count of cycles moves when the   *)
(* machine comes back to `begin', and only then.  GoalInv relates the      *)
(* count to the argument of run while the loop is on its way.              *)
(*                                                                         *)
(* Between two cycles input writes a register.  MachineInv, all that is    *)
(* proved of the pipeline, survives that, and EntryInv says what may still *)
(* be on its way to the register written.                                  *)
(*                                                                         *)
(* The program comes from files loaded one over the other, which FromLast  *)
(* follows file by file.                                                   *)
(***************************************************************************)
EXTENDS Shell, PipelineProofs

\* The cycles of a run that are not begun yet.
Due == IF remaining > 0 THEN remaining ELSE 0

\* A cycle that is on its way counts when it ends.
Begun == IF stage = "begin" THEN 0 ELSE 1

GoalInv ==
    /\ ShellTypeOK
    /\ stat_cycles \in Nat /\ RUN_BIT \in {0, 1}
    /\ stat_cycles + Begun <= MaxCycles
    /\ command = "run" => goal = stat_cycles + Begun + Due
    /\ command = "go"  => goal = Never
    /\ RunCountsCycles

-----------------------------------------------------------------------------
(* What the stages of a cycle do to the state the loops look at.           *)
LEMMA CycleStep ==
  ASSUME CycleGoesOn
  PROVE  /\ stage # "begin"
         /\ RUN_BIT' \in {0, RUN_BIT}
         /\ \/ stage' # "begin" /\ stat_cycles' = stat_cycles
            \/ stage' = "begin" /\ stat_cycles' = stat_cycles + 1
  <1>1. CASE StallCycle \/ MissCycle
    BY <1>1 DEF StallCycle, MissCycle, EndCycle
  <1>2. CASE pipe_stage_wb \/ SkipWriteBack
    BY <1>2 DEF pipe_stage_wb, SkipWriteBack, statVars
  <1>3. CASE MemoryStage
    BY <1>3 DEF MemoryStage, MemLoad, MemStore, MemStoreNarrow, MemPass, MemMiss, statVars
  <1>4. CASE ExecuteStage
    BY <1>4 DEF ExecuteStage, ExecuteStalled, ExecuteNoOp, ExecuteAlu, ExecuteCompare,
                ExecuteLoad, ExecuteStore, ExecuteBranch, ExecuteHalt, Executing, statVars
  <1>5. CASE pipe_stage_decode
    BY <1>5 DEF pipe_stage_decode, statVars
  <1>6. CASE FetchStage
    BY <1>6 DEF FetchStage, FetchStallCycle, FetchNothing, FetchHit, FetchMiss, Fetching,
                FetchTurn, EndCycle
  <1> QED BY <1>1, <1>2, <1>3, <1>4, <1>5, <1>6 DEF CycleGoesOn

(* The simulator starts with nothing counted.                              *)
LEMMA GoalInit == ShellInit => GoalInv
  <1> SUFFICES ASSUME ShellInit PROVE GoalInv
    OBVIOUS
  <1>1. /\ stage = "begin" /\ stat_cycles = 0 /\ RUN_BIT = 1
        /\ command \in {"prompt", "exit"}
        /\ remaining = 0 /\ inputs = 0 /\ goal = 0 /\ entered = {}
    BY DEF ShellInit, Init
  <1> QED BY <1>1, PipelineAssumption, ShellAssumption
          DEF GoalInv, ShellTypeOK, Commands, RunCountsCycles, Begun, Due

(* Every command and every step of a cycle keeps the count.                *)
LEMMA GoalStep ==
  ASSUME GoalInv, [ShellNext]_<<vars, shellVars>>
  PROVE  GoalInv'
  <1>a. /\ MaxCycles \in Nat /\ MaxInputs \in Nat /\ RunLengths \subseteq Int
    BY PipelineAssumption, ShellAssumption
  <1> USE DEF GoalInv, ShellTypeOK, Commands, RunCountsCycles, Due, Begun, Never
  <1>1. CASE UNCHANGED <<vars, shellVars>>
    BY <1>a, <1>1 DEF vars, shellVars, statVars
  <1>2. ASSUME NEW n \in RunLengths, Run(n)
        PROVE  GoalInv'
    BY <1>a, <1>2 DEF Run, vars, statVars
  <1>3. CASE Go
    BY <1>a, <1>3 DEF Go, vars, statVars
  <1>4. ASSUME NEW i \in Inputs, Input(i[1], i[2])
        PROVE  GoalInv'
    <2>1. /\ UNCHANGED <<stage, stat_cycles, RUN_BIT, command, remaining, goal>>
          /\ inputs < MaxInputs /\ inputs' = inputs + 1
          /\ entered' \subseteq entered \cup Regs
      BY <1>4 DEF Input, statVars
    <2> QED BY <1>a, <2>1
  <1>5. CASE Quit
    BY <1>a, <1>5 DEF Quit, vars, statVars
  <1>6. CASE CycleBegins
    <2>1. /\ stage = "begin" /\ stage' # "begin" /\ command \in {"run", "go"}
          /\ stat_cycles < MaxCycles
          /\ command = "run" => remaining > 0
          /\ UNCHANGED <<RUN_BIT, stat_cycles, command, inputs, goal, entered>>
      BY <1>6 DEF CycleBegins, MayCycle, BeginCycle
    <2>2. remaining' = IF command = "run" THEN remaining - 1 ELSE remaining
      BY <1>6 DEF CycleBegins
    <2> QED BY <1>a, <2>1, <2>2
  <1>7. CASE CycleGoesOn
    <2>1. /\ UNCHANGED <<files, command, remaining, inputs, goal>>
          /\ entered' \subseteq entered
      BY <1>7 DEF CycleGoesOn
    <2>2. /\ stage # "begin"
          /\ RUN_BIT' \in {0, RUN_BIT}
          /\ \/ stage' # "begin" /\ stat_cycles' = stat_cycles
             \/ stage' = "begin" /\ stat_cycles' = stat_cycles + 1
      BY <1>7, CycleStep
    <2>3. command \in {"run", "go"}
      BY <2>2
    <2> QED BY <1>a, <2>1, <2>2, <2>3
  <1>8. CASE Return
    BY <1>a, <1>8 DEF Return, MayCycle, vars, statVars
  <1> QED BY <1>1, <1>2, <1>3, <1>4, <1>5, <1>6, <1>7, <1>8 DEF ShellNext, Simulate

(* The count is right in every reachable state.                            *)
LEMMA GoalInvariant == ShellSpec => []GoalInv
  BY GoalInit, GoalStep, PTL DEF ShellSpec

(* get_command reads the next command between two cycles only, whatever    *)
(* the command before it was.                                              *)
THEOREM ShellTypesHold == ShellSpec => []ShellTypeOK
  <1>1. GoalInv => ShellTypeOK
    BY DEF GoalInv
  <1> QED BY <1>1, GoalInvariant, PTL

(* run n simulates n cycles or up to the halt, and go ends by the halt     *)
(* alone, for any n and any program.                                       *)
THEOREM RunsAreCounted == ShellSpec => []RunCountsCycles
  <1>1. GoalInv => RunCountsCycles
    BY DEF GoalInv
  <1> QED BY <1>1, GoalInvariant, PTL

-----------------------------------------------------------------------------
(* What initialize leaves in the text region.                              *)

\* t[m] is the text when m files have been loaded.
IsLoading(t, list, n) ==
    t = [m \in 0 .. n |-> IF m = 0 THEN <<>> ELSE load_program(t[m - 1], list[m].words)]

(* Every number of files can be loaded.                                    *)
LEMMA LoadingsExist ==
  ASSUME NEW list, NEW n \in Nat
  PROVE  \E t : IsLoading(t, list, n)
  <1> DEFINE bad == {k \in Nat : \A t : ~IsLoading(t, list, k)}
  <1>1. SUFFICES ASSUME bad # {} PROVE FALSE
    OBVIOUS
  <1>2. PICK m \in bad : \A x \in bad : m <= x
    BY <1>1, LeastNatural
  <1>3. m # 0
    <2>1. IsLoading([i \in 0 .. 0 |-> <<>>], list, 0)
      BY DEF IsLoading
    <2> QED BY <1>2, <2>1
  <1>4. m \in Nat /\ m - 1 \in Nat /\ m - 1 \notin bad
    BY <1>2, <1>3
  <1>5. PICK s : IsLoading(s, list, m - 1)
    BY <1>4
  <1> DEFINE Next1(text) == load_program(text, list[m].words)
             t == [i \in 0 .. m |-> IF i = m THEN Next1(s[m - 1]) ELSE s[i]]
  <1>6. ASSUME NEW i \in 0 .. m
        PROVE  t[i] = IF i = 0 THEN <<>> ELSE load_program(t[i - 1], list[i].words)
    <2>1. \A j \in 0 .. m - 1 :
             s[j] = IF j = 0 THEN <<>> ELSE load_program(s[j - 1], list[j].words)
      BY <1>5 DEF IsLoading
    <2>2. CASE i = m
      <3>1. t[i] = Next1(s[m - 1]) /\ t[i - 1] = s[m - 1]
        BY <1>4, <2>2
      <3> QED BY <1>3, <2>2, <3>1
    <2>3. CASE i # m
      <3>1. i \in 0 .. m - 1
        BY <1>4, <2>3
      <3>2. t[i] = s[i] /\ (i # 0 => t[i - 1] = s[i - 1])
        BY <1>4, <2>3, <3>1
      <3> QED BY <2>1, <3>1, <3>2
    <2> QED BY <2>2, <2>3
  <1>7. IsLoading(t, list, m)
    <2>1. t = [i \in 0 .. m |-> t[i]]
      OBVIOUS
    <2> HIDE DEF t
    <2> QED BY <1>6, <2>1 DEF IsLoading
  <1> QED BY <1>2, <1>7

\* Word i of the text is that of the last of the first n files that has one.
FromLast(text, list, n) ==
    \A i \in 1 .. Len(text) :
        \E k \in 1 .. n :
            /\ i <= Len(list[k].words) /\ text[i] = list[k].words[i]
            /\ \A l \in k + 1 .. n : Len(list[l].words) < i

(* load_program: a file covers what the files before it left, up to its    *)
(* own length.                                                             *)
LEMMA OneMoreFile ==
  ASSUME NEW list, NEW n \in Nat \ {0}, NEW text,
         IsSequence(text), IsSequence(list[n].words), FromLast(text, list, n - 1)
  PROVE  LET new == load_program(text, list[n].words)
         IN  IsSequence(new) /\ FromLast(new, list, n)
  <1> DEFINE words == list[n].words
             m == IF Len(words) > Len(text) THEN Len(words) ELSE Len(text)
             new == load_program(text, words)
  <1>1. m \in Nat /\ m >= Len(words) /\ m >= Len(text)
    BY DEF IsSequence
  <1>2. new = [i \in 1 .. m |-> IF i <= Len(words) THEN words[i] ELSE text[i]]
    BY DEF load_program
  <1>l. m = Len(words) \/ m = Len(text)
    OBVIOUS
  <1> HIDE DEF m, new
  <1>3. Len(new) = m /\ IsSequence(new)
    BY <1>1, <1>2 DEF IsSequence
  <1>4. ASSUME NEW i \in 1 .. Len(new)
        PROVE  \E k \in 1 .. n :
                  /\ i <= Len(list[k].words) /\ new[i] = list[k].words[i]
                  /\ \A l \in k + 1 .. n : Len(list[l].words) < i
    <2>1. CASE i <= Len(words)
      <3>1. new[i] = list[n].words[i]
        BY <1>2, <1>3, <2>1
      <3>2. n \in 1 .. n /\ n + 1 .. n = {}
        OBVIOUS
      <3> QED BY <2>1, <3>1, <3>2
    <2>2. CASE i > Len(words)
      <3>1. i \in 1 .. Len(text) /\ new[i] = text[i]
        BY <1>1, <1>2, <1>3, <1>l, <2>2 DEF IsSequence
      <3>2. PICK k \in 1 .. n - 1 :
                  /\ i <= Len(list[k].words) /\ text[i] = list[k].words[i]
                  /\ \A l \in k + 1 .. n - 1 : Len(list[l].words) < i
        BY <3>1 DEF FromLast
      <3>3. k \in 1 .. n /\ \A l \in k + 1 .. n : l = n \/ l \in k + 1 .. n - 1
        OBVIOUS
      <3> QED BY <2>2, <3>1, <3>2, <3>3
    <2> QED BY <1>1, <1>3, <2>1, <2>2 DEF IsSequence
  <1> QED BY <1>3, <1>4 DEF FromLast, new

(* initialize: what all the files together leave.                          *)
LEMMA LoadedFiles ==
  ASSUME NEW list \in FileLists
  PROVE  FromLast(Loaded(list), list, Len(list))
  <1>1. /\ Len(list) \in Nat
        /\ \A n \in 1 .. Len(list) : IsSequence(list[n].words)
    BY ShellAssumption DEF IsSequence
  <1> DEFINE t == CHOOSE u : IsLoading(u, list, Len(list))
  <1>2. IsLoading(t, list, Len(list))
    BY <1>1, LoadingsExist
  <1>3. Loaded(list) = t[Len(list)]
    BY DEF Loaded, IsLoading
  <1> HIDE DEF t
  <1>4. t[0] = <<>> /\ \A n \in 1 .. Len(list) : t[n] = load_program(t[n - 1], list[n].words)
    BY <1>1, <1>2 DEF IsLoading
  <1> DEFINE good(n) == IsSequence(t[n]) /\ FromLast(t[n], list, n)
             bad == {n \in 0 .. Len(list) : ~good(n)}
  <1>5. SUFFICES ASSUME bad # {} PROVE FALSE
    BY <1>1, <1>3
  <1>b. bad \subseteq Nat
    BY <1>1
  <1>c. \A n \in 0 .. Len(list) : n \notin bad => good(n)
    OBVIOUS
  <1>d. \A n \in bad : n \in 0 .. Len(list) /\ ~good(n)
    OBVIOUS
  <1> HIDE DEF bad
  <1>6. PICK m \in bad : \A x \in bad : m <= x
    BY <1>5, <1>b, LeastNatural
  <1>7. m # 0
    <2>1. IsSequence(t[0]) /\ Len(t[0]) = 0
      BY <1>4 DEF IsSequence
    <2>2. FromLast(t[0], list, 0)
      BY <2>1 DEF FromLast
    <2> QED BY <1>d, <2>1, <2>2
  <1>8. m \in 1 .. Len(list) /\ m - 1 \in 0 .. Len(list) /\ good(m - 1)
    <2>1. m \in 1 .. Len(list) /\ m - 1 \in 0 .. Len(list)
      BY <1>1, <1>7, <1>d
    <2>2. m - 1 \notin bad
      BY <1>6, <1>b
    <2> QED BY <1>c, <2>1, <2>2
  <1>9. good(m)
    BY <1>1, <1>4, <1>8, OneMoreFile
  <1> QED BY <1>6, <1>9, <1>d

(* load_program and initialize: the text region holds, word by word, the   *)
(* last file that is long enough, in every run.                            *)
THEOREM TheLastFilePrevails == ShellSpec => []LastFilePrevails
  <1> DEFINE Inv == files \in FileLists /\ program = Loaded(files)
  <1>1. ShellInit => Inv
    BY DEF ShellInit
  <1>2. Inv /\ [ShellNext]_<<vars, shellVars>> => Inv'
    <2>1. [ShellNext]_<<vars, shellVars>> => UNCHANGED <<files, program>>
      BY DEF ShellNext, Simulate, Run, Input, Go, Quit, Return, CycleBegins, CycleGoesOn, vars,
             shellVars, BeginCycle, StallCycle, pipe_stage_wb, SkipWriteBack, MemoryStage, MemLoad,
             MemStore, MemStoreNarrow, MemPass, MemMiss, MissCycle, ExecuteStage,
             ExecuteStalled, ExecuteNoOp, ExecuteAlu, ExecuteCompare, ExecuteLoad,
             ExecuteStore, ExecuteBranch, ExecuteHalt, Executing, pipe_stage_decode,
             FetchStage, FetchStallCycle, FetchNothing, FetchHit, FetchMiss, Fetching, FetchTurn
    <2>2. UNCHANGED <<files, program>> => Loaded(files)' = Loaded(files)
      BY DEF Loaded
    <2> QED BY <2>1, <2>2
  <1>3. Inv => LastFilePrevails
    <2> SUFFICES ASSUME Inv PROVE LastFilePrevails
      OBVIOUS
    <2>1. FromLast(program, files, Len(files)) /\ DOMAIN files = 1 .. Len(files)
      BY LoadedFiles, ShellAssumption DEF IsSequence
    <2> QED BY <2>1 DEF FromLast, LastFilePrevails
  <1> QED BY <1>1, <1>2, <1>3, PTL DEF ShellSpec

-----------------------------------------------------------------------------
(* The machine under the commands.                                         *)

(* A step of the shell is a step of the pipeline, or none, or an input.    *)
LEMMA ShellMoves ==
  ASSUME [ShellNext]_<<vars, shellVars>>
  PROVE  [Next]_vars \/ \E i \in Inputs : Input(i[1], i[2])
  BY DEF ShellNext, Simulate, Run, Go, Quit, Return, CycleBegins, CycleGoesOn, Next, shellVars

(* input: a register changes between two cycles, or the flags, or PC, and  *)
(* nothing else does.                                                      *)
LEMMA InputKeepsTheMachine ==
  ASSUME MachineInv, NEW i \in Inputs, Input(i[1], i[2])
  PROVE  MachineInv'
  <1>1. UNCHANGED <<program, mem, temp_FLAG_N, temp_FLAG_Z, statVars, latches,
                    forwardVars, predictVars, caches, stallVars, controlVars, stage>>
    BY DEF Input
  <1>2. REGS' \in [Regs -> Long] /\ PC' \in Long /\ {FLAG_N', FLAG_Z'} \subseteq Word
    <2>1. REGS \in [Regs -> Long] /\ PC \in Long /\ {FLAG_N, FLAG_Z} \subseteq Word
      BY DEF MachineInv, StateInv, DataInv, DataTypeOK
    <2>2. i[2] \in Long
      BY ShellAssumption
    <2>3. ToWord(i[2]) \in Word /\ HighWord(i[2]) \in Word
      BY <2>2, PartsOfLongs
    <2>4. /\ REGS' = IF i[1] \in Regs THEN [REGS EXCEPT ![i[1]] = i[2]] ELSE REGS
          /\ PC' \in {PC, i[2]}
          /\ FLAG_N' \in {FLAG_N, ToWord(i[2])} /\ FLAG_Z' \in {FLAG_Z, HighWord(i[2])}
      BY DEF Input
    <2>5. REGS' \in [Regs -> Long]
      BY <2>1, <2>2, <2>4
    <2> QED BY <2>1, <2>2, <2>3, <2>4, <2>5
  <1>3. \A x : InstructionAt(x)' = InstructionAt(x)
    BY <1>1 DEF InstructionAt
  <1> USE DEF MachineInv, StateInv
  <1>4. ControlInv' /\ RegisterInv' /\ HaltInv'
    BY <1>1, <1>3 DEF ControlInv, ControlTypeOK, WaitStages, MissIsReplayed, RegisterInv, Names,
                MayRead, HasUnlistedCondition,
                HaltInv, HaltDrains, StopsOnlyByHalt, statVars, latches, forwardVars, stallVars,
                controlVars
  <1>5. DataInv'
    BY <1>1, <1>2 DEF DataInv, DataTypeOK, MovesLong, latches, forwardVars, predictVars,
                      caches
  <1>6. FetchWaitOver' /\ StallInv'
    BY <1>1 DEF FetchWaitOver, StallInv, HeldInv, Matching, AccessAddress, stallVars, latches, controlVars,
                caches
  <1>7. TravelInv' /\ BranchInv'
    BY <1>1, <1>3 DEF TravelInv, BranchInv, BranchAt, OnlyBranchesPredictedTaken, Bubble, Foretells,
                      latches, predictVars
  <1> QED BY <1>4, <1>5, <1>6, <1>7

(* The invariants of the machine hold whatever the user commands.          *)
LEMMA MachineInvariant == ShellSpec => []MachineInv
  <1>1. ShellInit => MachineInv
    BY MachineInit DEF ShellInit
  <1>2. MachineInv /\ [ShellNext]_<<vars, shellVars>> => MachineInv'
    BY ShellMoves, MachineStep, InputKeepsTheMachine
  <1> QED BY <1>1, <1>2, PTL DEF ShellSpec

(* run, go and input: whatever commands the user gives, in any order and   *)
(* with any values, the pipeline keeps all it promises, also when input    *)
(* writes the flags or PC.                                                 *)
THEOREM CommandsKeepTheMachine ==
  ShellSpec => [](/\ TypeOK
                  /\ MissIsReplayed /\ RetryHits /\ StallIsForALoad
                  /\ HaltDrains /\ StopsOnlyByHalt
                  /\ OutOfBoundsOnlyByBCond
                  /\ PredictionTravelsAlong /\ OnlyBranchesPredictedTaken)
  <1> DEFINE Promises == /\ TypeOK
                         /\ MissIsReplayed /\ RetryHits /\ StallIsForALoad
                         /\ HaltDrains /\ StopsOnlyByHalt
                         /\ OutOfBoundsOnlyByBCond
                         /\ PredictionTravelsAlong /\ OnlyBranchesPredictedTaken
  <1>1. MachineInv => Promises
    BY MachinePromises
  <1> QED BY <1>1, MachineInvariant, PTL

-----------------------------------------------------------------------------
(* What input promises.                                                    *)

\* Words that decode to nothing name register 0 or 31, as those of padding
\* do.  Any other register they name is forwarded the stale result that
\* travels with the bubble.
KnownWords ==
    \A p \in Programs : \A i \in DOMAIN p : p[i].op = "NONE" => p[i].Rd \in {0, 31}

\* What is in Rd when nothing is written there.
Unnamed == {0, 31, BlankRd}

Quiet(s) == s.op \in WritesRd \/ s.Rd \in Unnamed

\* No result is on its way to a register that holds a value of input: what
\* is not an operation with a destination names none, and what has been
\* forwarded is used up before the next instruction is decoded.  After a HLT
\* nothing executes any more.
EntryInv ==
    /\ entered \subseteq Regs
    /\ fetchStruct.word.op = "NONE" => fetchStruct.word.Rd \in Unnamed
    /\ HaltFlag = 0 =>
           /\ decodeStruct.op = "HLT" \/ Quiet(decodeStruct)
           /\ Quiet(executeStruct) /\ Quiet(memoryStruct)
           /\ stage = "decode" /\ StallFlag = 0 => forward = {}
           /\ \A r \in entered \ Unnamed : ~Spoken(r)

(* No value has been entered when the simulator starts.                    *)
LEMMA EntryInit == ShellInit => EntryInv
  <1> SUFFICES ASSUME ShellInit PROVE EntryInv
    OBVIOUS
  <1>1. /\ entered = {} /\ stage = "begin" /\ fetchStruct = EmptyFetch
        /\ decodeStruct.Rd = 0 /\ executeStruct.Rd = 0 /\ memoryStruct.Rd = 0
    BY DEF ShellInit, Init
  <1> QED BY <1>1 DEF EntryInv, Quiet, Unnamed, EmptyFetch, ZeroWord

(* A step that moves no instruction puts none on its way.                  *)
LEMMA EntryKept ==
  ASSUME EntryInv,
         UNCHANGED <<decodeStruct, executeStruct, memoryStruct, forward, StallFlag,
                     HaltFlag, entered>>,
         fetchStruct'.word.op = "NONE" => fetchStruct'.word.Rd \in Unnamed,
         InExecute' => InExecute, InMemory' => InMemory,
         stage' = stage \/ stage' # "decode" \/ StallFlag = 1
  PROVE  EntryInv'
  <1>1. \A r : Spoken(r)' => Spoken(r)
    BY DEF Spoken, Destinations, Matching
  <1> QED BY <1>1 DEF EntryInv, Quiet, Unnamed

(* What InstructionAt returns, when the words are known.                   *)
LEMMA FetchedIsKnown ==
  ASSUME KnownWords, program \in Programs, NEW a
  PROVE  InstructionAt(a).op = "NONE" => InstructionAt(a).Rd \in Unnamed
  BY DEF KnownWords, InstructionAt, ZeroWord, Unnamed

(* Write-back forwards the result of the instruction it retires, which was *)
(* on its way until then.                                                  *)
LEMMA EntryWriteBack ==
  ASSUME MachineInv, EntryInv, pipe_stage_wb, UNCHANGED entered
  PROVE  EntryInv'
  <1>t. ControlTypeOK
    BY DEF MachineInv, StateInv, ControlInv
  <1>1. /\ stage = "wb" /\ stage' = "mem" /\ fresh_data_stall = 0
        /\ UNCHANGED <<fetchStruct, decodeStruct, memoryStruct, StallFlag, HaltFlag, entered>>
        /\ executeStruct'.op = executeStruct.op /\ executeStruct'.Rd = executeStruct.Rd
        /\ executeStruct'.Rt = executeStruct.Rt
        /\ forward' \subseteq forward \cup Matching(memoryStruct.Rd)
    BY <1>t, WriteBackMovesNothing DEF LatchesStay, pipe_stage_wb, Forward, controlVars
  <1>2. ASSUME HaltFlag = 0, NEW r \in entered \ Unnamed
        PROVE  ~Spoken(r)'
    <2>1. ~Spoken(r) /\ Quiet(memoryStruct)
      BY <1>2 DEF EntryInv
    <2>2. memoryStruct.Rd # r
      BY <1>1, <2>1, OperationClasses DEF Quiet, Spoken, InMemory, Destinations, Operations
    <2>3. Matching(r) \cap forward' = {}
      BY <1>1, <2>1, <2>2 DEF Spoken, Matching
    <2> QED BY <1>1, <2>1, <2>3 DEF Spoken, InExecute, InMemory, Destinations, Matching
  <1> QED BY <1>1, <1>2 DEF EntryInv, Quiet, Unnamed

(* A miss copies the access to memoryStruct, from where it is not written  *)
(* back.                                                                   *)
LEMMA EntryMiss ==
  ASSUME EntryInv, MemMiss, UNCHANGED entered
  PROVE  EntryInv'
  <1>1. /\ stage = "mem" /\ stage' = "miss" /\ fresh_data_stall' = 1
        /\ UNCHANGED <<fetchStruct, decodeStruct, executeStruct, forward, StallFlag,
                       HaltFlag, entered>>
        /\ memoryStruct' = Latched
    BY DEF MemMiss, update_PC, forwardVars, controlVars
  <1>2. Latched.op = executeStruct.op /\ Latched.Rd = executeStruct.Rd
    BY LatchedFields
  <1>3. \A r : Spoken(r)' => Spoken(r)
    BY <1>1 DEF Spoken, InExecute, InMemory, Destinations, Matching
  <1> QED BY <1>1, <1>2, <1>3 DEF EntryInv, Quiet, Unnamed

(* Memory hands on the instruction of execute and forwards its result; a   *)
(* load that passes a second time is not handed on again.                  *)
LEMMA EntryMemory ==
  ASSUME MachineInv, EntryInv, Passed, UNCHANGED entered
  PROVE  EntryInv'
  <1>t. ControlTypeOK /\ StallInv
    BY DEF MachineInv, StateInv, ControlInv
  <1>1. /\ stage = "mem" /\ stage' = "execute"
        /\ UNCHANGED <<fetchStruct, decodeStruct, executeStruct, HaltFlag, entered>>
        /\ forward' \subseteq forward \cup Matching(executeStruct.Rd)
    BY DEF Passed, MemoryKept
  <1>2. Forgotten \/ (Remembered /\ StallFlag = 0)
    BY <1>t DEF Passed, StallInv, HeldInv, ControlTypeOK, Flag
  <1>c. \A op \in Loads : op \notin WritesRd
    BY DEF Loads, WritesRd, AluRegister, AluImmediate
  <1>3. ASSUME HaltFlag = 0, NEW r \in entered \ Unnamed
        PROVE  ~Spoken(r)'
    <2>1. ~Spoken(r) /\ Quiet(executeStruct)
      BY <1>3 DEF EntryInv
    <2>2. executeStruct.Rd # r
      <3>1. CASE executeStruct.op \in WritesRd
        <4>1. StallFlag = 0
          BY <1>t, <1>c, <3>1 DEF StallInv, HeldInv, ControlTypeOK, Flag
        <4> QED BY <1>1, <2>1, <3>1, <4>1, OperationClasses
                DEF Spoken, InExecute, Destinations, Operations
      <3>2. CASE executeStruct.op \notin WritesRd
        BY <2>1, <3>2 DEF Quiet
      <3> QED BY <3>1, <3>2
    <2>3. Matching(r)' \cap forward' = {}
      BY <1>1, <2>1, <2>2 DEF Spoken, Matching
    <2>4. ~(InMemory' /\ r \in Destinations(memoryStruct'))
      <3>1. CASE Forgotten
        BY <3>1 DEF Forgotten, InMemory
      <3>2. CASE Remembered /\ StallFlag = 0
        BY <1>1, <2>1, <3>2 DEF Spoken, InExecute, InMemory, Destinations, Remembered
      <3> QED BY <1>2, <3>1, <3>2
    <2>5. ~InExecute'
      BY <1>1 DEF InExecute
    <2> QED BY <2>3, <2>4, <2>5 DEF Spoken
  <1>4. Quiet(executeStruct) => Quiet(memoryStruct)'
    BY <1>2 DEF Quiet, Remembered, Forgotten, Unnamed
  <1> QED BY <1>1, <1>3, <1>4 DEF EntryInv, Quiet, Unnamed

(* Execute takes a register it is about to write out of those entered, and *)
(* uses up what has been forwarded.                                        *)
LEMMA EntryExecute ==
  ASSUME MachineInv, EntryInv, Executed, Resets,
         entered' = IF Executes THEN entered \ Destinations(decodeStruct) ELSE entered
  PROVE  EntryInv'
  <1>1. /\ stage = "execute" /\ stage' = "decode" /\ StallFlag = 0
        /\ UNCHANGED <<memoryStruct, StallFlag, fresh_data_stall>> /\ forward' = {}
        /\ executeStruct'.op = decodeStruct.op /\ executeStruct'.Rd = decodeStruct.Rd
        /\ executeStruct'.Rt = decodeStruct.Rt
        /\ FrontKept \/ FrontCleared
        /\ HaltFlag' = IF decodeStruct.op = "HLT" THEN 1 ELSE HaltFlag
    BY DEF Executed, Moves, Resets, Sent
  <1>2. entered' \subseteq entered
    OBVIOUS
  <1>3. fetchStruct'.word.op = "NONE" => fetchStruct'.word.Rd \in Unnamed
    BY <1>1 DEF EntryInv, FrontKept, FrontCleared, EmptyFetch, ZeroWord, Unnamed
  <1>4. ASSUME HaltFlag' = 0
        PROVE  /\ Quiet(decodeStruct)' /\ Quiet(executeStruct)' /\ Quiet(memoryStruct)'
               /\ \A r \in entered' \ Unnamed : ~Spoken(r)'
    <2>1. HaltFlag = 0 /\ Quiet(decodeStruct)
      BY <1>1, <1>4 DEF EntryInv
    <2>2. Quiet(decodeStruct)'
      BY <1>1, <2>1 DEF FrontKept, FrontCleared, Quiet, Unnamed
    <2>3. ASSUME NEW r \in entered' \ Unnamed
          PROVE  ~Spoken(r)'
      <3>1. ~Spoken(r)
        BY <1>2, <2>1 DEF EntryInv
      <3>2. ~(InMemory' /\ r \in Destinations(memoryStruct'))
        BY <1>1, <3>1 DEF Spoken, InMemory, Destinations
      <3>3. ~(InExecute' /\ r \in Destinations(executeStruct'))
        <4>1. CASE decodeStruct.op = "NoOp"
          BY <1>1, <4>1 DEF InExecute
        <4>2. CASE decodeStruct.op # "NoOp"
          <5>1. r \notin Destinations(decodeStruct)
            BY <1>1, <4>2 DEF Executes
          <5> QED BY <1>1, <5>1 DEF Destinations
        <4> QED BY <4>1, <4>2
      <3> QED BY <1>1, <3>2, <3>3 DEF Spoken
    <2> QED BY <1>1, <2>1, <2>2, <2>3 DEF Quiet, EntryInv
  <1> QED BY <1>1, <1>2, <1>3, <1>4 DEF EntryInv

(* Decode finds nothing forwarded: the fields it replaces have been used.  *)
LEMMA EntryDecode ==
  ASSUME MachineInv, EntryInv, pipe_stage_decode, UNCHANGED entered
  PROVE  EntryInv'
  <1>t. IsInstruction(fetchStruct.word) /\ StallFlag \in {0, 1}
    BY DEF MachineInv, StateInv, ControlInv, ControlTypeOK, Flag
  <1>1. /\ stage = "decode" /\ stage' = "fetch"
        /\ UNCHANGED <<fetchStruct, executeStruct, memoryStruct, forward, StallFlag,
                       HaltFlag, fresh_data_stall, entered>>
    BY DEF pipe_stage_decode, forwardVars, stallVars, controlVars
  <1>2. CASE StallFlag = 1
    BY <1>1, <1>2, EntryKept DEF pipe_stage_decode, InExecute, InMemory, EntryInv
  <1>3. CASE StallFlag = 0
    <2> DEFINE word == fetchStruct.word
    <2>1. /\ decodeStruct'.op = IF word.op \in Keepers THEN decodeStruct.op
                                                      ELSE OperationOf(word)
          /\ decodeStruct'.Rd = RdField(word)
      BY <1>3 DEF pipe_stage_decode
    <2>2. decodeStruct'.op = "HLT" \/ Quiet(decodeStruct)'
      <3>1. CASE word.op = "NONE"
        BY <2>1, <3>1 DEF Keepers, EntryInv, Quiet, RdField, OperationOf, Unnamed, Stores, Loads, Branches,
                          FlagBranches, ZeroTests
      <3>c. CASE word.op = "COND"
        BY <2>1, <3>c DEF Quiet, RdField, OperationOf, Unnamed
      <3>2. CASE word.op \in Operations \ Compares
        <4>1. OperationOf(word) \in Compares => word.Rd = 31
          BY <3>2 DEF OperationOf, Compares
        <4>2. OperationOf(word) \in Operations
          BY <3>2 DEF OperationOf, Operations, Compares
        <4>3. OperationOf(word) \in Stores \cup Loads \cup Branches
                  => RdField(word) = BlankRd
          BY DEF RdField
        <4>4. RdField(word) \in {word.Rd, BlankRd}
          BY DEF RdField
        <4>5. decodeStruct'.op = OperationOf(word) /\ decodeStruct'.Rd = RdField(word)
          BY <2>1, <3>2 DEF Keepers, Operations, WritesRd, AluRegister, AluImmediate, Loads,
                            Stores, Branches, FlagBranches, ZeroTests
        <4> HIDE DEF word
        <4> QED BY <4>1, <4>2, <4>3, <4>4, <4>5 DEF Quiet, Operations, Unnamed
      <3> QED BY <1>t, <3>1, <3>c, <3>2 DEF IsInstruction, Opcodes, Keepers
    <2>3. ASSUME HaltFlag = 0, NEW r \in entered \ Unnamed
          PROVE  ~Spoken(r)'
      <3>1. forward' = {} /\ ~Spoken(r)
        BY <1>1, <1>3, <2>3 DEF EntryInv
      <3> QED BY <1>1, <3>1 DEF Spoken, InExecute, InMemory, Destinations
    <2> HIDE DEF word
    <2> QED BY <1>1, <2>2, <2>3 DEF EntryInv, Quiet, Unnamed
  <1> QED BY <1>t, <1>2, <1>3

(* Every command and every step of a cycle keeps what input promises.      *)
LEMMA EntryStep ==
  ASSUME KnownWords, MachineInv, EntryInv, [ShellNext]_<<vars, shellVars>>
  PROVE  EntryInv'
  <1>t. ControlTypeOK
    BY DEF MachineInv, StateInv, ControlInv
  <1>w. fetchStruct.word.op = "NONE" => fetchStruct.word.Rd \in Unnamed
    BY DEF EntryInv
  <1> DEFINE Left == UNCHANGED <<fetchStruct, decodeStruct, executeStruct, memoryStruct,
                                 forward, StallFlag, HaltFlag, entered>>
  <1>1. CASE UNCHANGED <<vars, entered>>
    <2>1. Left /\ UNCHANGED <<stage, fresh_data_stall>>
      BY <1>1 DEF vars, latches, forwardVars, controlVars, stallVars
    <2> QED BY <1>w, <2>1, EntryKept DEF InExecute, InMemory
  <1>2. ASSUME NEW i \in Inputs, Input(i[1], i[2])
        PROVE  EntryInv'
    <2>1. /\ UNCHANGED <<fetchStruct, decodeStruct, executeStruct, memoryStruct, forward,
                         StallFlag, HaltFlag, stage, fresh_data_stall>>
          /\ entered' = IF i[1] \in Regs /\ ~Spoken(i[1]) THEN entered \cup {i[1]}
                                                       ELSE entered
      BY <1>2 DEF Input, latches, forwardVars, controlVars, stallVars
    <2>2. \A r : Spoken(r)' <=> Spoken(r)
      BY <2>1 DEF Spoken, InExecute, InMemory, Destinations, Matching
    <2>3. entered' \subseteq entered \cup Regs
      BY <2>1
    <2>4. \A r \in entered' : r \in entered \/ (r = i[1] /\ ~Spoken(r))
      BY <2>1
    <2> QED BY <2>1, <2>2, <2>3, <2>4 DEF EntryInv, Quiet, Unnamed
  <1>3. CASE CycleBegins
    <2>1. Left /\ stage = "begin" /\ stage' \in {"stall", "wb"} /\ UNCHANGED fresh_data_stall
      BY <1>3 DEF CycleBegins, BeginCycle, latches, forwardVars, stallVars
    <2> QED BY <1>w, <2>1, EntryKept DEF InExecute, InMemory
  <1>4. CASE CycleGoesOn
    <2>e. entered' = IF Executes THEN entered \ Destinations(decodeStruct) ELSE entered
      BY <1>4 DEF CycleGoesOn
    <2>n. stage # "execute" \/ StallFlag # 0 => UNCHANGED entered
      BY <2>e DEF Executes
    <2>1. CASE StallCycle \/ MissCycle
      <3>1. Left /\ stage # "execute" /\ stage # "mem" /\ stage' = "begin"
            /\ UNCHANGED fresh_data_stall
        BY <2>1, <2>n DEF StallCycle, MissCycle, EndCycle, latches, forwardVars, controlVars
      <3> QED BY <1>w, <3>1, EntryKept DEF InExecute, InMemory
    <2>2. CASE pipe_stage_wb
      BY <2>2, <2>n, EntryWriteBack DEF pipe_stage_wb
    <2>3. CASE SkipWriteBack
      <3>1. Left /\ stage = "wb" /\ stage' = "mem"
        BY <2>3, <2>n DEF SkipWriteBack, latches, forwardVars, controlVars
      <3> QED BY <1>w, <3>1, EntryKept DEF InExecute, InMemory
    <2>4. CASE MemoryStage
      BY <1>t, <2>4, <2>n, MemoryEffect, EntryMiss, EntryMemory DEF MemMiss, Passed
    <2>5. CASE ExecuteStage
      <3>1. CASE ExecuteStalled
        <4>1. Left /\ stage = "execute" /\ stage' = "decode" /\ StallFlag = 1
              /\ UNCHANGED fresh_data_stall
          BY <2>n, <3>1 DEF ExecuteStalled, latches, forwardVars, controlVars, stallVars
        <4> QED BY <1>w, <4>1, EntryKept DEF InExecute, InMemory
      <3>2. CASE Executed /\ Resets
        BY <2>e, <3>2, EntryExecute
      <3> QED BY <1>t, <2>5, <3>1, <3>2, ExecuteEffect
    <2>6. CASE pipe_stage_decode
      BY <2>6, <2>n, EntryDecode DEF pipe_stage_decode
    <2>7. CASE FetchStage
      <3>1. /\ UNCHANGED <<decodeStruct, executeStruct, memoryStruct, forward, StallFlag,
                           HaltFlag, fresh_data_stall>>
            /\ stage = "fetch" /\ stage' = "begin"
        BY <2>7 DEF FetchStage, FetchStallCycle, FetchNothing, FetchHit, FetchMiss, Fetching,
                    FetchTurn, EndCycle, latches, forwardVars, controlVars
      <3>2. UNCHANGED fetchStruct \/ fetchStruct' = [PC |-> PC, word |-> InstructionAt(PC)]
        BY <2>7 DEF FetchStage, FetchStallCycle, FetchNothing, FetchHit, FetchMiss, latches
      <3>3. InstructionAt(PC).op = "NONE" => InstructionAt(PC).Rd \in Unnamed
        BY <1>t, FetchedIsKnown DEF ControlTypeOK
      <3>4. fetchStruct'.word.op = "NONE" => fetchStruct'.word.Rd \in Unnamed
        BY <1>w, <3>2, <3>3
      <3> QED BY <2>n, <3>1, <3>4, EntryKept DEF InExecute, InMemory
    <2> QED BY <1>4, <2>1, <2>2, <2>3, <2>4, <2>5, <2>6, <2>7 DEF CycleGoesOn
  <1> QED BY <1>1, <1>2, <1>3, <1>4
          DEF ShellNext, Simulate, Run, Go, Quit, Return, shellVars

(* input: the value entered is read by the instructions that execute after *)
(* it, whatever is on its way through the pipeline at the moment, for      *)
(* every program whose words without operation name no other register.     *)
THEOREM EnteredValuesAreRead ==
  ASSUME KnownWords
  PROVE  ShellSpec => []EnteredValueIsRead
  <1>1. ShellInit => MachineInv /\ EntryInv
    BY MachineInit, EntryInit DEF ShellInit
  <1>2. MachineInv /\ EntryInv /\ [ShellNext]_<<vars, shellVars>> => (MachineInv /\ EntryInv)'
    BY ShellMoves, MachineStep, InputKeepsTheMachine, EntryStep
  <1>3. MachineInv /\ EntryInv => EnteredValueIsRead
    <2> SUFFICES ASSUME MachineInv, EntryInv, Executes,
                        NEW f \in ReadFields(decodeStruct.op),
                        decodeStruct[f] \in entered \ {0, 31}
                 PROVE  Operand(f) = REGS[decodeStruct[f]]
      BY DEF EnteredValueIsRead
    <2>1. HaltFlag = 0
      BY DEF MachineInv, HaltInv, HaltDrains, Executes, StateInv, ControlInv, ControlTypeOK, Flag
    <2>2. decodeStruct[f] \notin Unnamed
      BY PipelineAssumption DEF EntryInv, Unnamed, BlankRd
    <2>3. ~Spoken(decodeStruct[f])
      BY <2>1, <2>2 DEF EntryInv
    <2>4. f \in Matching(decodeStruct[f])
      BY DEF Matching, ReadFields
    <2>5. f \notin forward
      BY <2>3, <2>4 DEF Spoken
    <2>6. decodeStruct[f] \in Regs
      BY DEF EntryInv
    <2> QED BY <2>5, <2>6 DEF Operand, Register
  <1> QED BY <1>1, <1>2, <1>3, PTL DEF ShellSpec
=============================================================================
