------------------------------- MODULE Shell --------------------------------
(***************************************************************************)
(* shell.c: the commands between which the simulated machine stands still. *)
(* main loads the program files named on the command line and then reads   *)
(* commands for ever; run and go call cycle(), input sets a register, and  *)
(* the two dumps only read.  The machine is the Pipeline: one cycle() is   *)
(* its steps from stage "begin" back to "begin".                           *)
(***************************************************************************)
EXTENDS PipelineControl

CONSTANTS
    FileLists,      \* the lists of program files: [words, wellFormed] each
    RunLengths,     \* the n of run n
    Inputs,         \* the pairs of register number and value of input
    MaxInputs       \* bound on the number of input commands

\* input accepts any register number.  REGS[32] and REGS[33] are the rest of
\* CURRENT_STATE; the numbers that reach other globals are left out.
FlagsIndex == 32
PCIndex    == 33
BehindREGS == {FlagsIndex, PCIndex}

IsSequence(s) == Len(s) \in Nat /\ DOMAIN s = 1 .. Len(s)

ASSUME ShellAssumption ==
    /\ \A list \in FileLists :
          IsSequence(list) /\ \A i \in DOMAIN list : IsSequence(list[i].words)
    /\ MaxInputs \in Nat
    /\ RunLengths \subseteq Int
    /\ \A i \in Inputs : i[1] \in Regs \cup BehindREGS /\ i[2] \in Long

VARIABLES
    files,          \* argv of main
    command,        \* what get_command is doing
    remaining,      \* num_cycles - i, in the loop of run
    inputs,         \* the number of input commands so far
    goal,           \* history: the cycle at which the last command must end
    entered         \* history: registers that hold a value of input

shellVars == <<files, command, remaining, inputs, goal, entered>>

Commands == {"prompt", "run", "go", "exit"}

-----------------------------------------------------------------------------
(* Starting.                                                               *)

\* Mutant: each file is put behind the one before it.
load_behind(text, words) == text \o words

\* load_program writes the words of a file from the start of the text on.
load_program(text, words) ==
    [i \in 1 .. (IF Len(words) > Len(text) THEN Len(words) ELSE Len(text)) |->
        IF i <= Len(words) THEN words[i] ELSE text[i]]

\* initialize loads every file, each over the one before.
Loaded(list) ==
    LET text[n \in 0 .. Len(list)] ==
            IF n = 0 THEN <<>> ELSE load_program(text[n - 1], list[n].words)
    IN  text[Len(list)]

ShellInit ==
    /\ Init
    /\ files \in FileLists
    /\ program = Loaded(files)
    \* A file that is malformed, or no file at all, ends the simulator.
    /\ command = IF files # <<>> /\ \A i \in DOMAIN files : files[i].wellFormed
                 THEN "prompt" ELSE "exit"
    /\ remaining = 0 /\ inputs = 0 /\ goal = 0 /\ entered = {}

-----------------------------------------------------------------------------
(* The commands.                                                           *)

\* A cycle that is never reached: go ends with the program only.
Never == MaxCycles + 1

\* run and go refuse to simulate a halted machine.
Run(n) ==
    /\ command = "prompt" /\ RUN_BIT = 1
    /\ command' = "run" /\ remaining' = n
    /\ goal' = stat_cycles + (IF n > 0 THEN n ELSE 0)
    /\ UNCHANGED <<vars, files, inputs, entered>>

Go ==
    /\ command = "prompt" /\ RUN_BIT = 1
    /\ command' = "go"
    /\ goal' = Never
    /\ UNCHANGED <<vars, files, remaining, inputs, entered>>

\* An instruction that will write register r is in flight, or a value for r
\* has been forwarded to the instruction that waits to be executed.
Spoken(r) ==
    \/ InExecute /\ r \in Destinations(executeStruct)
    \/ InMemory /\ r \in Destinations(memoryStruct)
    \/ Matching(r) \cap forward # {}

\* The value is put into CURRENT_STATE at once, whatever is on its way through
\* the pipeline.  The flags are the two halves of REGS[32].
Input(r, v) ==
    /\ command = "prompt" /\ inputs < MaxInputs
    /\ REGS' = IF r \in Regs THEN [REGS EXCEPT ![r] = v] ELSE REGS
    /\ FLAG_N' = IF r = FlagsIndex THEN ToWord(v) ELSE FLAG_N
    /\ FLAG_Z' = IF r = FlagsIndex THEN HighWord(v) ELSE FLAG_Z
    /\ PC' = IF r = PCIndex THEN v ELSE PC
    /\ inputs' = inputs + 1
    /\ entered' = IF r \in Regs /\ ~Spoken(r) THEN entered \cup {r} ELSE entered
    /\ UNCHANGED <<program, mem, temp_FLAG_N, temp_FLAG_Z, statVars, latches,
                   forwardVars, predictVars, caches, stallVars, controlVars, stage,
                   files, command, remaining, goal>>

\* quit, and the end of the input.
Quit ==
    /\ command = "prompt"
    /\ command' = "exit"
    /\ UNCHANGED <<vars, files, remaining, inputs, goal, entered>>

\* Mutants: one cycle too many; the loop does not look at RUN_BIT again.
OneMoreCycle == RUN_BIT = 1 /\ (command = "run" => remaining >= 0)
HaltUnseen   == command = "run" => remaining > 0

\* The condition under which the loop of run, or of go, calls cycle() again.
MayCycle == RUN_BIT = 1 /\ (command = "run" => remaining > 0)

CycleBegins ==
    /\ command \in {"run", "go"} /\ MayCycle
    /\ BeginCycle
    /\ remaining' = IF command = "run" THEN remaining - 1 ELSE remaining
    /\ UNCHANGED <<files, command, inputs, goal, entered>>

CycleGoesOn ==
    /\ \/ StallCycle \/ pipe_stage_wb \/ SkipWriteBack
       \/ MemoryStage \/ MissCycle \/ ExecuteStage \/ pipe_stage_decode \/ FetchStage
    /\ entered' = IF Executes THEN entered \ Destinations(decodeStruct) ELSE entered
    /\ UNCHANGED <<files, command, remaining, inputs, goal>>

\* Mutant: the loop is left as soon as write-back has stopped the machine.
LeaveAtOnce ==
    /\ command \in {"run", "go"} /\ RUN_BIT = 0
    /\ command' = "prompt"
    /\ UNCHANGED <<vars, files, remaining, inputs, goal, entered>>

Return ==
    /\ command \in {"run", "go"} /\ stage = "begin" /\ ~MayCycle
    /\ command' = "prompt"
    /\ UNCHANGED <<vars, files, remaining, inputs, goal, entered>>

Simulate == CycleBegins \/ CycleGoesOn \/ Return

ShellNext ==
    \/ \E n \in RunLengths : Run(n)
    \/ \E i \in Inputs : Input(i[1], i[2])
    \/ Go \/ Quit
    \/ Simulate

\* run and go are loops that nothing interrupts; the user need not type.
ShellSpec ==
    ShellInit /\ [][ShellNext]_<<vars, shellVars>> /\ WF_<<vars, shellVars>>(Simulate)

-----------------------------------------------------------------------------
(* Type correctness of the shell's own state; commands are read only       *)
(* between two cycles.                                                     *)
ShellTypeOK ==
    /\ command \in Commands
    /\ remaining \in Int /\ goal \in Nat
    /\ inputs \in 0 .. MaxInputs
    /\ entered \subseteq Regs
    /\ command \in {"prompt", "exit"} => stage = "begin"

(* The text holds the files as the last one left them: each word is that   *)
(* of the last file that is long enough, so a shorter program is followed  *)
(* by the rest of the one loaded before it.                                *)
LastFilePrevails ==
    \A i \in 1 .. Len(program) :
        \E k \in DOMAIN files :
            /\ i <= Len(files[k].words) /\ program[i] = files[k].words[i]
            /\ \A l \in k + 1 .. Len(files) : Len(files[l].words) < i

(* run n simulates n cycles, whether they execute an instruction or wait,  *)
(* and fewer only if the machine halts; go ends by the halt alone.         *)
RunCountsCycles ==
    /\ stat_cycles <= goal
    /\ command \in {"prompt", "exit"} /\ stat_cycles < goal => RUN_BIT = 0

(* An instruction that executes after an input reads the value entered,    *)
(* unless at the input an older instruction was still about to write the   *)
(* register or had its value forwarded already.  Registers 0 and 31 are    *)
(* left out: bubbles and compares forward what is no value of theirs.      *)
EnteredValueIsRead ==
    Executes =>
        \A f \in ReadFields(decodeStruct.op) :
            decodeStruct[f] \in entered \ {0, 31} =>
                Operand(f) = REGS[decodeStruct[f]]

(* run n always comes back to the prompt: every cycle of every program     *)
(* comes to its end, with or without a wait.                               *)
CommandsReturn ==
    command = "run" /\ goal <= MaxCycles ~> command = "prompt"
=============================================================================
