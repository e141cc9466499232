# A TLA+ model of the ARM architecture simulator

The simulator (`src/src`) is a single-threaded C program that simulates a
five-stage ARM pipeline cycle by cycle, with an instruction cache, a data cache
and a branch predictor that decide timing only. This directory models it, checks
the model with TLC and proves its central properties with TLAPS.

The concurrency of this program is the pipeline's: in every cycle five
instructions are at work in stages that share latches, flags and one program
counter, two countdowns for cache misses run beside each other, and results,
flushes and stalls cross from late stages to early ones. The stages are called in
a fixed order, so the hard cases are not races of threads but *sequences of
instructions*: which one waits in which latch when another one misses, branches
or halts.

## 1. Inventory

| Part | Source | State | Operations |
|---|---|---|---|
| Pipeline | `pipe.c`, `pipe.h` | `CURRENT_STATE` (registers, flags, `PC`), four latches, forwarding and temporary flags, two stall counters, `HaltFlag`, `StallFlag`, `flushed`, `RUN_BIT` | `pipe_init`, `pipe_cycle` and the five stages it calls, `check_dependency_*`, `check_stall`, `update_PC`, the `clear*` functions, `forward_regs_flags` |
| Instruction set | `pipe.c` (decode, the switches of execute, memory, write-back) | none of its own | 35 operations |
| Caches | `cache.c`, `cache.h` | per set the blocks with valid bit, tag and stamp; a clock | `cache_new`, `check_cache_hit`, `cache_update` |
| Branch predictor | `bp.c`, `bp.h` | `GHR`, `PHT`, `BTB` | `bp_predict`, `bp_update` |
| Simulated memory | `shell.c` | three regions of bytes | `mem_read_32`, `mem_write_32`, `init_memory` |
| Shell | `shell.c`, `shell.h` | the command loop, cycle and retirement counts | `initialize`, `load_program`, `cycle`, `run`, `go`, `input`, `mdump`, `rdump` |
| First version | `pipe_old.c` | as the pipeline, without caches and waits | the same stages; kept beside `pipe.c`, the Makefile builds `pipe.c` |
| Programs, scripts, binaries | `inputs/`, `lab4_testing.sh`, `sim`, the vendored toolchain | - | four test programs and their reference results |

How they interact. `go` and `run` call `cycle`, which calls `pipe_cycle` and counts.
`pipe_cycle` runs write-back, memory, execute, decode, fetch, in this order, so each
stage reads the latch its predecessor left in the previous cycle. Memory and
write-back offer results to the instruction in `decodeStruct` (forwarding); execute
resolves branches, and on a wrong prediction clears the two latches behind it and
sets `PC`; HLT does the same and stops fetching. A data miss in the memory stage
ends the cycle, freezes all stages for the wait, and meanwhile calls `update_PC`,
which lets the front end go on in its own way. An instruction miss only stops the
fetch stage. The shell stops when write-back clears `RUN_BIT`. Between two cycles the
user may write a register, the flags or `PC` (`input`), whatever is in flight.

What makes each part correct:

* pipeline: an instruction that execute sends on takes effect once, whatever stalls;
  what a flush or HLT drops leaves no trace; waits change nothing and end; HLT stops
  the machine and nothing else does; a latch field used as an index is a register number.
* caches: the block evicted is the one used longest ago; a block just fetched is there.
* predictor: a prediction belongs to its instruction, only branches are predicted taken,
  and to where they went last; a branch that repeats itself is learned.
* instruction set: whatever is overlapped, predicted, forwarded and stalled, the
  instructions take effect one by one, in program order.
* shell: `run n` simulates n cycles and comes back, an entered value reaches the
  instructions that execute after it.
* the whole: a program ends with the registers, counts and cycles of the reference.

What is hard about this code is listed line by line as `hazards` in `PROJECT.json`.

## 2. Modules

| Module | Models | Notes |
|---|---|---|
| `Words` | the integer types of C | all values are unsigned 64-bit representations; `ToInt` cuts to `int` and sign-extends |
| `MemoryOps` | `mem_read_32`, `mem_write_32` | little-endian words over bytes, reads of unmapped addresses give 0 |
| `CacheOps` | `cache.c` | a cache is a record, its operations are operators |
| `PredictorOps` | `bp.c` | likewise |
| `Instructions` | `operationName_t`, the fields decode leaves | an instruction word is a record of its fields; one that keeps the operation before it (an unknown opcode, or a B.cond with none of the six conditions) has an immediate for every operation |
| `InstructionWords` | the bits of a word: opcode ranges, fields, immediates of decode | gives the record for each word of a program file |
| `Pipeline` | `pipe.c`, with `cycle` and `go` | the state machine |
| `PipelineControl` | - | its properties |
| `PipelineHistory` | - | the pipeline with two counters as history variables, and `RetireOnce` |
| `PipelineProofs` | - | theorems about the two modules above: control and data |
| `OperatorLemmas` | - | lemmas on `Words`, on the tables of `PredictorOps` and on the sets of `CacheOps` |
| `Architecture` | - | the abstract specification: the instruction set, one instruction per step |
| `PipelineArchitecture` | - | the pipeline with history variables, the departures, and the refinement of `Architecture` |
| `ArchitectureProofs` | - | theorems about `PipelineArchitecture`: program order, operands, flags |
| `RefinementProofs` | - | the proof that the pipeline implements `Architecture` |
| `FirstPipeline` | `pipe_old.c` | its stages over the state of `Pipeline`, and the same refinement |
| `FirstProofs` | - | the proof of that refinement |
| `LruCache` | - | the abstract specification of a cache: recency lists, without stamps and places |
| `Cache` | one cache under any sequence of calls | its properties, and the refinement of `LruCache` |
| `CacheProofs` | - | theorems about `Cache`, with the proof of that refinement |
| `Predictor` | the predictor under any sequence of branches | history variables, and its properties |
| `PredictorProofs` | - | theorems about `Predictor` |
| `Shell` | `shell.c` | the commands, around the steps of `Pipeline` |
| `ShellProofs` | - | theorems about `Shell` |
| `Assembly` | - | constructors of decoded instruction words, for the instances |
| `MCGraded`, `MCProgress`, `MCControl`, `MCCache`, `MCArchitecture`, `MCFirst`, `MCPredictor`, `MCShell`, `MCFindings` | - | instances for TLC |

`Pipeline` composes the operators of `MemoryOps`, `CacheOps`, `PredictorOps` and
`Instructions`; the caches and the predictor are variables of it, since the code
owns them as globals of `pipe.c`. `Shell` composes `Pipeline` with the command loop: one
`cycle()` is the steps of `Pipeline` from the stage `begin` back to `begin`.

### State and actions of `Pipeline`

The variables have the names of the globals of `pipe.c`. Five things differ:

* `stage` says which call of `pipe_cycle` comes next. The stages of a cycle are
  separate actions, so that properties can speak of the state between two stages.
* `RNFLAG`, `RMFLAG`, `RTFLAG` are the set `forward`, and the three `...ValForwarded`
  fields the function `forwarded`.
* `mem` holds the data and stack regions. The text region is the constant-valued
  variable `program`; words beyond the program are 0, as in the code.
* the indexes 40 and 50 into `REGS[32]` are undefined in C. The model has what the binary of the
  repository (`src/src/sim`) does, in which `executeStruct` lies behind `CURRENT_STATE`:
  `REGS[40]` is its opcode, which execute has just copied from `decodeStruct` (`Register`), and
  `REGS[50]` its `storeValLow` and `storeValHigh` (`WrittenBehind`). The flags of the shell's `input`
  are `REGS[32]` and `PC` is `REGS[33]`, by the declaration of `CPU_State`.
* latch fields that nothing reads (`PCFinal`, ...) are left out. The records
  that `pipe_init` allocates without clearing are modelled as cleared: only a branch
  reads them, and a branch reaches execute only after a fetch has written them.

| Action | Code |
|---|---|
| `BeginCycle` | `forward_regs_flags()` and `flushed = 0`, then the choice between a stall cycle and the stages (pipe.c:1497-1499) |
| `StallCycle` | a cycle of a data stall (1522-1531) |
| `pipe_stage_wb`, `SkipWriteBack` | write-back, or its omission in the retry after a miss (1500) |
| `MemLoad`, `MemStore`, `MemStoreNarrow`, `MemPass`, `MemMiss` | `pipe_stage_mem`: loads that get through, STUR that hits, STURB/STURH, all other operations, a miss with `update_PC` |
| `MissCycle` | the end of the cycle of a miss (1515-1520) |
| `ExecuteStalled`, `ExecuteNoOp`, `ExecuteAlu`, `ExecuteCompare`, `ExecuteLoad`, `ExecuteStore`, `ExecuteBranch`, `ExecuteHalt` | the cases of `pipe_stage_execute`; the arithmetic of all 35 is in `Alu` and `Result` (ADD 597-656, logic 708-768, shifts 799-817 with the amount masked, SUB 850-926, MUL 950-966, MOVZ 1048-1051) |
| `pipe_stage_decode` | itself |
| `FetchStallCycle`, `FetchNothing`, `FetchHit`, `FetchMiss` | the instruction stall (1507-1514) and the cases of `pipe_stage_fetch` |
| `Halted` | `run` and `go` refuse to simulate once `RUN_BIT` is 0 |

Some behaviours of the code look like slips, and they are modelled as they are: a
branch not taken goes to `PC + 8` (except BGT), a forwarded SUBI is passed on
unsubtracted, results that are 0 are not forwarded, SUBSI and CMPI set no
architectural flags, STURH stores a byte, an instruction miss lets decode take the
last instruction again in each cycle of the wait.

### State and actions of `Shell`

`files` is the list of program files given to `main`, `command` what `get_command` is
doing, `remaining` the loop variable of `run`, counted down. `goal` and `entered` are
history: the cycle the last command must end at, and the registers that hold an entered
value nobody has overwritten.

| Action | Code |
|---|---|
| `ShellInit` | `main` and `initialize`: every file is loaded from the start of the text, over the ones before (shell.c:346-405); no file, or a malformed one, ends the simulator |
| `Run(n)`, `Go` | the start of `run` and `go`, which refuse a halted machine |
| `CycleBegins`, `CycleGoesOn`, `Return` | the loops and `cycle` (132-180); `RUN_BIT` is looked at between two cycles only |
| `Input(r, v)` | `input`, which writes `CURRENT_STATE` at once, without a check of the number: a register, the two flags (32) or `PC` (33) |
| `Quit` | `quit` and the end of the input |

### State and actions of `Predictor`

The one action `Execute(b, taken)` is the call of `bp_update` that execute makes for a
branch, with any outcome. `bp_predict` changes nothing: the properties look at what it
would say in each state. History variables remember where each branch went last, which
branch was executed last in each row, and how often the last branch has repeated itself.

### State and actions of `FirstPipeline`

`pipe_old.c` has the globals, the latches, write-back and decode of `pipe.c`, so the
module is built over the variables of `Pipeline`; those of the caches never change.
Memory is one access without a wait, execute is split as the code's switch is (one
action for each group of cases), and `FirstFetch` asks for the prediction of the
instruction word, as the code does, which is always "not taken" (see section 5). Four things differ:
forwarding flags that are set stay set, SUBS sets the flags of a zero, HLT drops nothing,
and nothing waits.

### The instruction set and the departures

`Architecture` gives each operation the meaning of its name, and `ImplementsArchitecture`
says that the pipeline does that: its state is mapped by taking what is in the memory
latch as written. The mapping follows the instructions as they leave the memory stage, in
any number of cycles.

The program is not exact for every program it runs, so the property says: it is, until
one of these named *departures*. Each is recognised by its cause in the code, at the
step at which it becomes certain, and never by a wrong result. So the run shows
that the list is complete for its programs. Each of them is also needed: without it the
property fails.

| Departure | Cause | pipe.c |
|---|---|---|
| `lost` | `update_PC` steps over the instruction that comes next | 417 |
| `again` | an instruction that fetch has not replaced executes again on its own result | 1480 |
| `unknown` | a word without an operation, or a B.cond with none of the six conditions, keeps the operation before it | 1240, 1420 |
| `untaken` | a branch not taken goes to `PC + 8` (except BGT) | 979 |
| `immediate` | SUBI, SUBSI, CMPI with a forwarded operand do not subtract | 871 |
| `zero` | a result 0 is not forwarded | 116 |
| `stale` | the forwarded value is of an instruction that writes no register, or older than the load that was waited for | 116, 391 |
| `result` | a 64-bit result is cut to `int` | 183 |
| `address` | a negative offset is added as a `uint32_t`, or a load address is cut to 32 bits, also that of the second word of an LDUR | 584 |
| `halfword` | STURH stores a byte | 701 |
| `narrow` | STURB and STURH store a whole word | 496 |
| `no_flags` | SUBSI never sets the flags | 298 |
| `late_flags` | a branch looks at the flags before the instruction ahead of it has set them | 1076 |
| `undone_flags` | write-back puts the flags of an older instruction over those of a compare | 83 |
| `by_hand` | `forward_regs_flags` stores a word | 424 |
| `behind_halt` | a store behind a HLT reaches memory (first version only) | `pipe_old.c` 837 |

Three invariants state the parts of this in which the stages must work together, also of
the instructions behind a departure, as long as it does not concern them:

* `InProgramOrder`: execute takes the instruction the last one led to, or that one again
  while fetch waits. The exceptions are `lost` and `unknown`.
* `OperandsAreCurrent`: the value an instruction computes with, from the register file or
  forwarded, is the one its register has after the instruction before it. The exceptions are
  `zero` and `stale`.
* `BranchesSeeTheFlags`: a branch looks at the flags of the last instruction before it that
  sets some. The exceptions are `late_flags` and `undone_flags`.

For CMPI the flags compared are those a branch would see, the temporary ones; write-back
does not copy them to the architectural flags. Of the 11560 behaviours of the run, 2816
reach HLT without any departure; the others are compared up to the first one. All but
`by_hand` occur alone in it, `lost` and `again` cannot occur in the first version, and
`by_hand` needs the registers of a grading program at one cycle.

The operators named `Mutant` in comments are plausible mistakes in the
definition that follows them. No specification uses them. Each property has one that
violates it (`mutants` in `PROJECT.json`): replacing the definition by it shows that
the property depends on the code.

## 3. Runs

| Run | Instance | Checks |
|---|---|---|
| `graded` | `MCGraded`: the hexadecimal words of the four files `inputs/*.x`, taken apart by `InstructionWords`; caches and predictor of the real size, waits of 9 cycles, deadlock checked | `GradedResults`: final registers, retirements, cycles and `PC` are those of the reference simulator (35, 353, 48, 560 cycles). About 1000 cycles, 5.9 thousand states |
| `control` | `MCControl`: 15^3 programs, with the history variables of `PipelineHistory` | eleven invariants, `RetireOnce` among them, and two action properties of those below. 485 thousand states |
| `progress` | `MCProgress`: 15^2 programs of the same mix | `HaltStops`, `MissIsServed`. 30 thousand states |
| `cache` | `MCCache`: 4 sets of 3 ways, 5 blocks | `TypeOK`, `StampsOrderTheSet`, `UsedBlockStays`, `ImplementsLru`. 71 thousand states |
| `architecture` | `MCArchitecture`: 5780 programs, three instructions of a mix behind a prologue, on two register files | `ImplementsArchitecture` for `pipe.c`; `InProgramOrder`, `OperandsAreCurrent`, `BranchesSeeTheFlags`. 1.53 million states |
| `first_version` | `MCFirst`: 4500 programs on two register files | `ImplementsArchitecture` for `pipe_old.c`. 575 thousand states |
| `predictor` | `MCPredictor`: five branches at four addresses, tables of four rows | `TypeOK`, `PredictsLastDestination`, `JumpsArePredicted`, `LearnsTheStreak`. 200 thousand states |
| `shell` | `MCShell`: five lists of files, any sequence of commands with one `input` | `ShellTypeOK`, `LastFilePrevails`, `RunCountsCycles`, `EnteredValueIsRead`, `CommandsReturn`. 13 thousand states |
| `lost_halt` | `MCFindings` | expects `RunsToCompletion` to be violated |
| `store_byte` | `MCFindings` | expects `OnlyCacheTouchesMemory` to be violated |
| `accuracy` | `MCFindings` | expects `Accurate` to be violated |
| `stray_index` | `MCFindings` | expects `IndexesBelowARM_REGS` to be violated |

### Properties of the pipeline

* `TypeOK`: types of all state; `branch_predictor` stays within its tables.
* `MissIsReplayed`: while the pipeline waits for data and until the retry, execute
  holds the STUR or LDUR that missed, and write-back is told to skip the retry.
* `RetryHits`: a retry finds the block that was fetched for it. The code fills two
  words per access, and `PC` may move before a pending instruction fill.
* `StallIsForALoad`: a load-use stall belongs to a load some waiting instruction names.
* `HaltDrains`, `StopsOnlyByHalt`, `HaltFreezesPC`: behind an executed HLT the pipeline
  is empty, nothing else stops it, and `PC` is final.
* `OutOfBoundsOnlyByBCond`: decode puts 40 and 50 in unused register fields, and some words keep
  the operation before them. One kind of word brings the two together, a B.cond with none of the
  six conditions: execute reads `REGS[40]` for that word alone, and write-back leaves `REGS`
  only in programs that have one. (That it does so is the finding `stray_index`.)
* `FlushLeavesBubbles`: a slot without an address is a bubble in both front latches.
* `PredictionTravelsAlong`, `OnlyBranchesPredictedTaken`: a prediction stays with
  its instruction, and rows shared in the BTB send no other instruction astray.
* `RetireOnce`: what execute sent on = what was retired + what the code took back by
  hand + what is in flight. A load-use stall and a data retry both pass an instruction
  through a stage twice.
* `WaitingIsInvisible`: a stalled cycle changes nothing but the counters.
* `HaltStops` (within three cycles), `MissIsServed`: progress.

### Properties of the other components

* `StampsOrderTheSet`, `UsedBlockStays`, `ImplementsLru` (`Cache`): the stamps of a set are
  distinct and behind the clock; a block survives the uses of its set that are fewer
  than its ways; what `cache.c` does is least-recently-used replacement, in which a fill
  does not look for the block and may add a copy. Each call is a step of `LruCache` for the set
  and the tag of its address (`asked`), so the answer is about the block that was asked for.
* `PredictsLastDestination`, `JumpsArePredicted`, `LearnsTheStreak` (`Predictor`): no branch
  that shares a row or a counter sends another instruction astray; a jump is known
  until its row is taken; a branch that has repeated itself `IndexBits + 2` times is
  predicted right, because by then the history is all of one kind and its one counter
  has crossed the middle.
* `LastFilePrevails` (`Shell`): each word of the text is that of the last file long enough.
* `RunCountsCycles`: `run n` is n cycles, not instructions, unless the machine halts; `go`
  ends by the halt alone.
* `EnteredValueIsRead`: an instruction that executes after `input` reads the value entered,
  unless an older instruction in flight was about to write the register or its value had
  been forwarded. Registers 0 and 31 are left out: bubbles and compares forward values of
  their own to them.
* `CommandsReturn`: `run n` comes back to the prompt.

### Bounds

* **Widths.** TLC has 32-bit integers, so a byte has 3 bits, a word 12, a register 24
  (`ByteBits = 3`); all conversions of the code keep their ratios. The data region
  starts at 1024 and the text at 512 instead of 0x10000000 and 0x400000; `Scaled` in
  `MCGraded` adapts the two instructions with which the files build the address. The
  literal addresses of `forward_regs_flags` are scaled with them.
* **Programs** (`control`). A fixed prefix fills most of one instruction block, then
  come three of the mix and a HLT, across the boundary of the block. The mix has each
  kind of instruction whose handling differs: hitting and missing loads and stores, a
  store that straddles two blocks (offset 28), the narrow ones, producers and
  consumers of the loaded register, taken and untaken branches forwards and
  backwards, an indirect one, HLT, the word 0 and a B.CS. Three are enough to
  have one instruction in each of execute, decode and fetch when the first misses,
  which is as far as one stage reaches.
* **Caches** of one way and four sets in `control`: every second fill of a set evicts,
  the worst case for `RetryHits`. `graded` has the real sizes.
* **MissCycles** is 2 in `control` and `progress` (9 in the code and in `graded`): an
  instruction wait can end before, with and after a data wait. The proofs take any
  positive number.
* **MaxCycles** stops the clock; programs that have not halted by then (loops, and
  those whose HLT is lost) are cut off there, so deadlock is not checked in those runs.
  In the others a machine that stops is `Halted`.
* **`architecture`.** Seven instructions come first, so that the mix lies across the
  boundary of two instruction blocks, or (with a load that fills a data block while the next
  instruction block is not there) inside the second. Then two instructions that compute
  and one that looks at the result: three are as far as forwarding and stalls reach. The
  two register files have X3 = 1 and X3 = 300, so that a product or a shift does and
  does not fit into an `int`. 32 cycles are enough for every straight program to halt; loops
  are compared for 32 cycles. A wait is 1 cycle there; longer ones are in `control`.
* **`first_version`** has no waits and needs no prologue; 14 cycles are enough. One more
  instruction lies behind the HLT, a store among them.
* **`predictor`.** Two index bits give a history that two outcomes fill, rows that two
  addresses share, and counters that all four branches reach. `MaxStreak` 4 is
  `IndexBits + 2`, where `LearnsTheStreak` begins.
* **`shell`.** `RunLengths` are -1 (nothing is simulated), 1 (a stop between any two cycles)
  and 4; one `input` (`MaxInputs`), at any cycle, of a register, the flags or `PC`; 24 cycles, after which no command simulates.
* **MaxStamp** 7 allows six uses after the empty cache, twice the number of ways: a
  set is filled and then turned over completely. `lru_tracker` is unbounded in the model;
  in C it is an `int` that would overflow after 2^31 uses.

### Fairness

`Spec`, and `HSpec` which adds the history variables, have weak fairness of the whole next-state relation. `go` calls
`cycle` in a loop until `RUN_BIT` is 0, and one thread runs every stage to its end, so
the only thing assumed is that the process keeps running. There is no fairness of
single actions: which one comes next is determined by the state. `ShellSpec` has weak
fairness of `Simulate`, the loops of `run` and `go`, and none of the commands: the user need
not type. `HistorySpec`, `FirstHistorySpec` and the specifications of `Cache` and
`Predictor` state safety only.

### Findings

* `lost_halt`: `shell.c:115` says that `go` will "run program to completion". When a
  data access misses, `update_PC` (pipe.c:417) moves `PC` past an instruction that is in
  the instruction cache but does not put it into `fetchStruct`; it is never executed. If it
  is the HLT, the program runs on through zero words and `go` never returns. The program
  of the run, `STUR X2,[X1]; ADDI; ADDI; HLT` with X1 = 0x10000000, does the same
  on the C program.
* `store_byte`: `shell.h:23` says of the memory functions that "only the cache touches
  these functions". The memory stage calls them itself, and for STURB and STURH without
  asking the data cache.
* `accuracy`: `README.md:1` says that the simulator "achieves 100% accuracy over 1000
  cycles". A branch that is not taken skips the instruction behind it: in `MOVZ X2,1;
  CBZ X2,+3; ADDI X2,X2,4; MOVZ X3,1; HLT` the ADDI is lost and X2 ends as 1, after 20 cycles.
  (The comment at `pipe.c:979` says that the author assumes 8.)
* `stray_index`: `REGS` is the "register file state" (`pipe.h:20`) and has `ARM_REGS` = 32 entries
  (`shell.h:21`). A B.cond whose condition is none of the six of decode (pipe.c:1414-1446) is
  given the fields 50 and 40 and keeps the operation before it. In `ADD X2,X2,X2; B.CS +2` the
  branch is executed as an ADD that reads `REGS[40]` twice and writes `REGS[50]`, variables of the
  simulator that are no registers. `pipe_old.c:1310-1343` does the same.

## 4. Proofs

TLAPS proves these for every value of the constants that satisfies the named
assumptions (`ByteBitsAssumption`, `RegionsAssumption`, `PipelineAssumption`,
`CacheAssumption`, `IndexBitsAssumption`, `CodeAssumption`, `ShellAssumption`): any
program, any register contents, any cache size the code supports, any wait, any set of
branches, any sequence of commands. The provers have no arithmetic of powers, so
`ByteBitsAssumption` states the recursion that defines them (2^0 = 1, 2^n = 2 * 2^(n-1) up
to the width of a register), and `OperatorLemmas` proves the rest from it. TLC evaluates every
assumption in the runs.

| Theorem | Property |
|---|---|
| `ControlInvariant`, `ControlTypesHold` | `ControlTypeOK`, the half of `TypeOK` that steers the pipeline |
| `TypesHold` | `TypeOK` of the pipeline |
| `MissesAreReplayed`, `RetriesHit` | `MissIsReplayed`, `RetryHits` |
| `StallsAreForLoads` | `StallIsForALoad` |
| `TheHaltDrains`, `OnlyHaltStops`, `PCIsFinal` | `HaltDrains`, `StopsOnlyByHalt`, `HaltFreezesPC` |
| `FlushesLeaveBubbles` | `FlushLeavesBubbles`, while `PC` is not 0 |
| `WaitsAreInvisible` | `WaitingIsInvisible` |
| `OnlyBCondLeavesTheRegisterFile` | `OutOfBoundsOnlyByBCond` |
| `EveryInstructionRetiresOnce` | `RetireOnce` |
| `PredictionsTravelAlong`, `NothingElseIsSentAstray` | `PredictionTravelsAlong`, `OnlyBranchesPredictedTaken` |
| `TheProgramIsInOrder` | `InProgramOrder`, while `PC` is not 0 |
| `ForwardingIsCurrent` | `OperandsAreCurrent` |
| `BranchesSeeTheirFlags` | `BranchesSeeTheFlags` |
| `PipelineImplementsArchitecture` | `ImplementsArchitecture` of `pipe.c`, while `PC` is not 0 |
| `FirstVersionImplementsArchitecture` | `ImplementsArchitecture` of `pipe_old.c`, while `PC` is not 0 |
| `FirstVersionIsInOrder` | `InProgramOrder`, `OperandsAreCurrent`, `BranchesSeeTheFlags` of `pipe_old.c` up to its HLT, while `PC` is not 0 |
| `FirstTypesHold` | `TypeOK`, `OutOfBoundsOnlyByBCond` of `pipe_old.c` |
| `PredictorTypesHold`, `PredictionsAreRemembered`, `JumpsAreRemembered`, `StreaksAreLearned` | `TypeOK`, `PredictsLastDestination`, `JumpsArePredicted`, `LearnsTheStreak` of `Predictor` |
| `ShellTypesHold`, `RunsAreCounted`, `TheLastFilePrevails` | `ShellTypeOK`, `RunCountsCycles`, `LastFilePrevails` |
| `EnteredValuesAreRead` | `EnteredValueIsRead`, if words with an unknown opcode name register 0 or 31 |
| `CommandsKeepTheMachine` | the invariants of the pipeline, under the shell, whatever `input` writes to registers, flags and `PC` |
| `CacheTypesHold`, `StampsAreOrdered`, `UsedBlocksStay` | `TypeOK`, `StampsOrderTheSet`, `UsedBlockStays` of `Cache` |
| `CacheIsLru` | `ImplementsLru` |

**Control of the pipeline.** `MissIsReplayed` alone is not inductive: that no stage
but the right one runs while data is awaited needs to know at which values of `stage`
each wait can be seen (`WaitStages`). `ControlInv` is the two with the types. On top of
it come separate invariants: `HaltInv` adds in which latch the HLT is at each stage,
`RegisterInv` that a latch's operation names registers wherever it will use them, but for a B.cond
with an unlisted condition, and that the word in `fetchStruct` is the one at its address (the point
are the words that keep the operation and bring fields of their own),
`RetireInv` that a load-use stall belongs to a load, and `TravelInv` says of both front
latches what `PredictionTravelsAlong` says, at every stage. The lemmas `ExecuteEffect` and
`MemoryEffect` say once what the eight cases of execute and the passing cases of
memory do to the control state, so that each invariant has one step for each stage.

**Data of the pipeline.** `DataInv` is the data half of `TypeOK` with one addition: the
immediate of a MOVZ is a register value, since execute passes it on as it is. What has to be
shown is that execute yields values of 64 bits. For sums and differences that is `% 2^64`; the
bitwise operations and the product are sums over the bits, defined by recursion
(`SumBelow`), and a sum over n bits stays below 2^n (`SumsAreBounded`). Induction over data
is not available, so such lemmas take the least number for which the claim fails
(`LeastNatural`, from the well-foundedness of the naturals). On `StateInv`, which joins control,
registers and data, rest four more:

* `RetryHits`: the two words a retry fills are in one block or in neighbouring ones, which
  lie in different sets, so the second fill cannot take the first away. The instruction
  fill asks for `PC` itself; `FetchWaitOver` says that its wait has ended.
* `StallInv`: the load that is held in `executeStruct` has been through memory once, so its
  block is in the cache and it cannot miss while decode waits for it. That is why a
  stall and a data miss never meet.
* `BubbleInv`: an empty fetch slot also holds the empty word, and has nothing behind it for
  that word to repeat. It is inductive only as long as `PC` is not 0, which is a
  hypothesis of the theorem (`[](PC # 0)`): a program that branches to address 0
  fetches there, and what it fetches looks like a bubble and is none.
* `BranchInv`: the valid rows of the target buffer belong to addresses that hold a branch, or
  an unknown word, which may have repeated one. It also needs that the prediction in the
  latch was made for the address in the latch (`TravelInv`).

**Program order, operands, flags.** `ArchitectureProofs` proves the three invariants above of
every program; the history variables of `PipelineArchitecture` restrict nothing.

* `OrderInv` follows a chain of addresses from execute to `PC`: the successor of the
  instruction execute sent on last leads to `decodeStruct`, the prediction beside
  `decodeStruct` leads to what decode takes next, and the prediction beside `fetchStruct` leads
  to `PC`. A link is an equality, or the address it should lead to is one `update_PC`
  has stepped over. Fetch and decode hand a link on; execute breaks one only if the prediction was
  wrong, and then the flush empties the latches and sets `PC` itself. While fetch
  waits, decode takes the same instruction again, and the chain starts at that one. An
  unknown word ends the chain, because it may act as a branch that nobody predicted. The
  hypothesis `[](PC # 0)` is that of `FlushesLeaveBubbles`.
* `OperandInv` says when something is forwarded at all, that a forwarded value is what
  write-back will make of the register (an int), and that no result passes by an instruction
  that reads it: a load stalls it, another result is forwarded from memory or is 0. The
  second exception, `stale`, has its cause in the history variable `suspect`, the fields whose
  last offer did not come from the last writer of the register.
* `FlagInv` says where the flags of the program are: in the temporary flags, in those of a
  compare in `executeStruct`, which is ahead, or in a result in `memoryStruct`, which is
  behind; and that `overwritten` notes when the second meets the first.

**The refinement.** `RefinementProofs` proves that the pipeline implements `Architecture`: any
program, any registers, caches and predictor of any size, any wait, up to the first departure.
It rests on the three invariants just named. `Architecture` moves when an instruction passes
memory for the first time (`Commits`); every other step is invisible to it. `RefinementInv`
adds what the latches hold, and from the first departure on it says nothing of them:

* `DecodedInv`: `decodeStruct` has the fields of the word at its address. `RunInv`: nothing but a
  HLT stops the machine. `IntsInv`: results and what is forwarded of them fit into an `int`,
  and the destination of a result is a register.
* `StandInv` is the core. What execute sent on last is either the instruction
  `Architecture` is about to do, and then `executeStruct` holds what the registers of
  `Architecture` make of it (`Holding`: result, comparison, address, the halves of the stored
  value); or it has been done. In the second case it may be executed again while fetch waits,
  and this must change nothing: its effect is in place (`Effective`), and it
  computes with no result of its own (`Repeatable`). An instruction that does is the departure
  `again`; that is why the invariant breaks with it.

There are three kinds of steps. `ExecuteStands`: execute fills the latch for the next
instruction, because order, operands and flags are right and nothing was cut
(`ExecuteHolds`, `ExecuteLeads`). `CommitIsStep`: an instruction that passes memory is one
step of `Architecture`, or, passing again, none. All other steps are `Quiet`: they change
neither the latch nor what `Architecture` sees. Among these is write-back, which writes
what counted as written already. The lemmas on memory show that the code's words are the
bytes meant: a word read at an address has the byte there as its low byte (`LowParts`), a
narrow store that writes a word with zeros over zeros writes a byte (`NarrowStores`), and what is
stored twice is stored once (`StoredAgain`).

The attempt found a departure that the programs of the run do not reach: the second word
of an LDUR at the end of the 32-bit range is read from address 0, while the sum in 64 bits
lies beyond. It is in `address` now.

**The first version.** `FirstProofs` proves the same of `pipe_old.c`. `FirstSteps` says what
carries the argument over: a step of that version is one that `pipe.c` has too, and that never
waits; or one of its own that hands an instruction through memory or through execute; or the
begin of a cycle; or a fetch. So the lemmas about `pipe.c` are stated for what both versions have in
common (`CommonInv`, which says nothing of caches, of stalls for data, or of what is forwarded
behind a HLT), and hold of each.

* `KeptInv` holds throughout: the types, that nothing waits (`Still`), and that a load held in
  `executeStruct` is the one in memory.
* `BeforeHalt` collects the invariants up to the HLT. Nothing is ever predicted taken there. Two
  of the invariants of `pipe.c` had to be weakened to hold of both: `OperandInv` speaks of
  `forward \ suspect` only, since forwarding flags that are never reset make stale offers, and
  `FlagInv` has an exception for a SUBS (`Subtracts`), whose flags the first version sets early.
  The first is the departure `stale`; the second is over when the SUBS has left `executeStruct`,
  which is before the next instruction can look at the flags.
* `AfterHalt` is for what comes behind. That version does not drop it, so decode and execute go on
  with any instructions. Of those nothing is known but their types. What saves the program is the
  order: while the machine runs, the HLT is what is in `executeStruct`, so it is the next
  instruction to leave memory, and behind it there is no write-back (`StoppedStays`). Only a store
  takes effect before that, and this is the departure `behind_halt`.

The hypothesis `[](PC # 0)` is that of `pipe.c`.

**Cache.** `UsedBlockStays` counts the uses of a set since an address
was used. It is strengthened by `FewAreNewer`: some block holds the address, and no more
blocks are newer than the uses counted. A fill evicts it only if all blocks are valid and
none is older; then all NumWays - 1 others are newer, so the count has run out.
`OperatorLemmas` states what `cache_update` and `check_cache_hit` do to one set (`FillStamps`,
`HitStamps`).

**Least-recently-used replacement.** The refinement mapping gives each set the list of
its tags, the newest stamp first: a block's place is one more than the number of newer
blocks. `Places` shows that distinct stamps give each place from 1 to the number of valid blocks
to one block, `PlacesAfter` where a new stamp moves everything, and `ListedAfter` that
this is `<<t>> \o RemoveAt(list, place)` or, for an empty block, `<<t>> \o list`. A hit is `Find` at
the place of the copy found first (`HitIsFind`), a lookup without a hit is `Miss`, and a fill is
`Fill`: the victim of a full set has all other blocks in front of it, so it is the last of
the list (`UpdateIsFill`). The only invariant this needs is `StampsOrderTheSet`.

**Predictor.** `RowsAreOwned` says what each row of the target buffer holds:
the branch executed last of those that select it, with its kind and the place it went to
last. A branch that is executed changes one row and one destination, and the rows of the
other branches cannot name it, because they would select the same row. `StreakInv` is about
the history: after j repetitions its last j bits are the outcome, for j up to
`IndexBits`; from then on the history is the same each time, so the branch meets the same counter,
which has moved n steps after `IndexBits + n` repetitions. Two steps take it over the middle.

**Shell.** `GoalInv` relates `stat_cycles` to the argument of `run` while the
loop is on its way: what is done, what is begun and what is due add up to the goal.
`CycleStep` says once for all stages that a cycle is counted when it ends. `input` is the one
command that touches the machine: `MachineInv`, all invariants of the pipeline
together, survives it, also when it changes the flags or moves `PC` while a fetch waits, so that the theorems about `Spec` also hold of `ShellSpec`. For
`EnteredValueIsRead`, `EntryInv` says that no result is on its way to a register that holds an
entered value: instructions without a destination have 0, 31 or 50 in `Rd`, and forwarding is
used up before the next decode. The hypothesis `KnownWords` is needed for that: a word that
decodes to nothing forwards the result of the instruction before it, which travels with the
bubble, to whatever register its own low bits name. The zero words around a program
name register 0. `TheLastFilePrevails` follows the files one by one (`FromLast`).

Only model-checked: liveness (`HaltStops`, `MissIsServed`, `CommandsReturn`), which is out of the
provers' reach, and `GradedResults`, the outcome of four particular programs. What the bitwise
operations compute is not proved either, only that it has 64 bits: both sides of the
refinement use the same operators for them.

## 5. Not modelled

* Loads from and stores to the text region: an instruction word is a record of fields and
  not bytes. Accesses that start in the last three bytes of a region and run over the end
  of the host array: what lies there is no state of the program.
* Instructions fetched from the data or stack region, or from an address that is no multiple of 4
  (a BR can reach both): `mem_read_32` puts a word together from the bytes there. The model takes the
  word 0, or the word of the text the address falls in.
* Other layouts of the variables than that of the binary `src/src/sim`: what is behind `REGS[40]` and
  `REGS[50]` depends on it, that they are outside `REGS` does not. `FirstPipeline` takes the same layout, since the Makefile
  does not build `pipe_old.c`.
* `input` with a number that is not 0 to 33. The code takes any `int` (shell.c:300) and writes to
  whatever global lies there.
* A word of `pipe_old.c` that has no operation and equals the address of a branch in the target
  buffer: `pipe_old.c:1366` passes the word itself to `bp_predict`, which would find that row.
  `FirstFetch` takes every prediction to be "not taken".
* Words are decoded when the program is loaded into the model, and not again in each decode: the
  text region does not change. Only `graded` starts from the bits; the other runs start from
  records that `Assembly` makes, whose fields are those the bits have.
* `mdump`, `rdump` and the help text, which change nothing; all printing; the scanning of command
  lines and of the hex digits of program files.
* Allocation (the record `update_PC` allocates at pipe.c:415 is smaller than what is written
  to it; the model takes what is read back to be what was written), and `cache_destroy`.
* Overflow of `lru_tracker`, which takes 2^31 uses.
* What `pipe_old.c` writes and never reads: `BFlag`, `CBFlag`, `cycleCounter`.
* The binaries, the toolchain and the scripts.

## 6. Plan

What is left: the text region as memory, now that `InstructionWords` gives its words as bits.
