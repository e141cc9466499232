CONSTANTS
    ByteBits = 3
    IndexBits = 1
    TextStart = 512
    DataStart = 1024
    DataSize = 40
    StackStart = 4092
    StackSize = 8
    DataSets = 4
    DataWays = 2
    InstructionSets = 4
    InstructionWays = 2
    MissCycles = 9
    MaxCycles = 60
    Regs = {0, 1, 2, 3, 31}
    Programs <- UntakenBranch
    RegisterFiles <- Registers
SPECIFICATION Spec
INVARIANT Accurate
CHECK_DEADLOCK FALSE
