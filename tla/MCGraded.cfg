CONSTANTS
    ByteBits = 3
    IndexBits = 8
    TextStart = 512
    DataStart = 1024
    DataSize = 64
    StackStart = 4092
    StackSize = 8
    DataSets = 256
    DataWays = 8
    InstructionSets = 64
    InstructionWays = 4
    MissCycles = 9
    MaxCycles = 600
    Regs = {0, 1, 2, 3, 4, 5, 6, 7, 8, 9, 31}
    Programs <- GradedPrograms
    RegisterFiles <- ZeroRegisters
SPECIFICATION Spec
INVARIANT GradedResults
