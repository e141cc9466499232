CONSTANTS
    ByteBits = 3
    IndexBits = 1
    TextStart = 512
    DataStart = 1024
    DataSize = 40
    StackStart = 4092
    StackSize = 8
    DataSets = 4
    DataWays = 1
    InstructionSets = 4
    InstructionWays = 1
    MissCycles = 1
    MaxCycles = 14
    Regs = {0, 1, 2, 3, 31}
    Programs <- ComparedPrograms
    RegisterFiles <- ComparedRegisters
SPECIFICATION FirstHistorySpec
PROPERTY ImplementsArchitecture
CHECK_DEADLOCK FALSE
