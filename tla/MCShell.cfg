CONSTANTS
    ByteBits = 3
    IndexBits = 1
    TextStart = 512
    DataStart = 1024
    DataSize = 40
    StackStart = 4092
    StackSize = 8
    DataSets = 4
    DataWays = 1
    InstructionSets = 4
    InstructionWays = 1
    MissCycles = 1
    MaxCycles = 24
    Regs = {0, 1, 2, 3, 31}
    Programs <- LoadedPrograms
    RegisterFiles <- AddressRegisters
    FileLists <- Lists
    RunLengths <- Counts
    Inputs <- Entries
    MaxInputs = 1
SPECIFICATION ShellSpec
INVARIANTS
    ShellTypeOK
    LastFilePrevails
    RunCountsCycles
    EnteredValueIsRead
PROPERTY CommandsReturn
CHECK_DEADLOCK FALSE
