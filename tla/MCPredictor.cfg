CONSTANTS
    ByteBits = 1
    IndexBits = 2
    MaxStreak = 4
    Code <- FewBranches
SPECIFICATION Spec
INVARIANTS
    TypeOK
    PredictsLastDestination
    JumpsArePredicted
    LearnsTheStreak
