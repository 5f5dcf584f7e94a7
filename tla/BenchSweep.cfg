CONSTANTS
    ALICE = ALICE
    BOB = BOB
    Script <- SweepProgram
    Capacity = 2
    Args = {a1, a2}
    StackLimits <- Limits
    MaxTrials = 2
    MaxCubes = 1
SPECIFICATION Spec
CHECK_DEADLOCK FALSE
INVARIANTS
    TypeOK
    SetupIsNotTimed
    BytesAddUp
    WholeEstimateRevealed
    TruthIsOfTheInputs
PROPERTIES
    SweepEnds
